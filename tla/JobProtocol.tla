---------------------------- MODULE JobProtocol ----------------------------
(***************************************************************************)
(* The service layer of the Open Job Protocol (ojp/service.py) over the    *)
(* money operations of ojp/ledger.py.                                      *)
(*                                                                         *)
(* Every command of the service runs in one BEGIN IMMEDIATE transaction of *)
(* SQLite and samples the clock once inside it, so one command is one      *)
(* action here: it reads the whole database and changes it atomically, and *)
(* a command that raises an OjpError is rolled back and is no step at all. *)
(* The commands of the participants, of the scheduler and of the payment   *)
(* processor interleave freely; module Scheduler refines the scheduler's   *)
(* actions into the reads and transactions of one tick.                    *)
(*                                                                         *)
(* A root job is bought by its requester and done by a worker, who may     *)
(* hand parts of it to child jobs paid from the root's deposit.            *)
(***************************************************************************)
EXTENDS Integers, FiniteSets, Functions

CONSTANTS
  Roots,        \* identifiers of root jobs
  Children,     \* identifiers of child jobs
  Participants, \* human and agent participants (the system actor is the scheduler)
  Tasks,        \* task keys of the published catalog
  None,         \* no participant, no task, no parent
  Requesters,   \* the participants who publish root jobs
  Seeded,       \* the participants who have a wallet in the ledger
  InitialBalance, \* what the wallets hold at first
  RootBudgets, ChildBudgets, \* the budgets a requester, a worker may ask for
  RootDeadlines, ChildDeadlines, \* the deadlines they may ask for
  TaskCap,      \* budget_cap_units of each catalog entry
  Policy,       \* the subcontract policy of the published versions
  LeaseTime, ReviewTime, DisputeTime, \* the timing policy of the versions
  MaxTime       \* the clock stops here: bounds the model

Jobs == Roots \cup Children

ASSUME JobsAssumption ==
  /\ Roots \cap Children = {}
  /\ None \notin Jobs \cup Participants \cup Tasks
  /\ Requesters \subseteq Participants
  /\ Seeded \subseteq Participants
  /\ IsFiniteSet(Children)

ASSUME AmountsAssumption ==
  /\ InitialBalance \in Nat
  /\ RootBudgets \subseteq Nat \ {0}
  /\ ChildBudgets \subseteq Nat \ {0}
  /\ TaskCap \in [Tasks -> Nat]

ASSUME PolicyAssumption ==
  /\ Policy \in [enabled : BOOLEAN, max_amount : Nat, max_ratio_bps : Nat,
                 max_children : Nat, max_depth : 0..1]
  /\ Policy.max_ratio_bps <= 10000

ASSUME TimingAssumption ==
  /\ {LeaseTime, ReviewTime, DisputeTime} \subseteq Nat \ {0}
  /\ RootDeadlines \subseteq Nat
  /\ ChildDeadlines \subseteq Nat
  /\ MaxTime \in Nat

VARIABLES
  now,        \* the clock every transaction reads
  \* jobs and job_versions
  state, requester, parent, task, budget, deadline,
  \* leases, submissions, disputes, acceptances (one row of each per job)
  lease, reviewDue, dispute, acceptance,
  \* budget_accounts, and the sum of the fund journal of each root
  bal, deposit,
  \* payment_operations by business key, transfer_receipts
  pay, receipt

jobVars   == <<state, requester, parent, task, budget, deadline>>
stageVars == <<lease, reviewDue, dispute, acceptance>>
moneyVars == <<bal, deposit>>
payVars   == <<pay, receipt>>
vars      == <<now, jobVars, stageVars, moneyVars, payVars>>

-----------------------------------------------------------------------------
(***************************************************************************)
(* Identifiers and types of the tables.                                    *)
(***************************************************************************)

\* domain.JobState; NONE is a row that does not exist yet.
JobState == {"NONE", "DRAFT", "OPEN", "LEASED", "SUBMITTED", "DISPUTED",
             "DONE", "FAILED", "EXPIRED"}
Terminal == {"DONE", "FAILED", "EXPIRED"}
Live     == {"OPEN", "LEASED", "SUBMITTED", "DISPUTED"}
Failed   == {"FAILED", "EXPIRED"}

\* domain.Bucket. Balances are kept per account: a wallet per participant,
\* three buckets per root and two per child.
Available(r)    == <<"available", r>>
ParentPayout(r) == <<"parent_payout", r>>
Refund(r)       == <<"refund", r>>
ChildWork(c)    == <<"child_work", c>>
ChildPayout(c)  == <<"child_payout", c>>
Wallet(p)       == <<"wallet", p>>

Accounts == ({"available", "parent_payout", "refund"} \X Roots)
            \cup ({"child_work", "child_payout"} \X Children)
            \cup ({"wallet"} \X Participants)

\* The business keys of payments: payout:{job}, refund:{root}:terminal and
\* refund:{root}:child-return:{child}.
PayoutKey(j) == <<"payout", j>>
TerminalKey(r) == <<"terminal", r>>
ReturnKey(c) == <<"child-return", c>>
PayKeys == ({"payout"} \X Jobs) \cup ({"terminal"} \X Roots)
           \cup ({"child-return"} \X Children)

RootOf(j) == IF j \in Roots THEN j ELSE parent[j]
ChildrenOf(r) == {c \in Children : parent[c] = r}

\* source_account_id of a payment, fixed when it is reserved.
Source(k) == CASE k[1] = "payout" /\ k[2] \in Roots -> ParentPayout(k[2])
               [] k[1] = "payout" /\ k[2] \in Children -> ChildPayout(k[2])
               [] OTHER -> Refund(RootOf(k[2]))

PaymentStatus == {"NONE", "PENDING", "RETRYABLE", "SUCCEEDED"}
NoPayment == [status |-> "NONE", amount |-> 0, payee |-> None]
Reserved(k) == pay[k].status # "NONE"

NoLease == [generation |-> 0, worker |-> None, expires |-> 0, closed |-> "NONE"]
LeaseClosedReason == {"NONE", "SUBMITTED", "EXPIRED", "ABANDONED"}
HasActiveLease(j) == lease[j].generation > 0 /\ lease[j].closed = "NONE"

NoDispute == [status |-> "NONE", due |-> 0]

TypeOK ==
  /\ now \in Nat
  /\ state \in [Jobs -> JobState]
  /\ requester \in [Jobs -> Participants \cup {None}]
  /\ parent \in [Children -> Roots \cup {None}]
  /\ task \in [Children -> Tasks \cup {None}]
  /\ budget \in [Jobs -> Nat]
  /\ deadline \in [Jobs -> Nat]
  /\ lease \in [Jobs -> [generation : Nat, worker : Participants \cup {None},
                         expires : Nat, closed : LeaseClosedReason]]
  /\ reviewDue \in [Jobs -> Nat]
  /\ dispute \in [Jobs -> [status : {"NONE", "OPEN", "RESOLVED"}, due : Nat]]
  /\ acceptance \in [Jobs -> {"NONE", "APPROVED", "REJECTED"}]
  /\ bal \in [Accounts -> Nat]
  /\ deposit \in [Roots -> Nat]
  /\ pay \in [PayKeys -> [status : PaymentStatus, amount : Nat,
                          payee : Participants \cup {None}]]
  /\ receipt \in [PayKeys -> Nat]

Init ==
  /\ now = 0
  /\ state = [j \in Jobs |-> "NONE"]
  /\ requester = [j \in Jobs |-> None]
  /\ parent = [c \in Children |-> None]
  /\ task = [c \in Children |-> None]
  /\ budget = [j \in Jobs |-> 0]
  /\ deadline = [j \in Jobs |-> 0]
  /\ lease = [j \in Jobs |-> NoLease]
  /\ reviewDue = [j \in Jobs |-> 0]
  /\ dispute = [j \in Jobs |-> NoDispute]
  /\ acceptance = [j \in Jobs |-> "NONE"]
  /\ bal = [a \in Accounts |->
              IF a[1] = "wallet" /\ a[2] \in Seeded THEN InitialBalance ELSE 0]
  /\ deposit = [r \in Roots |-> 0]
  /\ pay = [k \in PayKeys |-> NoPayment]
  /\ receipt = [k \in PayKeys |-> 0]

-----------------------------------------------------------------------------
(***************************************************************************)
(* Effects shared by several commands.                                     *)
(***************************************************************************)
MinOf(x, y) == IF x < y THEN x ELSE y

\* Operators named ..._Fault are seeded faults: each is the definition after it
\* with one plausible mistake. No other definition uses them; they are put in
\* place of the definition to see that a property notices the mistake.
Move_Fault(from, to, amount) ==
  bal' = [bal EXCEPT ![from] = @ - amount, ![to] = @ + amount]

\* apply_journal: a balanced entry that would leave an account negative
\* violates the CHECK of budget_accounts and aborts the transaction.
Move(from, to, amount) ==
  /\ bal[from] >= amount
  /\ bal' = [bal EXCEPT ![from] = @ - amount, ![to] = @ + amount]

\* create_payment_operation_in_tx: business_key is UNIQUE.
Reserve(k, amount, payee) ==
  /\ ~ Reserved(k)
  /\ pay' = [pay EXCEPT ![k] = [status |-> "PENDING", amount |-> amount,
                                payee |-> payee]]

\* require_active_lease, for the worker of the lease: the lease row is open
\* and neither the lease nor the job is past its time.
RequireActiveLease(p, j) ==
  /\ HasActiveLease(j)
  /\ lease[j].worker = p
  /\ now < lease[j].expires
  /\ now < deadline[j]

\* _reserve_terminal_refund_with_payment_in_tx: what is left of the deposit
\* goes back to the root's requester, once.
RootFailureFunds(r) ==
  LET amount == bal[Available(r)] IN
  IF Reserved(TerminalKey(r)) \/ amount = 0
    THEN UNCHANGED <<bal, pay>>
    ELSE /\ Move(Available(r), Refund(r), amount)
         /\ Reserve(TerminalKey(r), amount, requester[r])

ChildFailureFunds_LateFault(c) ==
  IF bal[ChildWork(c)] = 0
    THEN UNCHANGED <<bal, pay>>
    ELSE Move(ChildWork(c), Available(parent[c]), bal[ChildWork(c)]) /\ UNCHANGED pay

ChildFailureFunds_KeepFault(c) ==
  IF bal[ChildWork(c)] = 0 \/ state[parent[c]] \in Failed
    THEN UNCHANGED <<bal, pay>>
    ELSE Move(ChildWork(c), Available(parent[c]), bal[ChildWork(c)]) /\ UNCHANGED pay

\* _child_terminal_fund_effects: the child's reservation returns to the
\* parent's available balance or, when the parent has already failed, is
\* booked through available into the refund bucket and reserved at once.
ChildFailureFunds(c) ==
  LET amount == bal[ChildWork(c)]
      r == parent[c] IN
  IF amount = 0
    THEN UNCHANGED <<bal, pay>>
    ELSE IF state[r] \notin Failed
      THEN Move(ChildWork(c), Available(r), amount) /\ UNCHANGED pay
      ELSE IF Reserved(ReturnKey(c))
        THEN UNCHANGED <<bal, pay>>
        ELSE /\ Move(ChildWork(c), Refund(r), amount)
             /\ Reserve(ReturnKey(c), amount, requester[r])

\* _job_terminal_fund_effects
FailureFunds(j) ==
  /\ IF j \in Roots THEN RootFailureFunds(j) ELSE ChildFailureFunds(j)
  /\ UNCHANGED <<deposit, receipt>>

PayoutFunds_Fault(j) ==
  LET from == IF j \in Roots THEN Available(j) ELSE ChildWork(j)
      to   == IF j \in Roots THEN ParentPayout(j) ELSE ChildPayout(j) IN
  /\ IF bal[from] = 0
       THEN UNCHANGED <<bal, pay>>
       ELSE Move(from, to, bal[from]) /\ Reserve(PayoutKey(j), budget[j], lease[j].worker)
  /\ UNCHANGED <<deposit, receipt>>

\* child_approval_in_tx and parent_approval_in_tx with their payment: a child
\* is paid its reservation, a root everything that is still available. Nothing
\* is booked for an amount of zero.
PayoutFunds(j) ==
  LET from == IF j \in Roots THEN Available(j) ELSE ChildWork(j)
      to   == IF j \in Roots THEN ParentPayout(j) ELSE ChildPayout(j)
      amount == bal[from] IN
  /\ IF amount = 0
       THEN UNCHANGED <<bal, pay>>
       ELSE Move(from, to, amount) /\ Reserve(PayoutKey(j), amount, lease[j].worker)
  /\ UNCHANGED <<deposit, receipt>>

\* _approve_effects: acceptances.job_id is the primary key, so a second
\* decision on a job is refused by the database.
ApproveEffects(j) ==
  /\ acceptance[j] = "NONE"
  /\ acceptance' = [acceptance EXCEPT ![j] = "APPROVED"]
  /\ state' = [state EXCEPT ![j] = "DONE"]
  /\ PayoutFunds(j)
  /\ UNCHANGED <<now, requester, parent, task, budget, deadline, lease, reviewDue>>

FailJob_Fault(j, closedReason, terminalState) ==
  /\ lease' = IF HasActiveLease(j) THEN [lease EXCEPT ![j].closed = closedReason]
                                   ELSE lease
  /\ state' = [k \in Jobs |->
                IF k = j \/ (state[k] \in Live /\ RootOf(k) = j)
                  THEN terminalState ELSE state[k]]
  /\ FailureFunds(j)
  /\ UNCHANGED <<now, requester, parent, task, budget, deadline, reviewDue,
                 dispute, acceptance>>

\* _close_lease_and_fail_job_effects, then the funds.
FailJob(j, closedReason, terminalState) ==
  /\ lease' = IF HasActiveLease(j) THEN [lease EXCEPT ![j].closed = closedReason]
                                   ELSE lease
  /\ state' = [state EXCEPT ![j] = terminalState]
  /\ FailureFunds(j)
  /\ UNCHANGED <<now, requester, parent, task, budget, deadline, reviewDue,
                 dispute, acceptance>>

-----------------------------------------------------------------------------
(***************************************************************************)
(* Publishing and funding a root.                                          *)
(***************************************************************************)

\* create_root
CreateRoot(p, r, b, d) ==
  /\ state[r] = "NONE"
  /\ now < d
  /\ state' = [state EXCEPT ![r] = "DRAFT"]
  /\ requester' = [requester EXCEPT ![r] = p]
  /\ budget' = [budget EXCEPT ![r] = b]
  /\ deadline' = [deadline EXCEPT ![r] = d]
  /\ UNCHANGED <<now, parent, task, stageVars, moneyVars, payVars>>

\* fund_root: the published budget, exactly once (DRAFT), from a seeded wallet.
FundRoot(p, r) ==
  /\ state[r] = "DRAFT"
  /\ p = requester[r]
  /\ p \in Seeded
  /\ state' = [state EXCEPT ![r] = "OPEN"]
  /\ Move(Wallet(p), Available(r), budget[r])
  /\ deposit' = [deposit EXCEPT ![r] = @ + budget[r]]
  /\ UNCHANGED <<now, requester, parent, task, budget, deadline, stageVars, payVars>>

-----------------------------------------------------------------------------
(***************************************************************************)
(* Working on a job.                                                       *)
(***************************************************************************)

\* claim
Claim(p, j) ==
  /\ state[j] = "OPEN"
  /\ now < deadline[j]
  /\ ~ HasActiveLease(j)
  /\ p # requester[j]
  /\ lease' = [lease EXCEPT ![j] =
                [generation |-> @.generation + 1, worker |-> p,
                 expires |-> MinOf(now + LeaseTime, deadline[j]), closed |-> "NONE"]]
  /\ state' = [state EXCEPT ![j] = "LEASED"]
  /\ UNCHANGED <<now, requester, parent, task, budget, deadline, reviewDue,
                 dispute, acceptance, moneyVars, payVars>>

Heartbeat_Fault(p, j) ==
  /\ RequireActiveLease(p, j)
  /\ lease' = [lease EXCEPT ![j].expires = now + LeaseTime]
  /\ UNCHANGED <<now, jobVars, reviewDue, dispute, acceptance, moneyVars, payVars>>

\* heartbeat
Heartbeat(p, j) ==
  /\ RequireActiveLease(p, j)
  /\ lease' = [lease EXCEPT ![j].expires = MinOf(now + LeaseTime, deadline[j])]
  /\ UNCHANGED <<now, jobVars, reviewDue, dispute, acceptance, moneyVars, payVars>>

\* abandon
Abandon(p, j) ==
  /\ state[j] = "LEASED"
  /\ RequireActiveLease(p, j)
  /\ FailJob(j, "ABANDONED", "FAILED")

\* What a child holds or was paid.
Usage == [c \in Children |-> bal[ChildWork(c)] + bal[ChildPayout(c)]
                             + receipt[PayoutKey(c)]]

InUse_Fault(r) ==
  SumFunctionOnSet([c \in Children |-> bal[ChildWork(c)] + bal[ChildPayout(c)]],
                   ChildrenOf(r))

\* get_subcontract_usage: what the children of a root hold or were paid.
InUse(r) == SumFunctionOnSet(Usage, ChildrenOf(r))

RatioCap(r) == (Policy.max_ratio_bps * deposit[r]) \div 10000

WithinPolicy_Fault(r, t, b) ==
  LET inUse == SumFunctionOnSet([c \in Children |-> bal[ChildWork(c)] + bal[ChildPayout(c)]],
                                ChildrenOf(r)) IN
  /\ Policy.enabled
  /\ Policy.max_depth # 0
  /\ b <= TaskCap[t]
  /\ inUse + b <= Policy.max_amount
  /\ inUse + b <= RatioCap(r)
  /\ b <= bal[Available(r)]
  /\ Cardinality(ChildrenOf(r)) + 1 <= Policy.max_children

\* The limits of the policy, checked against the usage read in the same
\* transaction (the reason code given for a refusal is not modelled).
WithinPolicy(r, t, b) ==
  /\ Policy.enabled
  /\ Policy.max_depth # 0
  /\ b <= TaskCap[t]
  /\ InUse(r) + b <= Policy.max_amount
  /\ InUse(r) + b <= RatioCap(r)
  /\ b <= bal[Available(r)]
  /\ Cardinality(ChildrenOf(r)) + 1 <= Policy.max_children

TaskFree_Fault(r, t) ==
  \A c \in ChildrenOf(r) : task[c] = t => state[c] \notin Live

\* A task is free unless a child that lives or succeeded already has it.
TaskFree(r, t) ==
  \A c \in ChildrenOf(r) : task[c] = t => state[c] \in Failed

\* create_child, by the worker of the parent; a parent that is itself a child
\* is refused (depth), so parents range over Roots.
CreateChild(p, r, c, t, b, d) ==
  /\ state[c] = "NONE"
  /\ RequireActiveLease(p, r)
  /\ state[r] = "LEASED"
  /\ TaskFree(r, t)
  /\ now < d
  /\ WithinPolicy(r, t, b)
  /\ state' = [state EXCEPT ![c] = "OPEN"]
  /\ requester' = [requester EXCEPT ![c] = p]
  /\ parent' = [parent EXCEPT ![c] = r]
  /\ task' = [task EXCEPT ![c] = t]
  /\ budget' = [budget EXCEPT ![c] = b]
  /\ deadline' = [deadline EXCEPT ![c] = d]
  /\ Move(Available(r), ChildWork(c), b)
  /\ UNCHANGED <<now, stageVars, deposit, payVars>>

Submit_Fault(p, j) ==
  /\ state[j] = "LEASED"
  /\ RequireActiveLease(p, j)
  /\ state' = [state EXCEPT ![j] = "SUBMITTED"]
  /\ lease' = [lease EXCEPT ![j].closed = "SUBMITTED"]
  /\ reviewDue' = [reviewDue EXCEPT ![j] = now + ReviewTime]
  /\ UNCHANGED <<now, requester, parent, task, budget, deadline, dispute,
                 acceptance, moneyVars, payVars>>

\* submit, when the verifier passes the artifact. (A failing artifact only
\* appends a submission_attempts row and leaves the job LEASED.)
Submit(p, j) ==
  /\ state[j] = "LEASED"
  /\ RequireActiveLease(p, j)
  /\ j \in Roots => \A c \in ChildrenOf(j) : state[c] \in Terminal
  /\ state' = [state EXCEPT ![j] = "SUBMITTED"]
  /\ lease' = [lease EXCEPT ![j].closed = "SUBMITTED"]
  /\ reviewDue' = [reviewDue EXCEPT ![j] = now + ReviewTime]
  /\ UNCHANGED <<now, requester, parent, task, budget, deadline, dispute,
                 acceptance, moneyVars, payVars>>

-----------------------------------------------------------------------------
(***************************************************************************)
(* Accepting or disputing a submission.                                    *)
(***************************************************************************)

Approve_Fault(p, j) ==
  /\ state[j] \in {"SUBMITTED", "DISPUTED"}
  /\ p = requester[j]
  /\ ApproveEffects(j)
  /\ UNCHANGED dispute

\* approve
Approve(p, j) ==
  /\ state[j] = "SUBMITTED"
  /\ p = requester[j]
  /\ ApproveEffects(j)
  /\ UNCHANGED dispute

MayDispute(p, j) == p \in {requester[j], requester[RootOf(j)]}

Dispute_Fault(p, j) ==
  /\ state[j] \in {"SUBMITTED", "DONE"}
  /\ MayDispute(p, j)
  /\ now < reviewDue[j]
  /\ dispute[j].status = "NONE"
  /\ dispute' = [dispute EXCEPT ![j] = [status |-> "OPEN", due |-> now + DisputeTime]]
  /\ state' = [state EXCEPT ![j] = "DISPUTED"]
  /\ UNCHANGED <<now, requester, parent, task, budget, deadline, lease, reviewDue,
                 acceptance, moneyVars, payVars>>

\* dispute, inside the review window
Dispute(p, j) ==
  /\ state[j] = "SUBMITTED"
  /\ MayDispute(p, j)
  /\ now < reviewDue[j]
  /\ dispute[j].status = "NONE"
  /\ dispute' = [dispute EXCEPT ![j] = [status |-> "OPEN", due |-> now + DisputeTime]]
  /\ state' = [state EXCEPT ![j] = "DISPUTED"]
  /\ UNCHANGED <<now, requester, parent, task, budget, deadline, lease, reviewDue,
                 acceptance, moneyVars, payVars>>

\* dispute, after the review window: the same transaction approves the
\* submission and commits, and only then is the caller refused.
DisputeTooLate(p, j) ==
  /\ state[j] = "SUBMITTED"
  /\ MayDispute(p, j)
  /\ now >= reviewDue[j]
  /\ ApproveEffects(j)
  /\ UNCHANGED dispute

-----------------------------------------------------------------------------
(***************************************************************************)
(* What the scheduler does to a job (tick_once), one transaction each.     *)
(***************************************************************************)

ExpiryDue_Fault(j) ==
  /\ state[j] \in Live
  /\ now >= deadline[j] \/ (HasActiveLease(j) /\ now >= lease[j].expires)

\* expire_due_leases on one target.
ExpiryDue(j) ==
  \/ state[j] = "OPEN" /\ now >= deadline[j]
  \/ /\ state[j] = "LEASED"
     /\ HasActiveLease(j)
     /\ now >= lease[j].expires \/ now >= deadline[j]
     /\ reviewDue[j] = 0  \* no submission row

Expire(j) ==
  /\ ExpiryDue(j)
  /\ FailJob(j, "EXPIRED", "EXPIRED")

\* approve_due_submissions on one target
AutoApprove(j) ==
  /\ state[j] = "SUBMITTED"
  /\ now >= reviewDue[j]
  /\ dispute[j].status # "OPEN"
  /\ ApproveEffects(j)
  /\ UNCHANGED dispute

ResolveDispute(j) == dispute' = [dispute EXCEPT ![j].status = "RESOLVED"]

\* resolve_due_disputes, when the second verification passes, or fails on
\* another condition than the disputed one: the dispute is not upheld.
ResolveApprove(j) ==
  /\ state[j] = "DISPUTED" /\ dispute[j].status = "OPEN"
  /\ ApproveEffects(j)
  /\ ResolveDispute(j)

\* ... when the arbiter does not answer: the stored PASS decides, but not
\* before the dispute is due.
ResolveUnresponsive(j) ==
  /\ state[j] = "DISPUTED" /\ dispute[j].status = "OPEN"
  /\ now >= dispute[j].due
  /\ ApproveEffects(j)
  /\ ResolveDispute(j)

\* ... when the second verification fails on the disputed condition.
ResolveReject(j) ==
  /\ state[j] = "DISPUTED" /\ dispute[j].status = "OPEN"
  /\ acceptance[j] = "NONE"
  /\ acceptance' = [acceptance EXCEPT ![j] = "REJECTED"]
  /\ state' = [state EXCEPT ![j] = "FAILED"]
  /\ FailureFunds(j)
  /\ ResolveDispute(j)
  /\ UNCHANGED <<now, requester, parent, task, budget, deadline, lease, reviewDue>>

\* reserve_refundable_balance; on any other root it holds.
ReserveRefundable(r) ==
  /\ state[r] \in Failed
  /\ RootFailureFunds(r)
  /\ UNCHANGED <<now, jobVars, stageVars, deposit, receipt>>

-----------------------------------------------------------------------------
(***************************************************************************)
(* process_single_payment, whoever calls it (tick, refund, retry_payment): *)
(* the transfer and its receipt are one transaction, the mark another.     *)
(***************************************************************************)

TransferPayment_Fault(k) ==
  /\ pay[k].status \in {"PENDING", "RETRYABLE"}
  /\ pay[k].payee \in Seeded
  /\ Move(Source(k), Wallet(pay[k].payee), pay[k].amount)
  /\ receipt' = [receipt EXCEPT ![k] = pay[k].amount]
  /\ UNCHANGED <<now, jobVars, stageVars, deposit, pay>>

TransferPayment(k) ==
  /\ pay[k].status \in {"PENDING", "RETRYABLE"}
  /\ receipt[k] = 0
  /\ pay[k].payee \in Seeded
  /\ Move(Source(k), Wallet(pay[k].payee), pay[k].amount)
  /\ receipt' = [receipt EXCEPT ![k] = pay[k].amount]
  /\ UNCHANGED <<now, jobVars, stageVars, deposit, pay>>

\* A caller that holds the receipt (its own, or one it looked up) marks the
\* payment; if it crashes first, the next caller does.
MarkSucceeded(k) ==
  /\ pay[k].status \in {"PENDING", "RETRYABLE"}
  /\ receipt[k] > 0
  /\ pay' = [pay EXCEPT ![k].status = "SUCCEEDED"]
  /\ UNCHANGED <<now, jobVars, stageVars, moneyVars, receipt>>

PaymentFails_Fault(k) ==
  /\ Reserved(k)
  /\ pay' = [pay EXCEPT ![k].status = "RETRYABLE"]
  /\ UNCHANGED <<now, jobVars, stageVars, moneyVars, receipt>>

\* The escrow raises (an unseeded payee, a failing transfer): the payment is
\* kept for a retry, except when another caller has already succeeded.
PaymentFails(k) ==
  /\ pay[k].status \in {"PENDING", "RETRYABLE"}
  /\ pay' = [pay EXCEPT ![k].status = "RETRYABLE"]
  /\ UNCHANGED <<now, jobVars, stageVars, moneyVars, receipt>>

\* Real time passes, or set_test_now moves the test clock forward.
AdvanceTime ==
  /\ now < MaxTime
  /\ now' = now + 1
  /\ UNCHANGED <<jobVars, stageVars, moneyVars, payVars>>

-----------------------------------------------------------------------------
PublishStep ==
  \E r \in Roots :
    \/ \E p \in Requesters, b \in RootBudgets, d \in RootDeadlines :
         CreateRoot(p, r, b, d)
    \/ \E p \in Participants : FundRoot(p, r)

WorkStep ==
  \E p \in Participants :
    \/ \E j \in Jobs : Claim(p, j) \/ Heartbeat(p, j) \/ Abandon(p, j) \/ Submit(p, j)
    \/ \E r \in Roots, c \in Children, t \in Tasks, b \in ChildBudgets,
          d \in ChildDeadlines : CreateChild(p, r, c, t, b, d)

ReviewStep ==
  \E p \in Participants, j \in Jobs :
    Approve(p, j) \/ Dispute(p, j) \/ DisputeTooLate(p, j)

TickStep ==
  \/ \E j \in Jobs : \/ Expire(j) \/ AutoApprove(j)
                     \/ ResolveApprove(j) \/ ResolveUnresponsive(j) \/ ResolveReject(j)
  \/ \E r \in Roots : ReserveRefundable(r)

PaymentStep ==
  \E k \in PayKeys : TransferPayment(k) \/ MarkSucceeded(k) \/ PaymentFails(k)

Next == PublishStep \/ WorkStep \/ ReviewStep \/ TickStep \/ PaymentStep \/ AdvanceTime

Spec == Init /\ [][Next]_vars

=============================================================================
