--------------------------- MODULE JobProperties ---------------------------
(***************************************************************************)
(* What JobProtocol promises: the invariants and action properties that    *)
(* relate the state of jobs, the accounts of the ledger and the payments.  *)
(***************************************************************************)
EXTENDS JobProtocol

LockedAccounts(r) ==
  {ParentPayout(r), Refund(r)} \cup {ChildWork(c) : c \in ChildrenOf(r)}
                               \cup {ChildPayout(c) : c \in ChildrenOf(r)}
PaymentsOf(r) ==
  {PayoutKey(r), TerminalKey(r)} \cup {PayoutKey(c) : c \in ChildrenOf(r)}
                                 \cup {ReturnKey(c) : c \in ChildrenOf(r)}

\* What is still to be paid of each reservation.
Unpaid == [k \in PayKeys |-> IF receipt[k] = 0 THEN pay[k].amount ELSE 0]

\* Section 9 of the plan, D = available + locked + paid + refunded: whatever a
\* root's deposit went through, every unit of it is available, locked in a
\* bucket, or was handed over with a receipt.
Conservation ==
  \A r \in Roots :
    deposit[r] = bal[Available(r)]
                 + SumFunctionOnSet(bal, LockedAccounts(r))
                 + SumFunctionOnSet(receipt, PaymentsOf(r))

\* A locked bucket holds exactly what is still to be paid out of it: no transfer
\* can find its reservation too small (ledger.py transfer), not even in the
\* refund bucket, which the terminal refund and several child returns share.
ReservationsFunded ==
  \A r \in Roots : \A a \in LockedAccounts(r) :
    a[1] # "child_work" =>
      bal[a] = SumFunctionOnSet(Unpaid, {k \in PaymentsOf(r) : Source(k) = a})

\* A child's work reservation is its whole budget while the child lives, and
\* nothing once it is decided, whatever becomes of its parent meanwhile.
ChildWorkProtected ==
  \A c \in Children :
    bal[ChildWork(c)] = IF state[c] \in Live THEN budget[c] ELSE 0

\* A root is under review, in dispute or done only when every child is decided.
ParentGate ==
  \A r \in Roots :
    state[r] \in {"SUBMITTED", "DISPUTED", "DONE"} =>
      \A c \in ChildrenOf(r) : state[c] \in Terminal

\* A finished root leaves nothing in available: it was all reserved for the
\* worker or for the requester, even what children return afterwards.
NoStrandedFunds ==
  \A r \in Roots : state[r] \in Terminal => bal[Available(r)] = 0

\* The subcontract limits hold at all times, not only when a child is created:
\* what the children hold and were paid never exceeds the caps, and the number
\* of children ever created never exceeds max_children.
PolicyLimits ==
  \A r \in Roots :
    /\ InUse(r) <= Policy.max_amount
    /\ InUse(r) <= RatioCap(r)
    /\ Cardinality(ChildrenOf(r)) <= Policy.max_children

\* The comment at service.py:2045: while a root is leased, what is available is
\* its deposit minus the usage of its children, so that create_child's last check
\* (budget <= available) never decides. A child's failure gives its part back.
AvailableIsUnused ==
  \A r \in Roots :
    state[r] = "LEASED" => bal[Available(r)] = deposit[r] - InUse(r)

\* One task is bought once: of the children of a root with one task key, at
\* most one is live or done.
TaskExclusive ==
  \A r \in Roots : \A c, e \in ChildrenOf(r) :
    c # e /\ task[c] = task[e] => {state[c], state[e]} \cap Failed # {}

\* The money follows the verdict. A dispute is open only while its job is
\* DISPUTED, and only an approval ends in DONE. A payout is reserved only for an approved job
\* that is done, for the worker who did it and, for a child, of its budget; a
\* child that failed is never paid, and a return is never reserved for one that
\* is done.
MoneyFollowsVerdict ==
  \A j \in Jobs :
    /\ (state[j] = "DONE") <=> (acceptance[j] = "APPROVED")
    /\ (state[j] = "DISPUTED") <=> (dispute[j].status = "OPEN")
    /\ Reserved(PayoutKey(j)) =>
         state[j] = "DONE" /\ pay[PayoutKey(j)].payee = lease[j].worker
    /\ j \in Children =>
         /\ state[j] = "DONE" =>
              Reserved(PayoutKey(j)) /\ pay[PayoutKey(j)].amount = budget[j]
         /\ Reserved(ReturnKey(j)) =>
              /\ state[j] \in Failed /\ state[parent[j]] \in Failed
              /\ pay[ReturnKey(j)].payee = requester[parent[j]]
    /\ j \in Roots /\ Reserved(TerminalKey(j)) =>
         state[j] \in Failed /\ pay[TerminalKey(j)].payee = requester[j]

\* A job is LEASED exactly while its lease is open; the lease never outlives
\* the job's deadline and its worker is never the job's own requester.
LeaseMatchesState ==
  \A j \in Jobs :
    /\ (state[j] = "LEASED") <=> HasActiveLease(j)
    /\ HasActiveLease(j) => lease[j].expires <= deadline[j]
    /\ lease[j].generation > 0 => lease[j].worker # requester[j]

-----------------------------------------------------------------------------
\* A decision is final: no command, late answer or tick changes the state of a
\* terminal job, its acceptance or the worker it was done by.
DecisionIsFinal ==
  [][\A j \in Jobs :
       state[j] \in Terminal =>
         /\ state'[j] = state[j]
         /\ acceptance'[j] = acceptance[j]
         /\ lease'[j] = lease[j]]_vars

\* A submitted job is beyond the reach of time: it ends by a review decision,
\* never by expiry, and a worker's stored PASS is only lost to an upheld dispute.
SubmittedWorkProtected ==
  [][\A j \in Jobs :
       /\ state[j] = "SUBMITTED" => state'[j] \in {"SUBMITTED", "DISPUTED", "DONE"}
       /\ state[j] = "DISPUTED" =>
            \/ state'[j] \in {"DISPUTED", "DONE"}
            \/ state'[j] = "FAILED" /\ acceptance'[j] = "REJECTED"]_vars

\* The end of a parent takes nothing from its children: the step that ends a
\* root changes no child's state and no child's account.
ParentEndSparesChildren ==
  [][\A r \in Roots : state[r] \notin Terminal /\ state'[r] \in Terminal =>
       \A c \in Children :
         /\ state'[c] = state[c]
         /\ bal'[ChildWork(c)] = bal[ChildWork(c)]
         /\ bal'[ChildPayout(c)] = bal[ChildPayout(c)]]_vars

\* A reservation is never rewritten and a receipt never taken back; a payment
\* has succeeded only with a receipt of its amount.
PaymentsAreFinal ==
  [][\A k \in PayKeys :
       /\ Reserved(k) => /\ pay'[k].amount = pay[k].amount
                         /\ pay'[k].payee = pay[k].payee
       /\ pay[k].status = "SUCCEEDED" => pay'[k].status = "SUCCEEDED"
       /\ receipt[k] > 0 => receipt'[k] = receipt[k]
       /\ pay'[k].status = "SUCCEEDED" => receipt'[k] = pay'[k].amount]_vars

-----------------------------------------------------------------------------
\* The core implements PayOnce: what is paid is what has a receipt.
Once == INSTANCE PayOnce WITH
  Keys <- PayKeys,
  Payees <- Participants,
  reservation <- [k \in PayKeys |-> [amount |-> pay[k].amount, payee |-> pay[k].payee]],
  paid <- {k \in PayKeys : receipt[k] > 0},
  acknowledged <- {k \in PayKeys : pay[k].status = "SUCCEEDED"},
  wallet <- [p \in Participants |-> bal[Wallet(p)]]

\* Whatever the jobs go through, money reaches a wallet only as the one payment
\* of a reservation, of its amount to its payee, and a step reserves at most one.
PaymentsOnce == Once!Spec

=============================================================================
