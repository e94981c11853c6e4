----------------------------- MODULE Settlement -----------------------------
(***************************************************************************)
(* The settlement of reserved payments (ojp/service.py: process_payments,  *)
(* refund, retry_payment, process_single_payment; ojp/ledger.py: MockEscrow *)
(* and the payment_operations rows).                                       *)
(*                                                                         *)
(* Several processes settle at once: schedulers, which list the payments   *)
(* that are due and take them one after the other, and users, whose        *)
(* commands name theirs. A payment takes two transactions. T1 transfers    *)
(* and leaves a receipt, or records the failure; T2 marks the payment      *)
(* SUCCEEDED. A process may die, or find the database busy, between them.  *)
(***************************************************************************)
EXTENDS Integers, Sequences, FiniteSets, Functions

CONSTANTS
  Payments,     \* operation ids of the payments
  Refunds,      \* those of kind refund
  Sources,      \* locked accounts; refunds may share one
  Payees,       \* participants
  Seeded,       \* the participants who have a wallet
  Amount, Payee, SourceOf, \* fixed when a payment is reserved
  Schedulers,   \* processes that call process_payments
  Users,        \* processes that call refund and retry_payment
  None,         \* no payment, no receipt
  Backoff,      \* RETRY_BACKOFF_SECONDS
  BackoffMax,   \* RETRY_BACKOFF_MAX_SECONDS
  MaxTime,      \* the clock stops here
  MaxBack,      \* how often the real clock steps back
  MaxFaults,    \* how often the escrow fails of itself
  MaxBreaks,    \* how often a process dies or finds the database busy
  MaxCommands   \* how many commands the users give

Callers == Schedulers \cup Users

ASSUME PaymentsAssumption ==
  /\ Refunds \subseteq Payments
  /\ None \notin Payments
  /\ None \notin [amount : Nat, payee : Payees, source : Sources]
  /\ Seeded \subseteq Payees
  /\ Amount \in [Payments -> Nat \ {0}]
  /\ Payee \in [Payments -> Payees]
  /\ SourceOf \in [Payments -> Sources]

ASSUME BackoffAssumption ==
  /\ Backoff \in Seq(Nat \ {0})
  /\ Backoff # <<>>
  /\ BackoffMax \in Nat \ {0}

ASSUME BoundsAssumption ==
  {MaxTime, MaxBack, MaxFaults, MaxBreaks, MaxCommands} \subseteq Nat

VARIABLES
  now,          \* the clock
  locked,       \* balance of the locked accounts
  wallet,       \* balance of the wallets
  pay,          \* payment_operations
  receipt,      \* transfer_receipts
  caller,       \* what each process is doing
  backs, faults, breaks, commands \* how often each bounded event happened

tables  == <<locked, wallet, pay, receipt>>
bounds  == <<backs, faults, breaks, commands>>
vars    == <<now, tables, caller, bounds>>

-----------------------------------------------------------------------------
\* next_retry_at_us is NULL, here 0, except for a RETRYABLE payment.
NotReserved == [status |-> "NONE", attempts |-> 0, next |-> 0, error |-> "none"]
Open(k) == pay[k].status \in {"PENDING", "RETRYABLE"}
Reserved(k) == pay[k].status # "NONE"

ReceiptFor(k) == [amount |-> Amount[k], payee |-> Payee[k], source |-> SourceOf[k]]

\* A caller takes the payments of todo in an order of its own; doing is the
\* one between its two transactions.
Idle == [at |-> "idle", seen |-> 0, todo |-> {}, doing |-> None]
Paying(K) == [at |-> "paying", seen |-> 0, todo |-> K, doing |-> None]
DoneWith(c, k) == [caller EXCEPT ![c] = Paying(@.todo \ {k})]

TypeOK ==
  /\ now \in Nat
  /\ locked \in [Sources -> Nat]
  /\ wallet \in [Payees -> Nat]
  /\ pay \in [Payments -> [status : {"NONE", "PENDING", "RETRYABLE", "SUCCEEDED"},
                           attempts : Nat, next : Nat,
                           error : {"none", "failed", "inconsistent"}]]
  /\ receipt \in [Payments -> {None} \cup
                   [amount : Nat, payee : Payees, source : Sources]]
  /\ caller \in [Callers -> [at : {"idle", "listing", "paying", "marking"},
                             seen : Nat, todo : SUBSET Payments,
                             doing : Payments \cup {None}]]
  /\ {backs, faults, breaks, commands} \subseteq Nat

Init ==
  /\ now = 0
  /\ locked = [s \in Sources |-> 0]
  /\ wallet = [p \in Payees |-> 0]
  /\ pay = [k \in Payments |-> NotReserved]
  /\ receipt = [k \in Payments |-> None]
  /\ caller = [c \in Callers |-> Idle]
  /\ backs = 0 /\ faults = 0 /\ breaks = 0 /\ commands = 0

-----------------------------------------------------------------------------
(***************************************************************************)
(* Reserving, and who is asked to settle what.                             *)
(***************************************************************************)

\* The job's commands reserve: the amount is moved to a locked account and
\* create_payment_operation_in_tx inserts the row.
Reserve(k) ==
  /\ ~ Reserved(k)
  /\ pay' = [pay EXCEPT ![k].status = "PENDING"]
  /\ locked' = [locked EXCEPT ![SourceOf[k]] = @ + Amount[k]]
  /\ UNCHANGED <<now, wallet, receipt, caller, bounds>>

\* process_payments samples the clock ...
SampleClock(s) ==
  /\ caller[s].at = "idle"
  /\ caller' = [caller EXCEPT ![s].at = "listing", ![s].seen = now]
  /\ UNCHANGED <<now, tables, bounds>>

Due_IgnoreFault(k, time) == Open(k)

\* ... and reads list_due_payment_operations; both before any transaction.
Due(k, time) ==
  \/ pay[k].status = "PENDING"
  \/ pay[k].status = "RETRYABLE" /\ pay[k].next # 0 /\ pay[k].next <= time

ListDue(s) ==
  /\ caller[s].at = "listing"
  /\ caller' = [caller EXCEPT ![s] = Paying({k \in Payments : Due(k, caller[s].seen)})]
  /\ UNCHANGED <<now, tables, bounds>>

Command(u, K) ==
  /\ caller[u].at = "idle"
  /\ commands < MaxCommands
  /\ commands' = commands + 1
  /\ caller' = [caller EXCEPT ![u] = Paying(K)]
  /\ UNCHANGED <<now, tables, backs, faults, breaks>>

\* refund: all refund reservations of the root, at least one. A repeated
\* command processes the same ones again.
RefundCommand(u) ==
  \E K \in {{k \in Refunds : Reserved(k)}} : K # {} /\ Command(u, K)

\* retry_payment, of a payment that exists, whether or not it is due.
RetryCommand(u, k) == Reserved(k) /\ Command(u, {k})

-----------------------------------------------------------------------------
(***************************************************************************)
(* process_single_payment.                                                 *)
(***************************************************************************)

\* c begins, or after a busy database begins again, with payment k.
Takes(c, k) ==
  /\ caller[c].at = "paying"
  /\ k \in caller[c].todo
  /\ caller[c].doing \in {None, k}

Covered(k) == Payee[k] \in Seeded /\ locked[SourceOf[k]] >= Amount[k]

GoMark(c, k) == caller' = [caller EXCEPT ![c].at = "marking", ![c].doing = k]

Transfer_Fault(c, k) ==
  /\ Takes(c, k)
  /\ Open(k)
  /\ pay[k].status = "PENDING" \/ receipt[k] = None
  /\ Covered(k)
  /\ locked' = [locked EXCEPT ![SourceOf[k]] = @ - Amount[k]]
  /\ wallet' = [wallet EXCEPT ![Payee[k]] = @ + Amount[k]]
  /\ receipt' = [receipt EXCEPT ![k] = ReceiptFor(k)]
  /\ GoMark(c, k)
  /\ UNCHANGED <<now, pay, bounds>>

Transfer_BlindFault(c, k) ==
  /\ Takes(c, k)
  /\ Open(k)
  /\ Payee[k] \in Seeded
  /\ locked' = [locked EXCEPT ![SourceOf[k]] = @ - Amount[k]]
  /\ wallet' = [wallet EXCEPT ![Payee[k]] = @ + Amount[k]]
  /\ receipt' = [receipt EXCEPT ![k] = ReceiptFor(k)]
  /\ GoMark(c, k)
  /\ UNCHANGED <<now, pay, bounds>>

\* T1 of a payment without a receipt: MockEscrow.transfer.
Transfer(c, k) ==
  /\ Takes(c, k)
  /\ Open(k)
  /\ receipt[k] = None
  /\ Covered(k)
  /\ locked' = [locked EXCEPT ![SourceOf[k]] = @ - Amount[k]]
  /\ wallet' = [wallet EXCEPT ![Payee[k]] = @ + Amount[k]]
  /\ receipt' = [receipt EXCEPT ![k] = ReceiptFor(k)]
  /\ GoMark(c, k)
  /\ UNCHANGED <<now, pay, bounds>>

\* T1 of a payment that was transferred but not marked: transfer returns the
\* existing receipt.
FindReceipt(c, k) ==
  /\ Takes(c, k)
  /\ Open(k)
  /\ receipt[k] = ReceiptFor(k)
  /\ GoMark(c, k)
  /\ UNCHANGED <<now, tables, bounds>>

MinOf(x, y) == IF x < y THEN x ELSE y

\* compute_next_retry_at_us, after the n-th failure
Delay(n) == MinOf(Backoff[MinOf(n, Len(Backoff))], BackoffMax)

MarkRetryable_Fault(k) ==
  pay' = [pay EXCEPT ![k].status = "RETRYABLE",
                     ![k].attempts = @ + 1,
                     ![k].error = "failed"]

\* mark_payment_retryable_in_tx
MarkRetryable(k) ==
  pay' = [pay EXCEPT ![k] = [status |-> "RETRYABLE", attempts |-> @.attempts + 1,
                             next |-> now + Delay(@.attempts + 1), error |-> "failed"]]

\* T1 when transfer refuses: the failure is recorded in the same transaction.
TransferRefused(c, k) ==
  /\ Takes(c, k)
  /\ Open(k)
  /\ IF receipt[k] = None THEN ~ Covered(k) ELSE receipt[k] # ReceiptFor(k)
  /\ MarkRetryable(k)
  /\ caller' = DoneWith(c, k)
  /\ UNCHANGED <<now, locked, wallet, receipt, bounds>>

EscrowFails_Fault(c, k) ==
  /\ Takes(c, k)
  /\ Open(k)
  /\ faults < MaxFaults
  /\ now + BackoffMax <= MaxTime
  /\ faults' = faults + 1
  /\ GoMark(c, k)
  /\ UNCHANGED <<now, locked, wallet, receipt, pay, backs, breaks, commands>>

\* T1 when the escrow itself fails, before it has looked anything up. The
\* last failure leaves the clock enough time for the back-off.
EscrowFails(c, k) ==
  /\ Takes(c, k)
  /\ Open(k)
  /\ faults < MaxFaults
  /\ now + BackoffMax <= MaxTime
  /\ faults' = faults + 1
  /\ MarkRetryable(k)
  /\ caller' = DoneWith(c, k)
  /\ UNCHANGED <<now, locked, wallet, receipt, backs, breaks, commands>>

\* T1 of a payment that has succeeded: the receipt is compared with the
\* reservation (_check_receipt_matches_reservation); a difference is recorded
\* in last_error and reported.
AlreadySucceeded(c, k) ==
  /\ Takes(c, k)
  /\ pay[k].status = "SUCCEEDED"
  /\ pay' = [pay EXCEPT ![k].error = IF receipt[k] = ReceiptFor(k) THEN @
                                                                ELSE "inconsistent"]
  /\ caller' = DoneWith(c, k)
  /\ UNCHANGED <<now, locked, wallet, receipt, bounds>>

\* T2: mark_payment_succeeded_in_tx. Another process may have done it.
MarkSucceeded(c) ==
  \E k \in {caller[c].doing} :
    /\ caller[c].at = "marking"
    /\ pay' = IF pay[k].status = "SUCCEEDED" THEN pay
                ELSE [pay EXCEPT ![k].status = "SUCCEEDED", ![k].next = 0,
                                 ![k].error = "none"]
    /\ caller' = DoneWith(c, k)
    /\ UNCHANGED <<now, locked, wallet, receipt, bounds>>

\* The database is busy at T2: after a pause everything from T1 is repeated.
BusyAtMark(c) ==
  /\ caller[c].at = "marking"
  /\ breaks < MaxBreaks
  /\ breaks' = breaks + 1
  /\ caller' = [caller EXCEPT ![c].at = "paying"]
  /\ UNCHANGED <<now, tables, backs, faults, commands>>

\* A process dies, or raises DB_BUSY after its last repetition: what it had
\* listed is forgotten.
Stops(c) ==
  /\ caller[c].at # "idle"
  /\ breaks < MaxBreaks
  /\ breaks' = breaks + 1
  /\ caller' = [caller EXCEPT ![c] = Idle]
  /\ UNCHANGED <<now, tables, backs, faults, commands>>

Finish(c) ==
  /\ caller[c].at = "paying"
  /\ caller[c].todo = {}
  /\ caller' = [caller EXCEPT ![c] = Idle]
  /\ UNCHANGED <<now, tables, bounds>>

\* The clock: real time, which an operator or a time server may set back.
AdvanceTime ==
  /\ now < MaxTime
  /\ now' = now + 1
  /\ UNCHANGED <<tables, caller, bounds>>

ClockStepsBack ==
  /\ now > 0
  /\ backs < MaxBack
  /\ now' = now - 1
  /\ backs' = backs + 1
  /\ UNCHANGED <<tables, caller, faults, breaks, commands>>

-----------------------------------------------------------------------------
Settle(c) ==
  \/ \E k \in Payments : \/ Transfer(c, k) \/ FindReceipt(c, k)
                         \/ TransferRefused(c, k) \/ EscrowFails(c, k)
                         \/ AlreadySucceeded(c, k)
  \/ MarkSucceeded(c)
  \/ Finish(c)

TickStep(s) == SampleClock(s) \/ ListDue(s) \/ Settle(s)

UserStep(u) ==
  RefundCommand(u) \/ (\E k \in Payments : RetryCommand(u, k)) \/ Settle(u)

Environment ==
  \/ \E k \in Payments : Reserve(k)
  \/ \E c \in Callers : BusyAtMark(c) \/ Stops(c)
  \/ AdvanceTime
  \/ ClockStepsBack

Next ==
  \/ \E s \in Schedulers : TickStep(s)
  \/ \E u \in Users : UserStep(u)
  \/ Environment

Spec == Init /\ [][Next]_vars

\* watch repeats process_payments for ever, its steps are local or are
\* repeated while the database is busy; and time passes. The users owe nothing.
FairSpec ==
  /\ Spec
  /\ \A s \in Schedulers : WF_vars(TickStep(s))
  /\ WF_vars(AdvanceTime)

-----------------------------------------------------------------------------
(***************************************************************************)
(* Properties.                                                             *)
(***************************************************************************)

\* The settlement implements PayOnce: a payment is a row, it is paid when
\* there is a receipt, and acknowledged when it is marked SUCCEEDED.
Once == INSTANCE PayOnce WITH
  Keys <- Payments,
  reservation <- [k \in Payments |-> [amount |-> IF Reserved(k) THEN Amount[k] ELSE 0,
                                      payee |-> Payee[k]]],
  paid <- {k \in Payments : receipt[k] # None},
  acknowledged <- {k \in Payments : pay[k].status = "SUCCEEDED"}

\* Whatever settlers run at once, die or repeat themselves, every reserved
\* payment is handed over at most once, its amount to its payee, and reported as
\* succeeded only then (process_single_payment).
PaidOnce == Once!Spec

\* The reservations on an account that have not been transferred.
UnpaidFrom(s) == {k \in Payments : SourceOf[k] = s /\ Reserved(k) /\ receipt[k] = None}

\* A locked account holds exactly the unpaid reservations on it, also when
\* several refunds share it, so that a repeated transfer is never refused for
\* want of money and no refund is paid with the money of another.
ReservationsCovered ==
  \A s \in Sources : locked[s] = SumFunctionOnSet(Amount, UnpaidFrom(s))

\* No caller ever finds a payment whose receipt contradicts it: the integrity
\* error of process_single_payment is never reported.
NoInconsistency == \A k \in Payments : pay[k].error # "inconsistent"

\* process_payments does not try a payment before its next_retry_at_us, as long
\* as no clock is set back and no user asks (list_due_payment_operations).
BackoffRespected ==
  [][\A s \in Schedulers, k \in Payments :
       backs + commands = 0 /\ caller'[s] # caller[s] /\ pay'[k].attempts > pay[k].attempts
         => pay[k].next <= now]_vars

\* Every payment with a wallet to go to succeeds, although the escrow fails,
\* processes die between the two transactions and the clock steps back.
EventuallyPaid ==
  \A k \in Payments :
    (Reserved(k) /\ Payee[k] \in Seeded) ~> (pay[k].status = "SUCCEEDED")

=============================================================================
