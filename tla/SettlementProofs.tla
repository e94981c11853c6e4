-------------------------- MODULE SettlementProofs --------------------------
(***************************************************************************)
(* Proofs about Settlement, for any payments, settlers and users, any      *)
(* back-off, and any number of failures, crashes and clock changes.        *)
(***************************************************************************)
EXTENDS Settlement, SumTheorems

\* What a receipt is worth: it exists only for a reserved payment and repeats
\* its terms; a process between its two transactions has one, and so has a
\* payment that succeeded.
ReceiptsHold ==
  /\ \A k \in Payments :
       /\ receipt[k] \in {None, ReceiptFor(k)}
       /\ receipt[k] # None => Reserved(k)
       /\ pay[k].status = "SUCCEEDED" => receipt[k] # None
  /\ \A c \in Callers : caller[c].at = "marking" =>
       caller[c].doing \in Payments /\ receipt[caller[c].doing] # None

SettleInv == TypeOK /\ ReceiptsHold /\ NoInconsistency

LEMMA InitSettleInv == Init => SettleInv
<1> SUFFICES ASSUME Init PROVE SettleInv OBVIOUS
<1> USE DEF Init
<1>1. TypeOK
  BY DEF TypeOK, NotReserved, Idle
<1>2. ReceiptsHold
  BY DEF ReceiptsHold, NotReserved, Idle, Reserved
<1>3. NoInconsistency
  BY DEF NoInconsistency, NotReserved
<1> QED BY <1>1, <1>2, <1>3 DEF SettleInv

\* The back-off of every attempt is one of the configured delays.
LEMMA DelayIsNat == \A n \in Nat \ {0} : Delay(n) \in Nat
<1> SUFFICES ASSUME NEW n \in Nat \ {0} PROVE Delay(n) \in Nat OBVIOUS
<1>1. Len(Backoff) \in Nat \ {0}
  BY BackoffAssumption
<1>2. MinOf(n, Len(Backoff)) \in 1..Len(Backoff)
  BY <1>1 DEF MinOf
<1>3. Backoff[MinOf(n, Len(Backoff))] \in Nat
  BY <1>2, BackoffAssumption
<1> QED BY <1>3, BackoffAssumption DEF Delay, MinOf

LEMMA ReceiptForType ==
  \A k \in Payments :
    /\ ReceiptFor(k) \in [amount : Nat, payee : Payees, source : Sources]
    /\ ReceiptFor(k) # None
BY PaymentsAssumption DEF ReceiptFor

LEMMA CallerSteps ==
  ASSUME TypeOK, NEW c \in Callers, NEW k \in Payments
  PROVE  /\ DoneWith(c, k) \in [Callers -> [at : {"idle", "listing", "paying", "marking"},
                             seen : Nat, todo : SUBSET Payments,
                             doing : Payments \cup {None}]]
         /\ DoneWith(c, k)[c].at = "paying"
         /\ \A d \in Callers \ {c} : DoneWith(c, k)[d] = caller[d]
BY DEF TypeOK, DoneWith, Paying

\* Recording a failure keeps the payment open, in form, and consistent.
LEMMA MarkRetryableEffect ==
  ASSUME TypeOK, NEW k \in Payments, MarkRetryable(k)
  PROVE  /\ pay' \in [Payments -> [status : {"NONE", "PENDING", "RETRYABLE", "SUCCEEDED"},
                                   attempts : Nat, next : Nat,
                                   error : {"none", "failed", "inconsistent"}]]
         /\ pay'[k].status = "RETRYABLE" /\ pay'[k].error = "failed"
         /\ \A q \in Payments \ {k} : pay'[q] = pay[q]
<1>1. pay[k].attempts + 1 \in Nat \ {0}
  BY DEF TypeOK
<1>2. now + Delay(pay[k].attempts + 1) \in Nat
  BY <1>1, DelayIsNat DEF TypeOK
<1> QED BY <1>1, <1>2 DEF TypeOK, MarkRetryable

-----------------------------------------------------------------------------
(***************************************************************************)
(* Every step keeps the invariant.                                         *)
(***************************************************************************)
LEMMA ReserveKeeps ==
  ASSUME SettleInv, NEW k \in Payments, Reserve(k) PROVE SettleInv'
<1> USE DEF Reserve
<1>1. SourceOf[k] \in Sources /\ Amount[k] \in Nat
  BY PaymentsAssumption
<1>2. /\ pay' \in [Payments -> [status : {"NONE", "PENDING", "RETRYABLE", "SUCCEEDED"},
                                attempts : Nat, next : Nat,
                                error : {"none", "failed", "inconsistent"}]]
      /\ pay'[k].status = "PENDING" /\ pay'[k].error = pay[k].error
      /\ \A q \in Payments \ {k} : pay'[q] = pay[q]
  <2>1. pay \in [Payments -> [status : {"NONE", "PENDING", "RETRYABLE", "SUCCEEDED"},
                              attempts : Nat, next : Nat,
                              error : {"none", "failed", "inconsistent"}]]
    BY DEF SettleInv, TypeOK
  <2>2. pay' = [pay EXCEPT ![k].status = "PENDING"]
    OBVIOUS
  <2> QED BY <2>1, <2>2
<1>3. locked' \in [Sources -> Nat]
  BY <1>1 DEF SettleInv, TypeOK
<1>4. TypeOK'
  BY <1>2, <1>3 DEF SettleInv, TypeOK, bounds
<1>5. ReceiptsHold'
  BY <1>2 DEF SettleInv, ReceiptsHold, Reserved, ReceiptFor
<1>6. NoInconsistency'
  BY <1>2 DEF SettleInv, NoInconsistency
<1> QED BY <1>4, <1>5, <1>6 DEF SettleInv

\* Steps that only change what a process is about to do.
LEMMA CallerOnlyKeeps ==
  ASSUME SettleInv, UNCHANGED tables, now' \in Nat,
         {backs', faults', breaks', commands'} \subseteq Nat,
         NEW c \in Callers, NEW v,
         caller' = [caller EXCEPT ![c] = v],
         v \in [at : {"idle", "listing", "paying", "marking"}, seen : Nat,
                todo : SUBSET Payments, doing : Payments \cup {None}],
         v.at = "marking" => v.doing \in Payments /\ receipt[v.doing] # None
  PROVE  SettleInv'
<1>1. TypeOK'
  BY DEF SettleInv, TypeOK, tables
<1>2. ReceiptsHold'
  BY DEF SettleInv, ReceiptsHold, TypeOK, tables, Reserved, ReceiptFor
<1>3. NoInconsistency'
  BY DEF SettleInv, NoInconsistency, tables
<1> QED BY <1>1, <1>2, <1>3 DEF SettleInv

LEMMA SampleClockKeeps ==
  ASSUME SettleInv, NEW s \in Callers, SampleClock(s) PROVE SettleInv'
<1> DEFINE v == [caller[s] EXCEPT !.at = "listing", !.seen = now]
<1>1. /\ v \in [at : {"idle", "listing", "paying", "marking"}, seen : Nat,
                todo : SUBSET Payments, doing : Payments \cup {None}]
      /\ v.at = "listing"
  BY DEF SettleInv, TypeOK
<1>2. caller' = [caller EXCEPT ![s] = v]
  BY DEF SampleClock, SettleInv, TypeOK
<1>3. UNCHANGED <<tables, now, bounds>>
  BY DEF SampleClock
<1>4. now' \in Nat /\ {backs', faults', breaks', commands'} \subseteq Nat
  BY <1>3 DEF SettleInv, TypeOK, bounds
<1> HIDE DEF v
<1> QED BY <1>1, <1>2, <1>3, <1>4, CallerOnlyKeeps

LEMMA PayingKeeps ==
  ASSUME SettleInv, NEW c \in Callers, NEW K \in SUBSET Payments,
         caller' = [caller EXCEPT ![c] = Paying(K)], UNCHANGED tables,
         now' \in Nat, {backs', faults', breaks', commands'} \subseteq Nat
  PROVE  SettleInv'
<1>1. /\ Paying(K) \in [at : {"idle", "listing", "paying", "marking"}, seen : Nat,
                todo : SUBSET Payments, doing : Payments \cup {None}]
      /\ Paying(K).at = "paying"
  BY DEF Paying
<1> QED BY <1>1, CallerOnlyKeeps

LEMMA ListDueKeeps ==
  ASSUME SettleInv, NEW s \in Callers, ListDue(s) PROVE SettleInv'
<1>1. UNCHANGED <<tables, now, bounds>>
  BY DEF ListDue
<1>2. now' \in Nat /\ {backs', faults', breaks', commands'} \subseteq Nat
  BY <1>1 DEF SettleInv, TypeOK, bounds
<1> DEFINE K == {k \in Payments : Due(k, caller[s].seen)}
<1>3. caller' = [caller EXCEPT ![s] = Paying(K)] /\ K \in SUBSET Payments
  BY DEF ListDue
<1> HIDE DEF K
<1> QED BY <1>1, <1>2, <1>3, PayingKeeps

LEMMA CommandKeeps ==
  ASSUME SettleInv, NEW u \in Callers, NEW K \in SUBSET Payments, Command(u, K)
  PROVE SettleInv'
<1>1. UNCHANGED tables
  BY DEF Command
<1>2. now' \in Nat /\ {backs', faults', breaks', commands'} \subseteq Nat
  BY DEF Command, SettleInv, TypeOK
<1>3. caller' = [caller EXCEPT ![u] = Paying(K)]
  BY DEF Command
<1> QED BY <1>1, <1>2, <1>3, PayingKeeps

\* A process with a receipt in hand goes on to T2.
LEMMA GoMarkEffect ==
  ASSUME TypeOK, NEW c \in Callers, NEW k \in Payments, GoMark(c, k)
  PROVE  /\ caller' \in [Callers -> [at : {"idle", "listing", "paying", "marking"},
                             seen : Nat, todo : SUBSET Payments,
                             doing : Payments \cup {None}]]
         /\ caller'[c].doing = k
         /\ \A d \in Callers \ {c} : caller'[d] = caller[d]
<1> DEFINE R == [at : {"idle", "listing", "paying", "marking"}, seen : Nat,
                 todo : SUBSET Payments, doing : Payments \cup {None}]
           to == [caller[c] EXCEPT !.at = "marking", !.doing = k]
<1>1. caller \in [Callers -> R] /\ caller[c] \in R
  BY DEF TypeOK
<1>2. to \in R /\ to.doing = k
  BY <1>1
<1>3. caller' = [caller EXCEPT ![c] = to]
  BY DEF GoMark
<1> HIDE DEF R, to
<1>4. caller' \in [Callers -> R] /\ caller'[c] = to
  BY <1>1, <1>2, <1>3
<1>5. \A d \in Callers \ {c} : caller'[d] = caller[d]
  BY <1>1, <1>3
<1> QED BY <1>2, <1>4, <1>5 DEF R

LEMMA TransferKeeps ==
  ASSUME SettleInv, NEW c \in Callers, NEW k \in Payments, Transfer(c, k)
  PROVE SettleInv'
<1>1. /\ SourceOf[k] \in Sources /\ Amount[k] \in Nat /\ Payee[k] \in Payees
  BY PaymentsAssumption
<1>2. locked' \in [Sources -> Nat]
  <2>1. locked[SourceOf[k]] >= Amount[k] /\ locked \in [Sources -> Nat]
    BY DEF Transfer, Covered, SettleInv, TypeOK
  <2>2. locked[SourceOf[k]] - Amount[k] \in Nat
    BY <1>1, <2>1
  <2> QED BY <2>1, <2>2 DEF Transfer
<1>3. wallet' \in [Payees -> Nat]
  <2>1. wallet \in [Payees -> Nat]
    BY DEF SettleInv, TypeOK
  <2>2. wallet[Payee[k]] + Amount[k] \in Nat
    BY <1>1, <2>1
  <2> QED BY <2>1, <2>2 DEF Transfer
<1>4. /\ receipt' \in [Payments -> {None} \cup
                        [amount : Nat, payee : Payees, source : Sources]]
      /\ receipt'[k] = ReceiptFor(k)
      /\ \A q \in Payments \ {k} : receipt'[q] = receipt[q]
  BY ReceiptForType DEF Transfer, SettleInv, TypeOK
<1>5. /\ caller' \in [Callers -> [at : {"idle", "listing", "paying", "marking"},
                             seen : Nat, todo : SUBSET Payments,
                             doing : Payments \cup {None}]]
      /\ caller'[c].doing = k
      /\ \A d \in Callers \ {c} : caller'[d] = caller[d]
  BY GoMarkEffect DEF Transfer, SettleInv
<1>6. UNCHANGED <<now, pay, bounds>>
  BY DEF Transfer
<1>7. Reserved(k)
  BY DEF Transfer, Open, Reserved
<1>8. TypeOK'
  BY <1>2, <1>3, <1>4, <1>5, <1>6 DEF SettleInv, TypeOK, bounds
<1>9. ReceiptsHold'
  BY <1>4, <1>5, <1>6, <1>7, ReceiptForType DEF SettleInv, ReceiptsHold, Reserved, ReceiptFor
<1>10. NoInconsistency'
  BY <1>6 DEF SettleInv, NoInconsistency
<1> QED BY <1>8, <1>9, <1>10 DEF SettleInv

LEMMA FindReceiptKeeps ==
  ASSUME SettleInv, NEW c \in Callers, NEW k \in Payments, FindReceipt(c, k)
  PROVE SettleInv'
<1>1. /\ caller' \in [Callers -> [at : {"idle", "listing", "paying", "marking"},
                             seen : Nat, todo : SUBSET Payments,
                             doing : Payments \cup {None}]]
      /\ caller'[c].doing = k
      /\ \A d \in Callers \ {c} : caller'[d] = caller[d]
  BY GoMarkEffect DEF FindReceipt, SettleInv
<1>2. UNCHANGED <<now, tables, bounds>> /\ receipt[k] # None
  BY ReceiptForType DEF FindReceipt
<1>3. TypeOK'
  BY <1>1, <1>2 DEF SettleInv, TypeOK, tables, bounds
<1>4. ReceiptsHold'
  BY <1>1, <1>2 DEF SettleInv, ReceiptsHold, Reserved, ReceiptFor, tables
<1>5. NoInconsistency'
  BY <1>2 DEF SettleInv, NoInconsistency, tables
<1> QED BY <1>3, <1>4, <1>5 DEF SettleInv

\* Steps that change one row of payments, which was open or keeps its status,
\* and finish with it.
LEMMA RecordKeeps ==
  ASSUME SettleInv, NEW c \in Callers, NEW k \in Payments,
         pay' \in [Payments -> [status : {"NONE", "PENDING", "RETRYABLE", "SUCCEEDED"},
                                attempts : Nat, next : Nat,
                                error : {"none", "failed", "inconsistent"}]],
         \A q \in Payments \ {k} : pay'[q] = pay[q],
         pay'[k].status # "NONE",
         pay'[k].status = "SUCCEEDED" => receipt[k] # None,
         pay'[k].error # "inconsistent",
         caller' = DoneWith(c, k), UNCHANGED <<locked, wallet, receipt>>,
         now' \in Nat, {backs', faults', breaks', commands'} \subseteq Nat
  PROVE  SettleInv'
<1>1. /\ caller' \in [Callers -> [at : {"idle", "listing", "paying", "marking"},
                             seen : Nat, todo : SUBSET Payments,
                             doing : Payments \cup {None}]]
      /\ caller'[c].at = "paying"
      /\ \A d \in Callers \ {c} : caller'[d] = caller[d]
  BY CallerSteps DEF SettleInv
<1>2. TypeOK'
  BY <1>1 DEF SettleInv, TypeOK
<1>3. ReceiptsHold'
  BY <1>1 DEF SettleInv, ReceiptsHold, Reserved, ReceiptFor
<1>4. NoInconsistency'
  BY DEF SettleInv, NoInconsistency
<1> QED BY <1>2, <1>3, <1>4 DEF SettleInv

LEMMA TransferRefusedKeeps ==
  ASSUME SettleInv, NEW c \in Callers, NEW k \in Payments, TransferRefused(c, k)
  PROVE SettleInv'
<1>1. UNCHANGED <<now, locked, wallet, receipt, bounds>> /\ caller' = DoneWith(c, k)
  BY DEF TransferRefused
<1>2. now' \in Nat /\ {backs', faults', breaks', commands'} \subseteq Nat
  BY <1>1 DEF SettleInv, TypeOK, bounds
<1> QED BY <1>1, <1>2, MarkRetryableEffect, RecordKeeps DEF TransferRefused, SettleInv

LEMMA EscrowFailsKeeps ==
  ASSUME SettleInv, NEW c \in Callers, NEW k \in Payments, EscrowFails(c, k)
  PROVE SettleInv'
<1>1. UNCHANGED <<locked, wallet, receipt>> /\ caller' = DoneWith(c, k)
  BY DEF EscrowFails
<1>2. now' \in Nat /\ {backs', faults', breaks', commands'} \subseteq Nat
  BY DEF EscrowFails, SettleInv, TypeOK
<1> QED BY <1>1, <1>2, MarkRetryableEffect, RecordKeeps DEF EscrowFails, SettleInv

LEMMA AlreadySucceededKeeps ==
  ASSUME SettleInv, NEW c \in Callers, NEW k \in Payments, AlreadySucceeded(c, k)
  PROVE SettleInv' /\ pay' = pay
<1>1. receipt[k] = ReceiptFor(k) /\ receipt[k] # None
  BY DEF AlreadySucceeded, SettleInv, ReceiptsHold
<1>2. pay' = pay
  BY <1>1 DEF AlreadySucceeded, SettleInv, TypeOK
<1>3. UNCHANGED <<now, locked, wallet, receipt, bounds>> /\ caller' = DoneWith(c, k)
  BY DEF AlreadySucceeded
<1>4. now' \in Nat /\ {backs', faults', breaks', commands'} \subseteq Nat
  BY <1>3 DEF SettleInv, TypeOK, bounds
<1>5. pay[k].status # "NONE" /\ pay[k].error # "inconsistent"
  BY DEF AlreadySucceeded, SettleInv, NoInconsistency
<1>6. pay \in [Payments -> [status : {"NONE", "PENDING", "RETRYABLE", "SUCCEEDED"},
                            attempts : Nat, next : Nat,
                            error : {"none", "failed", "inconsistent"}]]
  BY DEF SettleInv, TypeOK
<1> QED BY <1>1, <1>2, <1>3, <1>4, <1>5, <1>6, RecordKeeps

\* T2, of a payment whose receipt the process holds.
LEMMA MarkSucceededEffect ==
  ASSUME SettleInv, NEW c \in Callers, MarkSucceeded(c)
  PROVE  \E k \in Payments :
           /\ receipt[k] # None
           /\ pay'[k].status = "SUCCEEDED"
           /\ pay'[k].error # "inconsistent"
           /\ pay' \in [Payments -> [status : {"NONE", "PENDING", "RETRYABLE", "SUCCEEDED"},
                                attempts : Nat, next : Nat,
                                error : {"none", "failed", "inconsistent"}]]
           /\ \A q \in Payments \ {k} : pay'[q] = pay[q]
           /\ caller' = DoneWith(c, k)
<1> DEFINE k == caller[c].doing
<1>1. k \in Payments /\ receipt[k] # None
  BY DEF MarkSucceeded, SettleInv, ReceiptsHold
<1>2. caller' = DoneWith(c, k)
  BY DEF MarkSucceeded
<1>3. CASE pay[k].status = "SUCCEEDED"
  <2>1. pay' = pay
    BY <1>3 DEF MarkSucceeded
  <2> QED BY <1>1, <1>2, <1>3, <2>1 DEF SettleInv, TypeOK, NoInconsistency
<1>4. CASE pay[k].status # "SUCCEEDED"
  <2>1. pay' = [pay EXCEPT ![k].status = "SUCCEEDED", ![k].next = 0, ![k].error = "none"]
    BY <1>4 DEF MarkSucceeded
  <2>2. /\ pay' \in [Payments -> [status : {"NONE", "PENDING", "RETRYABLE", "SUCCEEDED"},
                                  attempts : Nat, next : Nat,
                                  error : {"none", "failed", "inconsistent"}]]
        /\ pay'[k].status = "SUCCEEDED" /\ pay'[k].error = "none"
        /\ \A q \in Payments \ {k} : pay'[q] = pay[q]
    BY <1>1, <2>1 DEF SettleInv, TypeOK
  <2> QED BY <1>1, <1>2, <2>2
<1> QED BY <1>3, <1>4

LEMMA MarkSucceededKeeps ==
  ASSUME SettleInv, NEW c \in Callers, MarkSucceeded(c) PROVE SettleInv'
<1>1. UNCHANGED <<now, locked, wallet, receipt, bounds>>
  BY DEF MarkSucceeded
<1>2. now' \in Nat /\ {backs', faults', breaks', commands'} \subseteq Nat
  BY <1>1 DEF SettleInv, TypeOK, bounds
<1> QED BY <1>1, <1>2, MarkSucceededEffect, RecordKeeps

LEMMA FinishKeeps ==
  ASSUME SettleInv, NEW c \in Callers, UNCHANGED tables,
         caller' = [caller EXCEPT ![c] = Idle], now' \in Nat,
         {backs', faults', breaks', commands'} \subseteq Nat
  PROVE  SettleInv'
<1>1. /\ Idle \in [at : {"idle", "listing", "paying", "marking"}, seen : Nat,
                todo : SUBSET Payments, doing : Payments \cup {None}]
      /\ Idle.at = "idle"
  BY DEF Idle
<1> QED BY <1>1, CallerOnlyKeeps

LEMMA BusyAtMarkKeeps ==
  ASSUME SettleInv, NEW c \in Callers, BusyAtMark(c) PROVE SettleInv'
<1> DEFINE v == [caller[c] EXCEPT !.at = "paying"]
<1>1. /\ v \in [at : {"idle", "listing", "paying", "marking"}, seen : Nat,
                todo : SUBSET Payments, doing : Payments \cup {None}]
      /\ v.at = "paying"
  BY DEF SettleInv, TypeOK
<1>2. caller' = [caller EXCEPT ![c] = v]
  BY DEF BusyAtMark, SettleInv, TypeOK
<1>3. UNCHANGED tables
  BY DEF BusyAtMark
<1>4. now' \in Nat /\ {backs', faults', breaks', commands'} \subseteq Nat
  BY DEF BusyAtMark, SettleInv, TypeOK
<1> HIDE DEF v
<1> QED BY <1>1, <1>2, <1>3, <1>4, CallerOnlyKeeps

LEMMA ClockKeeps ==
  ASSUME SettleInv, AdvanceTime \/ ClockStepsBack PROVE SettleInv'
<1>1. UNCHANGED <<tables, caller>>
  BY DEF AdvanceTime, ClockStepsBack
<1>2. now' \in Nat /\ {backs', faults', breaks', commands'} \subseteq Nat
  BY DEF AdvanceTime, ClockStepsBack, SettleInv, TypeOK, bounds
<1>3. TypeOK'
  BY <1>1, <1>2 DEF SettleInv, TypeOK, tables
<1>4. ReceiptsHold'
  BY <1>1 DEF SettleInv, ReceiptsHold, tables, Reserved, ReceiptFor
<1>5. NoInconsistency'
  BY <1>1 DEF SettleInv, NoInconsistency, tables
<1> QED BY <1>3, <1>4, <1>5 DEF SettleInv

LEMMA SettleKeeps ==
  ASSUME SettleInv, NEW c \in Callers, Settle(c) PROVE SettleInv'
<1>1. CASE \E k \in Payments : Transfer(c, k)
  BY <1>1, TransferKeeps
<1>2. CASE \E k \in Payments : FindReceipt(c, k)
  BY <1>2, FindReceiptKeeps
<1>3. CASE \E k \in Payments : TransferRefused(c, k)
  BY <1>3, TransferRefusedKeeps
<1>4. CASE \E k \in Payments : EscrowFails(c, k)
  BY <1>4, EscrowFailsKeeps
<1>5. CASE \E k \in Payments : AlreadySucceeded(c, k)
  BY <1>5, AlreadySucceededKeeps
<1>6. CASE MarkSucceeded(c)
  BY <1>6, MarkSucceededKeeps
<1>7. CASE Finish(c)
  <2>1. /\ UNCHANGED <<now, tables, bounds>>
        /\ caller' = [caller EXCEPT ![c] = Idle]
    BY <1>7 DEF Finish
  <2>2. now' \in Nat /\ {backs', faults', breaks', commands'} \subseteq Nat
    BY <2>1 DEF SettleInv, TypeOK, bounds
  <2> QED BY <2>1, <2>2, FinishKeeps
<1> QED BY <1>1, <1>2, <1>3, <1>4, <1>5, <1>6, <1>7 DEF Settle

LEMMA NextKeepsSettleInv == SettleInv /\ [Next]_vars => SettleInv'
<1> SUFFICES ASSUME SettleInv, [Next]_vars PROVE SettleInv' OBVIOUS
<1>1. CASE \E s \in Schedulers : TickStep(s)
  BY <1>1, SampleClockKeeps, ListDueKeeps, SettleKeeps DEF TickStep, Callers
<1>2. CASE \E u \in Users : UserStep(u)
  <2> PICK u \in Users : UserStep(u)
    BY <1>2
  <2>1. u \in Callers
    BY DEF Callers
  <2>2. CASE RefundCommand(u)
    <3>1. {k \in Refunds : Reserved(k)} \in SUBSET Payments
      BY PaymentsAssumption
    <3> QED BY <2>1, <2>2, <3>1, CommandKeeps DEF RefundCommand
  <2>3. CASE \E k \in Payments : RetryCommand(u, k)
    BY <2>1, <2>3, CommandKeeps DEF RetryCommand
  <2> QED BY <2>1, <2>2, <2>3, SettleKeeps DEF UserStep
<1>3. CASE \E k \in Payments : Reserve(k)
  BY <1>3, ReserveKeeps
<1>4. CASE \E c \in Callers : BusyAtMark(c)
  BY <1>4, BusyAtMarkKeeps
<1>5. CASE \E c \in Callers : Stops(c)
  <2> PICK c \in Callers : Stops(c)
    BY <1>5
  <2>1. UNCHANGED tables /\ caller' = [caller EXCEPT ![c] = Idle]
    BY DEF Stops
  <2>2. now' \in Nat /\ {backs', faults', breaks', commands'} \subseteq Nat
    BY DEF Stops, SettleInv, TypeOK
  <2> QED BY <2>1, <2>2, FinishKeeps
<1>6. CASE AdvanceTime \/ ClockStepsBack
  BY <1>6, ClockKeeps
<1>7. CASE UNCHANGED vars
  BY <1>7 DEF vars, tables, bounds, SettleInv, TypeOK, ReceiptsHold, NoInconsistency,
              Reserved, ReceiptFor
<1> QED BY <1>1, <1>2, <1>3, <1>4, <1>5, <1>6, <1>7 DEF Next, Environment

\* The tables of the settlement keep their types: no locked account or wallet is
\* ever overdrawn (MockEscrow.transfer).
THEOREM SettleTypeCorrect == Spec => []TypeOK
<1>1. SettleInv => TypeOK
  BY DEF SettleInv
<1> QED BY <1>1, InitSettleInv, NextKeepsSettleInv, PTL DEF Spec

\* The integrity error of process_single_payment is never reported.
THEOREM NeverInconsistent == Spec => []NoInconsistency
<1>1. SettleInv => NoInconsistency
  BY DEF SettleInv
<1> QED BY <1>1, InitSettleInv, NextKeepsSettleInv, PTL DEF Spec

-----------------------------------------------------------------------------
(***************************************************************************)
(* A locked account covers its unpaid reservations.                        *)
(***************************************************************************)

\* Only finitely many payments are reserved at a time, however many there are.
CoverInv ==
  /\ SettleInv
  /\ ReservationsCovered
  /\ \A s \in Sources : IsFiniteSet(UnpaidFrom(s))

LEMMA ReserveCovers ==
  ASSUME CoverInv, NEW k \in Payments, Reserve(k), NEW s \in Sources
  PROVE  /\ locked'[s] = SumFunctionOnSet(Amount, UnpaidFrom(s)')
         /\ IsFiniteSet(UnpaidFrom(s)')
<1>1. /\ TypeOK /\ ReceiptsHold /\ IsFiniteSet(UnpaidFrom(s))
      /\ locked[s] = SumFunctionOnSet(Amount, UnpaidFrom(s))
  BY DEF CoverInv, SettleInv, ReservationsCovered
<1>2. /\ \A q \in Payments : Amount[q] \in Int /\ SourceOf[q] \in Sources
      /\ Amount[k] \in Nat
  BY PaymentsAssumption
<1>3. /\ receipt[k] = None /\ receipt' = receipt /\ ~ Reserved(k)
      /\ pay'[k].status = "PENDING"
      /\ \A q \in Payments \ {k} : pay'[q] = pay[q]
  BY <1>1 DEF Reserve, ReceiptsHold, TypeOK
<1>4. locked' = [locked EXCEPT ![SourceOf[k]] = @ + Amount[k]]
  BY DEF Reserve
<1>5. CASE SourceOf[k] = s
  <2>1. UnpaidFrom(s)' = UnpaidFrom(s) \cup {k} /\ k \notin UnpaidFrom(s)
    BY <1>3, <1>5 DEF UnpaidFrom, Reserved
  <2>2. IsFiniteSet(UnpaidFrom(s) \cup {k})
    BY <1>1, FS_AddElement
  <2>3. \A q \in UnpaidFrom(s) \cup {k} : Amount[q] \in Int
    BY <1>2 DEF UnpaidFrom
  <2>4. SumFunctionOnSet(Amount, UnpaidFrom(s) \cup {k})
          = SumFunctionOnSet(Amount, UnpaidFrom(s)) + Amount[k]
    <3>1. k \notin UnpaidFrom(s) /\ IsFiniteSet(UnpaidFrom(s))
      BY <1>1, <2>1
    <3> QED BY <2>3, <3>1, SumAdd
  <2>5. locked'[s] = locked[s] + Amount[k]
    BY <1>1, <1>4, <1>5 DEF TypeOK
  <2> QED BY <1>1, <2>1, <2>2, <2>4, <2>5
<1>6. CASE SourceOf[k] # s
  <2>1. UnpaidFrom(s)' = UnpaidFrom(s)
    BY <1>3, <1>6 DEF UnpaidFrom, Reserved
  <2>2. locked'[s] = locked[s]
    BY <1>1, <1>4, <1>6 DEF TypeOK
  <2> QED BY <1>1, <2>1, <2>2
<1> QED BY <1>5, <1>6

LEMMA TransferCovers ==
  ASSUME CoverInv, NEW c \in Callers, NEW k \in Payments, Transfer(c, k), NEW s \in Sources
  PROVE  /\ locked'[s] = SumFunctionOnSet(Amount, UnpaidFrom(s)')
         /\ IsFiniteSet(UnpaidFrom(s)')
<1>1. /\ TypeOK /\ IsFiniteSet(UnpaidFrom(s))
      /\ locked[s] = SumFunctionOnSet(Amount, UnpaidFrom(s))
  BY DEF CoverInv, SettleInv, ReservationsCovered
<1>2. \A q \in Payments : Amount[q] \in Nat
  BY PaymentsAssumption
<1>3. /\ receipt[k] = None /\ Reserved(k) /\ pay' = pay
      /\ receipt'[k] # None
      /\ \A q \in Payments \ {k} : receipt'[q] = receipt[q]
  BY <1>1, ReceiptForType DEF Transfer, TypeOK, Open, Reserved
<1>4. locked' = [locked EXCEPT ![SourceOf[k]] = @ - Amount[k]]
  BY DEF Transfer
<1>5. CASE SourceOf[k] = s
  <2>1. UnpaidFrom(s)' = UnpaidFrom(s) \ {k} /\ k \in UnpaidFrom(s)
    BY <1>3, <1>5 DEF UnpaidFrom, Reserved
  <2>2. IsFiniteSet(UnpaidFrom(s) \ {k})
    BY <1>1, FS_RemoveElement
  <2>3. \A q \in UnpaidFrom(s) : Amount[q] \in Int
    BY <1>2 DEF UnpaidFrom
  <2>4. SumFunctionOnSet(Amount, UnpaidFrom(s))
          = Amount[k] + SumFunctionOnSet(Amount, UnpaidFrom(s) \ {k})
    BY <1>1, <2>1, <2>3, SumRemove
  <2>5. SumFunctionOnSet(Amount, UnpaidFrom(s) \ {k}) \in Int
    BY <2>2, <2>3, SumInt
  <2>6. locked'[s] = locked[s] - Amount[k]
    BY <1>1, <1>4, <1>5 DEF TypeOK
  <2>7. locked'[s] = SumFunctionOnSet(Amount, UnpaidFrom(s) \ {k})
    BY <1>1, <1>2, <2>4, <2>5, <2>6
  <2> QED BY <2>1, <2>2, <2>7
<1>6. CASE SourceOf[k] # s
  <2>1. UnpaidFrom(s)' = UnpaidFrom(s)
    BY <1>3, <1>6 DEF UnpaidFrom, Reserved
  <2>2. locked'[s] = locked[s]
    BY <1>1, <1>4, <1>6 DEF TypeOK
  <2> QED BY <1>1, <2>1, <2>2
<1> QED BY <1>5, <1>6

\* No other step moves locked money, writes a receipt or reserves.
LEMMA OthersCover ==
  ASSUME SettleInv, [Next]_vars,
         ~ \E k \in Payments : Reserve(k) \/ \E c \in Callers : Transfer(c, k)
  PROVE  UNCHANGED <<locked, receipt>> /\ \A k \in Payments : Reserved(k)' = Reserved(k)
<1> DEFINE Goal == UNCHANGED <<locked, receipt>> /\ \A k \in Payments : Reserved(k)' = Reserved(k)
<1> SUFFICES Goal
  OBVIOUS
<1>1. TypeOK
  BY DEF SettleInv
<1>2. CASE UNCHANGED tables
  BY <1>2 DEF tables, Reserved
<1>3. ASSUME NEW c \in Callers, Settle(c) PROVE Goal
  <2>1. ASSUME NEW k \in Payments, TransferRefused(c, k) \/ EscrowFails(c, k) PROVE Goal
    <3>1. MarkRetryable(k) /\ Reserved(k) /\ UNCHANGED <<locked, receipt>>
      BY <2>1 DEF TransferRefused, EscrowFails, Open, Reserved
    <3> QED BY <1>1, <3>1, MarkRetryableEffect DEF Reserved
  <2>2. ASSUME NEW k \in Payments, AlreadySucceeded(c, k) PROVE Goal
    BY <1>1, <2>2 DEF AlreadySucceeded, TypeOK, Reserved
  <2>3. CASE MarkSucceeded(c)
    <3>1. PICK k \in Payments :
            /\ receipt[k] # None /\ pay'[k].status = "SUCCEEDED"
            /\ \A q \in Payments \ {k} : pay'[q] = pay[q]
      BY <2>3, MarkSucceededEffect
    <3>2. Reserved(k)
      BY <3>1 DEF SettleInv, ReceiptsHold
    <3>3. UNCHANGED <<locked, receipt>>
      BY <2>3 DEF MarkSucceeded
    <3> QED BY <3>1, <3>2, <3>3 DEF Reserved
  <2>4. CASE Finish(c) \/ \E k \in Payments : FindReceipt(c, k)
    BY <1>2, <2>4 DEF Finish, FindReceipt
  <2> HIDE DEF Goal
  <2> QED BY <1>3, <2>1, <2>2, <2>3, <2>4 DEF Settle
<1> HIDE DEF Goal
<1>4. CASE \E s \in Schedulers : TickStep(s)
  BY <1>2, <1>3, <1>4 DEF TickStep, SampleClock, ListDue, Callers
<1>5. CASE \E u \in Users : UserStep(u)
  BY <1>2, <1>3, <1>5 DEF UserStep, RefundCommand, RetryCommand, Command, Callers
<1>6. CASE Environment
  BY <1>2, <1>6 DEF Environment, BusyAtMark, Stops, AdvanceTime, ClockStepsBack
<1>7. CASE UNCHANGED vars
  BY <1>2, <1>7 DEF vars
<1> QED BY <1>4, <1>5, <1>6, <1>7 DEF Next

LEMMA NextKeepsCoverInv == CoverInv /\ [Next]_vars => CoverInv'
<1> SUFFICES ASSUME CoverInv, [Next]_vars PROVE CoverInv' OBVIOUS
<1>1. SettleInv'
  BY NextKeepsSettleInv DEF CoverInv
<1>2. ASSUME NEW s \in Sources
      PROVE  /\ locked'[s] = SumFunctionOnSet(Amount, UnpaidFrom(s)')
             /\ IsFiniteSet(UnpaidFrom(s)')
  <2>1. CASE \E k \in Payments : Reserve(k)
    BY <2>1, ReserveCovers
  <2>2. CASE \E k \in Payments, c \in Callers : Transfer(c, k)
    BY <2>2, TransferCovers
  <2>3. CASE ~ \E k \in Payments : Reserve(k) \/ \E c \in Callers : Transfer(c, k)
    <3>1. UNCHANGED <<locked, receipt>> /\ \A k \in Payments : Reserved(k)' = Reserved(k)
      BY <2>3, OthersCover DEF CoverInv
    <3>2. UnpaidFrom(s)' = UnpaidFrom(s)
      BY <3>1 DEF UnpaidFrom
    <3> QED BY <3>1, <3>2 DEF CoverInv, ReservationsCovered
  <2> QED BY <2>1, <2>2, <2>3
<1> QED BY <1>1, <1>2 DEF CoverInv, ReservationsCovered

LEMMA InitCoverInv == Init => CoverInv
<1> SUFFICES ASSUME Init PROVE CoverInv OBVIOUS
<1>1. \A s \in Sources : UnpaidFrom(s) = {} /\ locked[s] = 0
  BY DEF Init, UnpaidFrom, Reserved, NotReserved
<1>2. ReservationsCovered
  BY <1>1, SumEmpty DEF ReservationsCovered
<1>3. \A s \in Sources : IsFiniteSet(UnpaidFrom(s))
  BY <1>1, FS_EmptySet
<1> QED BY <1>2, <1>3, InitSettleInv DEF CoverInv

\* A locked account holds exactly its unpaid reservations, however many refunds
\* share it and whoever repeats a transfer.
THEOREM AccountsCoverReservations == Spec => []ReservationsCovered
<1>1. CoverInv => ReservationsCovered
  BY DEF CoverInv
<1> QED BY <1>1, InitCoverInv, NextKeepsCoverInv, PTL DEF Spec

-----------------------------------------------------------------------------
(***************************************************************************)
(* The back-off. With one scheduler, what it is about to try is due. (Two  *)
(* schedulers may list the same payment; when the first fails, the second  *)
(* tries it at once.)                                                      *)
(***************************************************************************)

\* Only a payment that has failed waits for a time.
OnlyFailedWait ==
  \A k \in Payments : pay[k].status \in {"NONE", "PENDING"} => pay[k].next = 0

\* As long as no clock was set back and no user asked, only the scheduler s is at
\* work, it has sampled a time that is past, and all it has to do is due.
Patient(s) ==
  /\ \A c \in Callers \ {s} : caller[c] = Idle
  /\ caller[s].at = "listing" => caller[s].seen <= now
  /\ \A k \in caller[s].todo : pay[k].next <= now

PatientInv(s) ==
  /\ SettleInv
  /\ OnlyFailedWait
  /\ backs + commands = 0 => Patient(s)

LEMMA DoneWithTodo ==
  ASSUME TypeOK, NEW c \in Callers, NEW k \in Payments, caller' = DoneWith(c, k)
  PROVE  /\ caller'[c].at = "paying" /\ caller'[c].todo = caller[c].todo \ {k}
         /\ \A d \in Callers \ {c} : caller'[d] = caller[d]
BY DEF TypeOK, DoneWith, Paying

\* A failure by the scheduler is of a payment that was due.
LEMMA FailureIsPatient ==
  ASSUME TypeOK, NEW s \in Callers, Patient(s), OnlyFailedWait, NEW c \in Callers, NEW k \in Payments,
         Takes(c, k), MarkRetryable(k), caller' = DoneWith(c, k), now' = now
  PROVE  /\ Patient(s)' /\ OnlyFailedWait'
         /\ \A q \in Payments : pay'[q].attempts > pay[q].attempts => pay[q].next <= now
<1>1. c = s /\ k \in caller[s].todo
  BY DEF Takes, Patient, Idle
<1>2. /\ caller'[s].at = "paying" /\ caller'[s].todo = caller[s].todo \ {k}
      /\ \A d \in Callers \ {s} : caller'[d] = caller[d]
  BY <1>1, DoneWithTodo
<1>3. /\ pay'[k].status = "RETRYABLE"
      /\ \A q \in Payments \ {k} : pay'[q] = pay[q]
  BY MarkRetryableEffect
<1>4. caller[s].todo \subseteq Payments
  BY DEF TypeOK
<1>5. \A q \in caller'[s].todo : pay'[q].next <= now'
  BY <1>2, <1>3, <1>4 DEF Patient
<1>6. Patient(s)'
  BY <1>2, <1>5 DEF Patient, Idle
<1>7. OnlyFailedWait'
  BY <1>3 DEF OnlyFailedWait
<1>8. ASSUME NEW q \in Payments, pay'[q].attempts > pay[q].attempts PROVE pay[q].next <= now
  <2>1. pay[q].attempts \in Nat
    BY DEF TypeOK
  <2>2. CASE q = k
    BY <1>1, <2>2 DEF Patient
  <2>3. CASE q # k
    BY <1>3, <1>8, <2>1, <2>3
  <2> QED BY <2>2, <2>3
<1> QED BY <1>6, <1>7, <1>8

\* Any other step of the scheduler's settling postpones nothing.
LEMMA OtherIsPatient ==
  ASSUME TypeOK, NEW s \in Callers, Patient(s), now' \in Nat, now' >= now,
         \A c \in Callers \ {s} : caller'[c] = caller[c],
         caller'[s].todo \subseteq caller[s].todo,
         caller'[s].at = "listing" => caller'[s] = caller[s],
         \A k \in Payments : pay'[k].next \in {0, pay[k].next}
  PROVE  Patient(s)'
<1>1. /\ caller[s].seen \in Nat /\ now \in Nat /\ caller[s].todo \subseteq Payments
      /\ \A k \in Payments : pay[k].next \in Nat
  BY DEF TypeOK
<1>2. \A k \in caller'[s].todo : pay'[k].next <= now'
  BY <1>1 DEF Patient
<1>3. caller'[s].at = "listing" => caller'[s].seen <= now'
  BY <1>1 DEF Patient
<1> QED BY <1>2, <1>3 DEF Patient, Idle

LEMMA WaitStep ==
  ASSUME SettleInv, OnlyFailedWait, [Next]_vars PROVE OnlyFailedWait'
<1>1. TypeOK
  BY DEF SettleInv
<1>2. CASE UNCHANGED pay
  BY <1>2 DEF OnlyFailedWait
<1>3. ASSUME NEW k \in Payments, MarkRetryable(k) PROVE OnlyFailedWait'
  <2>1. /\ pay'[k].status = "RETRYABLE"
        /\ \A q \in Payments \ {k} : pay'[q] = pay[q]
    BY <1>1, <1>3, MarkRetryableEffect
  <2> QED BY <2>1 DEF OnlyFailedWait
<1>4. ASSUME NEW c \in Callers, Settle(c) PROVE OnlyFailedWait'
  <2>1. ASSUME NEW k \in Payments, AlreadySucceeded(c, k) PROVE OnlyFailedWait'
    BY <1>1, <2>1 DEF AlreadySucceeded, TypeOK, OnlyFailedWait
  <2>2. CASE MarkSucceeded(c)
    BY <2>2, MarkSucceededEffect DEF OnlyFailedWait
  <2> QED BY <1>2, <1>3, <1>4, <2>1, <2>2 DEF Settle, Transfer, FindReceipt, TransferRefused,
                                              EscrowFails, Finish, tables
<1>5. ASSUME NEW k \in Payments, Reserve(k) PROVE OnlyFailedWait'
  BY <1>1, <1>5 DEF Reserve, Reserved, TypeOK, OnlyFailedWait
<1>6. CASE \E s \in Schedulers : TickStep(s)
  BY <1>2, <1>4, <1>6 DEF TickStep, SampleClock, ListDue, Callers, tables
<1>7. CASE \E u \in Users : UserStep(u)
  BY <1>2, <1>4, <1>7 DEF UserStep, RefundCommand, RetryCommand, Command, Callers, tables
<1>8. CASE Environment
  BY <1>2, <1>5, <1>8 DEF Environment, BusyAtMark, Stops, AdvanceTime, ClockStepsBack, tables
<1>9. CASE UNCHANGED vars
  BY <1>2, <1>9 DEF vars, tables
<1> QED BY <1>6, <1>7, <1>8, <1>9 DEF Next

\* What is tried was due.
Punctual == \A k \in Payments : pay'[k].attempts > pay[k].attempts => pay[k].next <= now

LEMMA SameAttempts ==
  ASSUME TypeOK, \A k \in Payments : pay'[k].attempts = pay[k].attempts PROVE Punctual
BY DEF TypeOK, Punctual

\* A step that records no failure, by the scheduler or by its surroundings.
LEMMA QuietStep ==
  ASSUME TypeOK, NEW s \in Callers, Patient(s), now' \in Nat, now' >= now,
         \A c \in Callers \ {s} : caller'[c] = caller[c],
         caller'[s].todo \subseteq caller[s].todo,
         caller'[s].at = "listing" => caller'[s] = caller[s],
         \A k \in Payments : /\ pay'[k].next \in {0, pay[k].next}
                             /\ pay'[k].attempts = pay[k].attempts
  PROVE  Patient(s)' /\ Punctual
BY OtherIsPatient, SameAttempts

LEMMA SettlePatiently ==
  ASSUME SettleInv, NEW s \in Callers, Patient(s), OnlyFailedWait,
         NEW c \in Callers, Settle(c)
  PROVE  Patient(s)' /\ Punctual
<1> DEFINE Goal == Patient(s)' /\ Punctual
<1> SUFFICES Goal OBVIOUS
<1>1. TypeOK /\ now \in Nat /\ now >= now
  BY DEF SettleInv, TypeOK
<1>2. caller[c].at # "idle" => c = s
  BY DEF Patient, Idle
<1>3. ASSUME NEW k \in Payments, TransferRefused(c, k) \/ EscrowFails(c, k) PROVE Goal
  BY <1>1, <1>3, FailureIsPatient DEF TransferRefused, EscrowFails, Punctual
<1>4. ASSUME NEW k \in Payments, Transfer(c, k) \/ FindReceipt(c, k) PROVE Goal
  <2>1. c = s
    BY <1>2, <1>4 DEF Transfer, FindReceipt, Takes
  <2>2. UNCHANGED <<now, pay>> /\ GoMark(s, k)
    BY <1>4, <2>1 DEF Transfer, FindReceipt, tables
  <2>3. /\ caller'[s].todo = caller[s].todo /\ caller'[s].at = "marking"
        /\ \A d \in Callers \ {s} : caller'[d] = caller[d]
    BY <1>1, <2>2 DEF GoMark, TypeOK
  <2> QED BY <1>1, <2>2, <2>3, QuietStep
<1>5. ASSUME NEW k \in Payments, AlreadySucceeded(c, k) PROVE Goal
  <2>1. c = s
    BY <1>2, <1>5 DEF AlreadySucceeded, Takes
  <2>2. now' = now /\ caller' = DoneWith(s, k)
    BY <1>5, <2>1 DEF AlreadySucceeded
  <2>3. \A q \in Payments : pay'[q].next = pay[q].next /\ pay'[q].attempts = pay[q].attempts
    BY <1>1, <1>5 DEF AlreadySucceeded, TypeOK
  <2>4. /\ caller'[s].todo = caller[s].todo \ {k} /\ caller'[s].at = "paying"
        /\ \A d \in Callers \ {s} : caller'[d] = caller[d]
    BY <1>1, <2>2, DoneWithTodo
  <2> QED BY <1>1, <2>2, <2>3, <2>4, QuietStep
<1>6. CASE MarkSucceeded(c)
  <2> DEFINE k == caller[c].doing
  <2>1. c = s /\ k \in Payments
    BY <1>2, <1>6 DEF MarkSucceeded, SettleInv, ReceiptsHold
  <2>2. now' = now /\ caller' = DoneWith(s, k)
    BY <1>6, <2>1 DEF MarkSucceeded
  <2>3. \A q \in Payments : /\ pay'[q].next \in {0, pay[q].next}
                            /\ pay'[q].attempts = pay[q].attempts
    <3>1. pay' = IF pay[k].status = "SUCCEEDED" THEN pay
                   ELSE [pay EXCEPT ![k].status = "SUCCEEDED", ![k].next = 0, ![k].error = "none"]
      BY <1>6 DEF MarkSucceeded
    <3> QED BY <1>1, <3>1 DEF TypeOK
  <2>4. /\ caller'[s].todo = caller[s].todo \ {k} /\ caller'[s].at = "paying"
        /\ \A d \in Callers \ {s} : caller'[d] = caller[d]
    BY <1>1, <2>1, <2>2, DoneWithTodo
  <2> QED BY <1>1, <2>2, <2>3, <2>4, QuietStep
<1>7. CASE Finish(c)
  <2>1. c = s
    BY <1>2, <1>7 DEF Finish
  <2>2. /\ UNCHANGED <<now, pay>>
        /\ caller'[s] = Idle /\ \A d \in Callers \ {s} : caller'[d] = caller[d]
    BY <1>1, <1>7, <2>1 DEF Finish, tables, TypeOK
  <2> QED BY <1>1, <2>2, QuietStep DEF Idle
<1> HIDE DEF Goal
<1> QED BY <1>3, <1>4, <1>5, <1>6, <1>7 DEF Settle

\* The scheduler samples the clock and then lists what was due by that time.
LEMMA TickPatiently ==
  ASSUME SettleInv, NEW s \in Callers, Patient(s), OnlyFailedWait,
         SampleClock(s) \/ ListDue(s)
  PROVE  Patient(s)' /\ Punctual
<1>1. TypeOK /\ UNCHANGED <<now, pay>> /\ now \in Nat
  BY DEF SettleInv, TypeOK, SampleClock, ListDue, tables
<1>2. Punctual
  BY <1>1, SameAttempts
<1>3. CASE SampleClock(s)
  <2>1. /\ caller'[s].seen = now /\ caller'[s].todo = caller[s].todo
        /\ \A d \in Callers \ {s} : caller'[d] = caller[d]
    BY <1>1, <1>3 DEF SampleClock, TypeOK
  <2> QED BY <1>1, <1>2, <2>1 DEF Patient, Idle
<1>4. CASE ListDue(s)
  <2>1. /\ caller'[s] = Paying({k \in Payments : Due(k, caller[s].seen)})
        /\ \A d \in Callers \ {s} : caller'[d] = caller[d]
    BY <1>1, <1>4 DEF ListDue, TypeOK
  <2>2. caller[s].seen <= now /\ caller[s].seen \in Nat
    BY <1>1, <1>4 DEF ListDue, Patient, TypeOK
  <2>3. ASSUME NEW k \in Payments, Due(k, caller[s].seen) PROVE pay[k].next <= now
    BY <1>1, <2>2, <2>3 DEF Due, OnlyFailedWait, TypeOK
  <2>4. /\ caller'[s].at = "paying"
        /\ caller'[s].todo = {k \in Payments : Due(k, caller[s].seen)}
    BY <2>1 DEF Paying
  <2> QED BY <1>1, <1>2, <2>1, <2>3, <2>4 DEF Patient, Idle
<1> QED BY <1>3, <1>4

LEMMA EnvironmentPatiently ==
  ASSUME SettleInv, NEW s \in Callers, Patient(s), OnlyFailedWait,
         Environment \/ UNCHANGED vars, ~ ClockStepsBack
  PROVE  Patient(s)' /\ Punctual
<1> DEFINE Goal == Patient(s)' /\ Punctual
<1> SUFFICES Goal OBVIOUS
<1>1. TypeOK /\ now \in Nat /\ now >= now
  BY DEF SettleInv, TypeOK
<1>2. ASSUME UNCHANGED caller, now' \in Nat, now' >= now,
             \A k \in Payments : /\ pay'[k].next = pay[k].next
                                 /\ pay'[k].attempts = pay[k].attempts
      PROVE Goal
  BY <1>1, <1>2, QuietStep
<1>3. ASSUME NEW k \in Payments, Reserve(k) PROVE Goal
  <2>1. \A q \in Payments : pay'[q].next = pay[q].next /\ pay'[q].attempts = pay[q].attempts
    BY <1>1, <1>3 DEF Reserve, TypeOK
  <2> QED BY <1>1, <1>2, <1>3, <2>1 DEF Reserve
<1>4. CASE AdvanceTime
  BY <1>1, <1>2, <1>4 DEF AdvanceTime, tables
<1>5. CASE UNCHANGED vars
  BY <1>1, <1>2, <1>5 DEF vars, tables
<1>6. ASSUME NEW c \in Callers, BusyAtMark(c) \/ Stops(c) PROVE Goal
  <2>1. c = s
    BY <1>6 DEF Patient, Idle, BusyAtMark, Stops
  <2>2. UNCHANGED <<now, pay>>
    BY <1>6 DEF BusyAtMark, Stops, tables
  <2>3. /\ caller'[s].todo \subseteq caller[s].todo /\ caller'[s].at # "listing"
        /\ \A d \in Callers \ {s} : caller'[d] = caller[d]
    BY <1>1, <1>6, <2>1 DEF TypeOK, BusyAtMark, Stops, Idle
  <2> QED BY <1>1, <2>2, <2>3, QuietStep
<1> HIDE DEF Goal
<1> QED BY <1>3, <1>4, <1>5, <1>6 DEF Environment

\* The step, with the steps that end the peace: a command and a set-back clock.
LEMMA PatientStep ==
  ASSUME NEW s, Schedulers = {s}, PatientInv(s), [Next]_vars
  PROVE  /\ PatientInv(s)'
         /\ backs + commands = 0 => Punctual
<1>1. SettleInv /\ OnlyFailedWait /\ TypeOK /\ s \in Callers
  BY DEF PatientInv, SettleInv, Callers
<1>2. SettleInv' /\ OnlyFailedWait'
  BY <1>1, NextKeepsSettleInv, WaitStep
<1>3. {backs, commands, backs', commands'} \subseteq Nat
  BY <1>1, <1>2 DEF SettleInv, TypeOK
<1> DEFINE Calm == backs + commands = 0
           Goal == (Calm' => Patient(s)') /\ (Calm => Punctual)
<1>4. ASSUME NEW u, NEW K, Command(u, K) PROVE Goal
  <2>1. commands' # 0 /\ UNCHANGED pay
    BY <1>3, <1>4 DEF Command, tables
  <2> QED BY <1>1, <1>3, <2>1, SameAttempts
<1>5. ASSUME ClockStepsBack PROVE Goal
  <2>1. backs' # 0 /\ UNCHANGED pay
    BY <1>3, <1>5 DEF ClockStepsBack, tables
  <2> QED BY <1>1, <1>3, <2>1, SameAttempts
<1>6. ASSUME Patient(s) => Patient(s)' /\ Punctual, UNCHANGED <<backs, commands>> PROVE Goal
  BY <1>3, <1>6 DEF PatientInv
<1> SUFFICES Goal
  BY <1>2 DEF PatientInv
<1> HIDE DEF Goal, Calm
<1>7. ASSUME NEW c \in Callers, Settle(c) PROVE Goal
  <2>1. UNCHANGED <<backs, commands>>
    BY <1>7 DEF Settle, Transfer, FindReceipt, TransferRefused, EscrowFails, AlreadySucceeded,
                MarkSucceeded, Finish, bounds
  <2>2. Patient(s) => Patient(s)' /\ Punctual
    BY <1>1, <1>7, SettlePatiently
  <2> QED BY <1>6, <2>1, <2>2
<1>8. CASE \E t \in Schedulers : TickStep(t)
  <2>1. CASE Settle(s)
    BY <1>1, <1>7, <2>1
  <2>2. CASE SampleClock(s) \/ ListDue(s)
    <3>1. UNCHANGED <<backs, commands>>
      BY <2>2 DEF SampleClock, ListDue, bounds
    <3>2. Patient(s) => Patient(s)' /\ Punctual
      BY <1>1, <2>2, TickPatiently
    <3> QED BY <1>6, <3>1, <3>2
  <2> QED BY <1>8, <2>1, <2>2 DEF TickStep
<1>9. CASE \E u \in Users : UserStep(u)
  BY <1>4, <1>7, <1>9 DEF UserStep, RefundCommand, RetryCommand, Callers
<1>10. CASE (Environment \/ UNCHANGED vars) /\ ~ ClockStepsBack
  <2>1. UNCHANGED <<backs, commands>>
    BY <1>10 DEF Environment, Reserve, BusyAtMark, Stops, AdvanceTime, vars, bounds
  <2>2. Patient(s) => Patient(s)' /\ Punctual
    BY <1>1, <1>10, EnvironmentPatiently
  <2> QED BY <1>6, <2>1, <2>2
<1> QED
  BY <1>5, <1>8, <1>9, <1>10 DEF Next

\* The only scheduler, watch or scheduler-tick, never tries a payment before its
\* next_retry_at_us, unless a clock was set back or a user asked for a retry
\* (list_due_payment_operations): an invariant of its list of payments, because
\* it lists, then pays, in different transactions.
THEOREM BackoffIsRespected ==
  ASSUME NEW only, Schedulers = {only} PROVE Spec => BackoffRespected
<1>1. Init => PatientInv(only)
  <2> SUFFICES ASSUME Init PROVE PatientInv(only) OBVIOUS
  <2>1. SettleInv
    BY InitSettleInv
  <2>2. OnlyFailedWait
    BY DEF Init, NotReserved, OnlyFailedWait
  <2>3. Patient(only)
    BY DEF Init, Idle, Patient, Callers
  <2> QED BY <2>1, <2>2, <2>3 DEF PatientInv
<1>2. PatientInv(only) /\ [Next]_vars =>
        /\ PatientInv(only)'
        /\ [\A s \in Schedulers, k \in Payments :
              backs + commands = 0 /\ caller'[s] # caller[s] /\ pay'[k].attempts > pay[k].attempts
                => pay[k].next <= now]_vars
  BY PatientStep DEF Punctual
<1>3. Spec => []PatientInv(only)
  BY <1>1, <1>2, PTL DEF Spec
<1> QED BY <1>3, <1>2, PTL DEF Spec, BackoffRespected

-----------------------------------------------------------------------------
(***************************************************************************)
(* The settlement implements PayOnce: each step reserves, pays or          *)
(* acknowledges one payment, or changes nothing that PayOnce speaks of.    *)
(***************************************************************************)
Reservations == [k \in Payments |-> [amount |-> IF Reserved(k) THEN Amount[k] ELSE 0,
                                     payee |-> Payee[k]]]
Paid == {k \in Payments : receipt[k] # None}
Acknowledged == {k \in Payments : pay[k].status = "SUCCEEDED"}

\* What a step looks like from outside when it keeps every status but perhaps
\* turns an open payment into another open one, and hands over nothing.
LEMMA StatusStutters ==
  ASSUME SettleInv, UNCHANGED <<wallet, receipt>>,
         \A k \in Payments : /\ pay'[k].status = "NONE" <=> pay[k].status = "NONE"
                             /\ pay'[k].status = "SUCCEEDED" <=> pay[k].status = "SUCCEEDED"
  PROVE  UNCHANGED <<Reservations, Paid, Acknowledged, wallet>>
<1>1. Reservations' = Reservations
  BY DEF Reservations, Reserved
<1>2. Paid' = Paid
  BY DEF Paid
<1>3. Acknowledged' = Acknowledged
  BY DEF Acknowledged
<1> QED BY <1>1, <1>2, <1>3

LEMMA ReserveIsReserve ==
  ASSUME SettleInv, NEW k \in Payments, Reserve(k)
  PROVE  /\ Reservations[k].amount = 0
         /\ Reservations'[k].amount > 0
         /\ Reservations' = [Reservations EXCEPT ![k] = Reservations'[k]]
         /\ UNCHANGED <<Paid, Acknowledged, wallet>>
<1>1. /\ pay[k].status = "NONE" /\ pay'[k].status = "PENDING"
      /\ \A q \in Payments \ {k} : pay'[q] = pay[q]
      /\ UNCHANGED <<wallet, receipt>>
  BY DEF Reserve, Reserved, SettleInv, TypeOK
<1>2. Amount[k] > 0
  BY PaymentsAssumption
<1>3. Paid' = Paid /\ Acknowledged' = Acknowledged
  BY <1>1 DEF Paid, Acknowledged
<1>4. Reservations[k].amount = 0 /\ Reservations'[k].amount > 0
  BY <1>1, <1>2 DEF Reservations, Reserved
<1>5. Reservations' = [Reservations EXCEPT ![k] = Reservations'[k]]
  BY <1>1 DEF Reservations, Reserved
<1> QED BY <1>1, <1>3, <1>4, <1>5

LEMMA TransferIsPay ==
  ASSUME SettleInv, NEW k \in Payments, NEW c \in Callers, Transfer(c, k)
  PROVE  /\ Reservations[k].amount > 0
         /\ k \notin Paid
         /\ Paid' = Paid \cup {k}
         /\ wallet' = [wallet EXCEPT ![Reservations[k].payee] = @ + Reservations[k].amount]
         /\ UNCHANGED <<Reservations, Acknowledged>>
<1>1. Reservations[k].amount = Amount[k] /\ Reservations[k].payee = Payee[k]
  BY DEF Transfer, Open, Reservations, Reserved
<1>2. Amount[k] > 0
  BY PaymentsAssumption
<1>3. Paid' = Paid \cup {k} /\ k \notin Paid
  BY ReceiptForType DEF Transfer, Paid, SettleInv, TypeOK
<1>4. UNCHANGED <<Reservations, Acknowledged>>
  BY DEF Transfer, Reservations, Acknowledged, Reserved
<1> QED BY <1>1, <1>2, <1>3, <1>4 DEF Transfer

LEMMA MarkIsAcknowledge ==
  ASSUME SettleInv, NEW c \in Callers, MarkSucceeded(c)
  PROVE  \E k \in Payments :
           /\ k \in Paid
           /\ Acknowledged' = Acknowledged \cup {k}
           /\ UNCHANGED <<Reservations, Paid, wallet>>
<1> PICK k \in Payments :
       /\ receipt[k] # None
       /\ pay'[k].status = "SUCCEEDED"
       /\ \A q \in Payments \ {k} : pay'[q] = pay[q]
  BY MarkSucceededEffect
<1>1. UNCHANGED <<wallet, receipt>>
  BY DEF MarkSucceeded
<1>2. pay[k].status # "NONE"
  BY DEF SettleInv, ReceiptsHold, Reserved
<1>3. Paid' = Paid /\ k \in Paid
  BY <1>1 DEF Paid
<1>4. Acknowledged' = Acknowledged \cup {k}
  BY DEF Acknowledged
<1>5. Reservations' = Reservations
  BY <1>2 DEF Reservations, Reserved
<1> QED BY <1>1, <1>3, <1>4, <1>5

LEMMA RetryableStutters ==
  ASSUME SettleInv, NEW k \in Payments, Open(k), MarkRetryable(k),
         UNCHANGED <<wallet, receipt>>
  PROVE  UNCHANGED <<Reservations, Paid, Acknowledged, wallet>>
<1>1. /\ pay'[k].status = "RETRYABLE"
      /\ \A q \in Payments \ {k} : pay'[q] = pay[q]
  BY MarkRetryableEffect DEF SettleInv
<1>2. pay[k].status \in {"PENDING", "RETRYABLE"}
  BY DEF Open
<1> QED BY <1>1, <1>2, StatusStutters

\* What PayOnce allows a step to do.
OnceStep ==
  \/ \E k \in Payments :
       \/ /\ Reservations[k].amount = 0
          /\ Reservations'[k].amount > 0
          /\ Reservations' = [Reservations EXCEPT ![k] = Reservations'[k]]
          /\ UNCHANGED <<Paid, Acknowledged, wallet>>
       \/ /\ Reservations[k].amount > 0
          /\ k \notin Paid
          /\ Paid' = Paid \cup {k}
          /\ wallet' = [wallet EXCEPT ![Reservations[k].payee] = @ + Reservations[k].amount]
          /\ UNCHANGED <<Reservations, Acknowledged>>
       \/ /\ k \in Paid
          /\ Acknowledged' = Acknowledged \cup {k}
          /\ UNCHANGED <<Reservations, Paid, wallet>>
  \/ UNCHANGED <<Reservations, Paid, Acknowledged, wallet>>

LEMMA StepImplementsOnce ==
  ASSUME SettleInv, [Next]_vars PROVE OnceStep
<1>1. ASSUME UNCHANGED tables PROVE OnceStep
  BY <1>1, StatusStutters DEF tables, OnceStep
<1>2. ASSUME NEW c \in Callers, Settle(c) PROVE OnceStep
  <2>1. ASSUME NEW k \in Payments, Transfer(c, k) PROVE OnceStep
    BY <2>1, TransferIsPay DEF OnceStep
  <2>2. ASSUME NEW k \in Payments, TransferRefused(c, k) PROVE OnceStep
    <3>1. Open(k) /\ MarkRetryable(k) /\ UNCHANGED <<wallet, receipt>>
      BY <2>2 DEF TransferRefused
    <3> QED BY <2>2, <3>1, RetryableStutters DEF OnceStep
  <2>3. ASSUME NEW k \in Payments, EscrowFails(c, k) PROVE OnceStep
    <3>1. Open(k) /\ MarkRetryable(k) /\ UNCHANGED <<wallet, receipt>>
      BY <2>3 DEF EscrowFails
    <3> QED BY <2>3, <3>1, RetryableStutters DEF OnceStep
  <2>4. ASSUME NEW k \in Payments, FindReceipt(c, k) PROVE OnceStep
    BY <1>1, <2>4 DEF FindReceipt
  <2>5. ASSUME NEW k \in Payments, AlreadySucceeded(c, k) PROVE OnceStep
    <3>1. pay' = pay
      BY <2>5, AlreadySucceededKeeps
    <3> QED BY <1>1, <2>5, <3>1 DEF AlreadySucceeded, tables
  <2>6. ASSUME MarkSucceeded(c) PROVE OnceStep
    BY <2>6, MarkIsAcknowledge DEF OnceStep
  <2>7. ASSUME Finish(c) PROVE OnceStep
    BY <1>1, <2>7 DEF Finish
  <2> QED BY <1>2, <2>1, <2>2, <2>3, <2>4, <2>5, <2>6, <2>7 DEF Settle
<1>3. ASSUME NEW k \in Payments, Reserve(k) PROVE OnceStep
  BY <1>3, ReserveIsReserve DEF OnceStep
<1>4. ASSUME NEW s \in Schedulers, TickStep(s) PROVE OnceStep
  BY <1>1, <1>2, <1>4 DEF TickStep, SampleClock, ListDue, Callers
<1>5. ASSUME NEW u \in Users, UserStep(u) PROVE OnceStep
  BY <1>1, <1>2, <1>5 DEF UserStep, RefundCommand, RetryCommand, Command, Callers
<1>6. ASSUME Environment PROVE OnceStep
  BY <1>1, <1>3, <1>6 DEF Environment, BusyAtMark, Stops, AdvanceTime, ClockStepsBack
<1>7. ASSUME UNCHANGED vars PROVE OnceStep
  BY <1>1, <1>7 DEF vars
<1> QED BY <1>4, <1>5, <1>6, <1>7 DEF Next

LEMMA InitImplementsOnce ==
  ASSUME Init PROVE (\A k \in Payments : Reservations[k].amount = 0) /\ Paid = {}
                    /\ Acknowledged = {}
BY DEF Init, Reservations, Paid, Acknowledged, NotReserved, Reserved

\* However many processes settle at once, whatever dies or fails between the two
\* transactions of process_single_payment, a reserved payment is handed over at
\* most once, its amount to its payee, and marked as succeeded only then.
THEOREM PaymentsPaidOnce == Spec => PaidOnce
<1>1. Init => Once!Init
  BY InitImplementsOnce DEF Once!Init, Reservations, Paid, Acknowledged
<1>2. SettleInv /\ [Next]_vars => [Once!Next]_(Once!onceVars)
  BY StepImplementsOnce DEF Once!Next, Once!onceVars, Once!Reserve, Once!Pay,
     Once!Acknowledge, OnceStep, Reservations, Paid, Acknowledged
<1> QED BY <1>1, <1>2, InitSettleInv, NextKeepsSettleInv, PTL
        DEF Spec, PaidOnce, Once!Spec

=============================================================================
