--------------------------- MODULE JobOnceProofs ---------------------------
(***************************************************************************)
(* The core implements PayOnce: each step reserves, pays or acknowledges   *)
(* at most one payment, and no wallet grows in another way.                *)
(***************************************************************************)
EXTENDS JobProofs

\* The mapping of the core's tables to PayOnce.
Reservations == [k \in PayKeys |-> [amount |-> pay[k].amount, payee |-> pay[k].payee]]
Paid == {k \in PayKeys : receipt[k] > 0}
Acknowledged == {k \in PayKeys : pay[k].status = "SUCCEEDED"}
Wallets == [p \in Participants |-> bal[Wallet(p)]]

\* Only a reserved payment has an amount.
ReservationsPositive == \A k \in PayKeys : Reserved(k) <=> pay[k].amount > 0

\* Booking within the ledger leaves the wallets and receipts alone and reserves
\* at most one payment.
FundsShape ==
  /\ UNCHANGED receipt
  /\ \A p \in Participants : bal'[Wallet(p)] = bal[Wallet(p)]
  /\ \/ UNCHANGED pay
     \/ \E k \in PayKeys, amount \in Nat \ {0}, payee \in Participants \cup {None} :
          /\ ~ Reserved(k)
          /\ pay' = [pay EXCEPT ![k] = [status |-> "PENDING", amount |-> amount,
                                        payee |-> payee]]

LEMMA MoveSparesWallets ==
  ASSUME TypeOK, NEW from \in Accounts, NEW to \in Accounts, NEW amount \in Nat,
         Move(from, to, amount), NEW p \in Participants,
         from # Wallet(p), to # Wallet(p)
  PROVE  bal'[Wallet(p)] = bal[Wallet(p)]
BY AccountIds DEF Move, TypeOK

LEMMA NotWallets ==
  ASSUME NEW p \in Participants
  PROVE  /\ \A r \in Roots : Available(r) # Wallet(p) /\ ParentPayout(r) # Wallet(p)
                             /\ Refund(r) # Wallet(p)
         /\ \A c \in Children : ChildWork(c) # Wallet(p) /\ ChildPayout(c) # Wallet(p)
BY DEF Available, ParentPayout, Refund, ChildWork, ChildPayout, Wallet

LEMMA FailureShape ==
  ASSUME IInv, NEW j \in Jobs, state[j] \in Live, FailureFunds(j)
  PROVE  FundsShape
<1>1. TypeOK
  BY DEF IInv
<1>2. UNCHANGED receipt
  BY DEF FailureFunds
<1>3. CASE j \in Roots
  <2>1. RootFailureFunds(j)
    BY <1>3 DEF FailureFunds
  <2>2. /\ Available(j) \in Accounts /\ Refund(j) \in Accounts /\ TerminalKey(j) \in PayKeys
        /\ requester[j] \in Participants \cup {None} /\ bal[Available(j)] \in Nat
    BY <1>1, <1>3, AccountIds, PayIds DEF TypeOK
  <2>3. CASE UNCHANGED <<bal, pay>>
    BY <1>2, <2>3 DEF FundsShape
  <2>4. CASE /\ bal[Available(j)] # 0
             /\ Move(Available(j), Refund(j), bal[Available(j)])
             /\ Reserve(TerminalKey(j), bal[Available(j)], requester[j])
    <3>1. \A p \in Participants : bal'[Wallet(p)] = bal[Wallet(p)]
      BY <1>1, <1>3, <2>2, <2>4, MoveSparesWallets, NotWallets
    <3> QED BY <1>2, <2>2, <2>4, <3>1 DEF FundsShape, Reserve
  <2> QED BY <2>1, <2>3, <2>4 DEF RootFailureFunds
<1>4. CASE j \in Children
  <2>1. ChildFailureFunds(j)
    BY <1>4, JobsAssumption DEF FailureFunds
  <2>2. parent[j] \in Roots
    BY <1>4 DEF IInv, JobRecords, Live
  <2>3. /\ ChildWork(j) \in Accounts /\ Available(parent[j]) \in Accounts
        /\ Refund(parent[j]) \in Accounts /\ ReturnKey(j) \in PayKeys
        /\ requester[parent[j]] \in Participants \cup {None} /\ bal[ChildWork(j)] \in Nat
    BY <1>1, <1>4, <2>2, AccountIds, PayIds DEF TypeOK, Jobs
  <2>4. CASE UNCHANGED <<bal, pay>>
    BY <1>2, <2>4 DEF FundsShape
  <2>5. CASE Move(ChildWork(j), Available(parent[j]), bal[ChildWork(j)]) /\ UNCHANGED pay
    <3>1. \A p \in Participants : bal'[Wallet(p)] = bal[Wallet(p)]
      BY <1>1, <1>4, <2>2, <2>3, <2>5, MoveSparesWallets, NotWallets
    <3> QED BY <1>2, <2>5, <3>1 DEF FundsShape
  <2>6. CASE /\ bal[ChildWork(j)] # 0
             /\ Move(ChildWork(j), Refund(parent[j]), bal[ChildWork(j)])
             /\ Reserve(ReturnKey(j), bal[ChildWork(j)], requester[parent[j]])
    <3>1. \A p \in Participants : bal'[Wallet(p)] = bal[Wallet(p)]
      BY <1>1, <1>4, <2>2, <2>3, <2>6, MoveSparesWallets, NotWallets
    <3> QED BY <1>2, <2>3, <2>6, <3>1 DEF FundsShape, Reserve
  <2> QED BY <2>1, <2>4, <2>5, <2>6 DEF ChildFailureFunds
<1> QED BY <1>3, <1>4 DEF Jobs

LEMMA PayoutShape ==
  ASSUME IInv, NEW j \in Jobs, PayoutFunds(j) PROVE FundsShape
<1> DEFINE from == IF j \in Roots THEN Available(j) ELSE ChildWork(j)
           to   == IF j \in Roots THEN ParentPayout(j) ELSE ChildPayout(j)
<1>1. TypeOK
  BY DEF IInv
<1>2. /\ from \in Accounts /\ to \in Accounts /\ PayoutKey(j) \in PayKeys
      /\ \A p \in Participants : from # Wallet(p) /\ to # Wallet(p)
  BY AccountIds, PayIds, NotWallets DEF Jobs
<1>3. /\ UNCHANGED receipt
      /\ IF bal[from] = 0
           THEN UNCHANGED <<bal, pay>>
           ELSE Move(from, to, bal[from]) /\ Reserve(PayoutKey(j), bal[from], lease[j].worker)
  BY DEF PayoutFunds
<1>4. lease[j].worker \in Participants \cup {None}
  BY <1>1 DEF TypeOK
<1> HIDE DEF from, to
<1>5. bal[from] \in Nat
  BY <1>1, <1>2 DEF TypeOK
<1>6. CASE bal[from] = 0
  BY <1>3, <1>6 DEF FundsShape
<1>7. CASE bal[from] # 0
  <2>1. \A p \in Participants : bal'[Wallet(p)] = bal[Wallet(p)]
    BY <1>1, <1>2, <1>3, <1>5, <1>7, MoveSparesWallets
  <2> QED BY <1>2, <1>3, <1>4, <1>5, <1>7, <2>1 DEF FundsShape, Reserve
<1> QED BY <1>6, <1>7

-----------------------------------------------------------------------------
\* What PayOnce allows a step to do.
OnceStep ==
  \/ \E k \in PayKeys :
       \/ /\ Reservations[k].amount = 0
          /\ Reservations'[k].amount > 0
          /\ Reservations' = [Reservations EXCEPT ![k] = Reservations'[k]]
          /\ UNCHANGED <<Paid, Acknowledged, Wallets>>
       \/ /\ Reservations[k].amount > 0
          /\ k \notin Paid
          /\ Paid' = Paid \cup {k}
          /\ Wallets' = [Wallets EXCEPT ![Reservations[k].payee] = @ + Reservations[k].amount]
          /\ UNCHANGED <<Reservations, Acknowledged>>
       \/ /\ k \in Paid
          /\ Acknowledged' = Acknowledged \cup {k}
          /\ UNCHANGED <<Reservations, Paid, Wallets>>
  \/ \E p \in Participants :
       /\ Wallets'[p] < Wallets[p]
       /\ Wallets' = [Wallets EXCEPT ![p] = Wallets'[p]]
       /\ UNCHANGED <<Reservations, Paid, Acknowledged>>
  \/ UNCHANGED <<Reservations, Paid, Acknowledged, Wallets>>

OnceInv == IInv /\ ReservationsPositive

LEMMA FundsStep ==
  ASSUME OnceInv, FundsShape PROVE OnceStep /\ ReservationsPositive'
<1>1. pay \in [PayKeys -> [status : PaymentStatus, amount : Nat,
                           payee : Participants \cup {None}]]
  BY DEF OnceInv, IInv, TypeOK
<1>2. Wallets' = Wallets /\ Paid' = Paid
  BY DEF FundsShape, Wallets, Paid
<1>3. CASE UNCHANGED pay
  <2>1. Reservations' = Reservations /\ Acknowledged' = Acknowledged
    BY <1>3 DEF Reservations, Acknowledged
  <2> QED BY <1>2, <1>3, <2>1 DEF OnceStep, ReservationsPositive, OnceInv, Reserved
<1>4. CASE ~ UNCHANGED pay
  <2> PICK k \in PayKeys, amount \in Nat \ {0}, payee \in Participants \cup {None} :
        /\ ~ Reserved(k)
        /\ pay' = [pay EXCEPT ![k] = [status |-> "PENDING", amount |-> amount,
                                      payee |-> payee]]
    BY <1>4 DEF FundsShape
  <2>1. /\ pay'[k] = [status |-> "PENDING", amount |-> amount, payee |-> payee]
        /\ \A q \in PayKeys \ {k} : pay'[q] = pay[q]
    BY <1>1
  <2>2. pay[k].amount = 0 /\ pay[k].status = "NONE"
    BY <1>1 DEF OnceInv, ReservationsPositive, Reserved
  <2>3. Reservations[k].amount = 0 /\ Reservations'[k].amount > 0
    BY <2>1, <2>2 DEF Reservations
  <2>4. Reservations' = [Reservations EXCEPT ![k] = Reservations'[k]]
    BY <2>1 DEF Reservations
  <2>5. Acknowledged' = Acknowledged
    BY <2>1, <2>2 DEF Acknowledged
  <2>6. ReservationsPositive'
    BY <2>1 DEF OnceInv, ReservationsPositive, Reserved
  <2> QED BY <1>2, <2>3, <2>4, <2>5, <2>6 DEF OnceStep
<1> QED BY <1>3, <1>4

LEMMA SameMoney ==
  ASSUME OnceInv, UNCHANGED <<bal, pay, receipt>> PROVE OnceStep /\ ReservationsPositive'
BY FundsStep DEF FundsShape

LEMMA FundRootIsSpend ==
  ASSUME OnceInv, NEW p \in Participants, NEW r \in Roots, FundRoot(p, r), budget[r] > 0
  PROVE  OnceStep /\ ReservationsPositive'
<1>1. bal \in [Accounts -> Nat] /\ budget[r] \in Nat
  BY DEF OnceInv, IInv, TypeOK, Jobs
<1>2. Wallet(p) \in Accounts /\ Available(r) \in Accounts /\ Wallet(p) # Available(r)
  BY AccountIds, NotWallets
<1>3. /\ bal'[Wallet(p)] = bal[Wallet(p)] - budget[r]
      /\ \A a \in Accounts \ {Wallet(p), Available(r)} : bal'[a] = bal[a]
  BY <1>1, <1>2, MoveType DEF FundRoot
<1>4. Wallets'[p] < Wallets[p]
  BY <1>1, <1>2, <1>3 DEF Wallets
<1>5. Wallets' = [Wallets EXCEPT ![p] = Wallets'[p]]
  <2>1. \A q \in Participants \ {p} : Wallet(q) \in Accounts \ {Wallet(p), Available(r)}
    BY AccountIds, NotWallets DEF Wallet
  <2> QED BY <1>3, <2>1 DEF Wallets
<1>6. UNCHANGED <<pay, receipt>>
  BY DEF FundRoot, payVars
<1>7. UNCHANGED <<Reservations, Paid, Acknowledged>> /\ ReservationsPositive'
  BY <1>6 DEF Reservations, Paid, Acknowledged, ReservationsPositive, OnceInv, Reserved
<1> QED BY <1>4, <1>5, <1>7 DEF OnceStep

LEMMA TransferIsPay ==
  ASSUME OnceInv, NEW k \in PayKeys, TransferPayment(k)
  PROVE  OnceStep /\ ReservationsPositive'
<1> DEFINE p == pay[k].payee
<1>1. /\ p \in Participants /\ pay[k].amount \in Nat
      /\ bal \in [Accounts -> Nat] /\ receipt \in [PayKeys -> Nat]
  BY JobsAssumption DEF TransferPayment, OnceInv, IInv, TypeOK
<1>2. pay[k].amount > 0
  BY DEF OnceInv, ReservationsPositive, TransferPayment, Reserved
<1>3. Wallet(p) \in Accounts /\ Source(k) \in Accounts /\ Source(k) # Wallet(p)
      /\ \A q \in Participants : Source(k) # Wallet(q)
  <2>1. Reserved(k)
    BY DEF TransferPayment, Reserved
  <2> QED BY <1>1, <2>1, AccountIds, SourceIsLocked DEF OnceInv, Wallet
<1>4. Move(Source(k), Wallet(p), pay[k].amount)
  BY DEF TransferPayment
<1>5. /\ bal'[Wallet(p)] = bal[Wallet(p)] + pay[k].amount
      /\ \A a \in Accounts \ {Source(k), Wallet(p)} : bal'[a] = bal[a]
  BY <1>1, <1>3, <1>4, MoveType
<1>6. Wallets' = [Wallets EXCEPT ![p] = @ + pay[k].amount]
  <2>1. \A q \in Participants \ {p} : Wallet(q) \in Accounts \ {Source(k), Wallet(p)}
    BY <1>3, AccountIds DEF Wallet
  <2> QED BY <1>1, <1>5, <2>1 DEF Wallets
<1>7. UNCHANGED pay /\ receipt[k] = 0 /\ receipt' = [receipt EXCEPT ![k] = pay[k].amount]
  BY DEF TransferPayment
<1>8. k \notin Paid /\ Paid' = Paid \cup {k}
  BY <1>1, <1>2, <1>7 DEF Paid
<1>9. UNCHANGED <<Reservations, Acknowledged>> /\ ReservationsPositive'
  BY <1>7 DEF Reservations, Acknowledged, ReservationsPositive, OnceInv, Reserved
<1>10. Reservations[k].amount = pay[k].amount /\ Reservations[k].payee = p
  BY DEF Reservations
<1> HIDE DEF p
<1> QED BY <1>2, <1>6, <1>8, <1>9, <1>10 DEF OnceStep

LEMMA MarkIsAcknowledge ==
  ASSUME OnceInv, NEW k \in PayKeys, MarkSucceeded(k) \/ PaymentFails(k)
  PROVE  OnceStep /\ ReservationsPositive'
<1>1. pay \in [PayKeys -> [status : PaymentStatus, amount : Nat,
                           payee : Participants \cup {None}]]
  BY DEF OnceInv, IInv, TypeOK
<1>2. UNCHANGED <<bal, receipt>>
  BY DEF MarkSucceeded, PaymentFails, moneyVars
<1>3. Wallets' = Wallets /\ Paid' = Paid
  BY <1>2 DEF Wallets, Paid
<1> PICK s \in {"SUCCEEDED", "RETRYABLE"} :
      /\ pay' = [pay EXCEPT ![k].status = s]
      /\ s = "SUCCEEDED" => receipt[k] > 0
  BY DEF MarkSucceeded, PaymentFails
<1>4. pay[k].status \in {"PENDING", "RETRYABLE"}
  BY DEF MarkSucceeded, PaymentFails
<1>5. /\ pay'[k].status = s /\ pay'[k].amount = pay[k].amount /\ pay'[k].payee = pay[k].payee
      /\ \A q \in PayKeys \ {k} : pay'[q] = pay[q]
  BY <1>1
<1>6. Reservations' = Reservations
  BY <1>5 DEF Reservations
<1>7. ReservationsPositive'
  BY <1>4, <1>5 DEF OnceInv, ReservationsPositive, Reserved
<1>8. CASE s = "SUCCEEDED"
  <2>1. k \in Paid /\ Acknowledged' = Acknowledged \cup {k}
    BY <1>5, <1>8 DEF Paid, Acknowledged
  <2> QED BY <1>3, <1>6, <1>7, <2>1 DEF OnceStep
<1>9. CASE s = "RETRYABLE"
  <2>1. Acknowledged' = Acknowledged
    BY <1>4, <1>5, <1>9 DEF Acknowledged
  <2> QED BY <1>3, <1>6, <1>7, <2>1 DEF OnceStep
<1> QED BY <1>8, <1>9

\* The wallets' side of creating a child is booking within the ledger.
LEMMA CreateChildShape ==
  ASSUME IInv, NEW p \in Participants, NEW r \in Roots, NEW c \in Children, NEW t \in Tasks,
         NEW b \in ChildBudgets, NEW d \in ChildDeadlines, CreateChild(p, r, c, t, b, d)
  PROVE  FundsShape
<1>1. Move(Available(r), ChildWork(c), b) /\ UNCHANGED <<pay, receipt>>
  BY DEF CreateChild, payVars
<1>2. b \in Nat /\ Available(r) \in Accounts /\ ChildWork(c) \in Accounts
  BY AmountsAssumption, AccountIds
<1>3. \A q \in Participants : bal'[Wallet(q)] = bal[Wallet(q)]
  BY <1>1, <1>2, MoveSparesWallets, NotWallets DEF IInv
<1> QED BY <1>1, <1>3 DEF FundsShape

\* A root that waits for its deposit has a positive budget.
DraftsPositive == \A r \in Roots : state[r] = "DRAFT" => budget[r] > 0

LEMMA DraftsStep ==
  ASSUME IInv, DraftsPositive, [Next]_vars PROVE DraftsPositive'
<1> SUFFICES ASSUME NEW r \in Roots, state'[r] = "DRAFT" PROVE budget'[r] > 0
  BY DEF DraftsPositive
<1>1. TypeOK
  BY DEF IInv
<1>2. ASSUME NEW j \in Jobs, NEW s \in Live \cup Terminal, state' = [state EXCEPT ![j] = s]
      PROVE  state[r] = "DRAFT"
  BY <1>1, <1>2 DEF TypeOK, Live, Terminal, Jobs
<1>3. CASE UNCHANGED <<state, budget>>
  BY <1>3 DEF DraftsPositive
<1>4. CASE PublishStep
  <2>1. ASSUME NEW i \in Roots, NEW p \in Requesters, NEW b \in RootBudgets,
               NEW d \in RootDeadlines, CreateRoot(p, i, b, d)
        PROVE  budget'[r] > 0
    <3>1. b > 0 /\ b \in Nat /\ budget' = [budget EXCEPT ![i] = b]
          /\ state' = [state EXCEPT ![i] = "DRAFT"]
      BY <2>1, AmountsAssumption DEF CreateRoot
    <3> QED BY <1>1, <3>1 DEF TypeOK, Jobs, DraftsPositive
  <2>2. ASSUME NEW i \in Roots, NEW p \in Participants, FundRoot(p, i)
        PROVE  budget'[r] > 0
    BY <1>2, <2>2 DEF FundRoot, DraftsPositive, Live, Jobs
  <2> QED BY <1>4, <2>1, <2>2 DEF PublishStep
<1>5. CASE WorkStep
  <2>1. ASSUME NEW p \in Participants, NEW j \in Jobs,
               Claim(p, j) \/ Heartbeat(p, j) \/ Abandon(p, j) \/ Submit(p, j)
        PROVE  UNCHANGED budget /\ (UNCHANGED state \/
                 \E s \in Live \cup Terminal : state' = [state EXCEPT ![j] = s])
    BY <2>1 DEF Claim, Heartbeat, Abandon, FailJob, Submit, jobVars, Live, Terminal
  <2>2. ASSUME NEW p \in Participants, NEW i \in Roots, NEW c \in Children, NEW t \in Tasks,
               NEW b \in ChildBudgets, NEW d \in ChildDeadlines, CreateChild(p, i, c, t, b, d)
        PROVE  budget'[r] > 0
    <3>1. /\ budget' = [budget EXCEPT ![c] = b] /\ state' = [state EXCEPT ![c] = "OPEN"]
          /\ r # c
      BY <2>2, JobsAssumption DEF CreateChild
    <3> QED BY <1>1, <3>1 DEF TypeOK, Jobs, DraftsPositive
  <2> QED BY <1>2, <1>3, <1>5, <2>1, <2>2 DEF WorkStep, DraftsPositive
<1>6. CASE ReviewStep
  <2>1. ASSUME NEW p \in Participants, NEW j \in Jobs,
               Approve(p, j) \/ Dispute(p, j) \/ DisputeTooLate(p, j)
        PROVE  UNCHANGED budget /\
                 \E s \in Live \cup Terminal : state' = [state EXCEPT ![j] = s]
    BY <2>1 DEF Approve, Dispute, DisputeTooLate, ApproveEffects, Live, Terminal
  <2> QED BY <1>2, <1>6, <2>1 DEF ReviewStep, DraftsPositive
<1>7. CASE TickStep
  <2>1. ASSUME NEW j \in Jobs,
               \/ Expire(j) \/ AutoApprove(j)
               \/ ResolveApprove(j) \/ ResolveUnresponsive(j) \/ ResolveReject(j)
        PROVE  UNCHANGED budget /\
                 \E s \in Live \cup Terminal : state' = [state EXCEPT ![j] = s]
    BY <2>1 DEF Expire, FailJob, AutoApprove, ResolveApprove, ResolveUnresponsive,
                ResolveReject, ApproveEffects, Terminal
  <2> QED BY <1>2, <1>3, <1>7, <2>1 DEF TickStep, DraftsPositive, ReserveRefundable, jobVars
<1>8. CASE PaymentStep \/ AdvanceTime \/ UNCHANGED vars
  BY <1>3, <1>8 DEF PaymentStep, TransferPayment, MarkSucceeded, PaymentFails, AdvanceTime,
                    vars, jobVars
<1> QED BY <1>4, <1>5, <1>6, <1>7, <1>8 DEF Next

LEMMA StepImplementsOnce ==
  ASSUME OnceInv, DraftsPositive, [Next]_vars
  PROVE  OnceStep /\ ReservationsPositive'
<1>1. IInv /\ TypeOK /\ NoStrandedFunds
  BY DEF OnceInv, IInv
<1>2. CASE PublishStep
  <2>1. ASSUME NEW r \in Roots, NEW p \in Requesters, NEW b \in RootBudgets,
               NEW d \in RootDeadlines, CreateRoot(p, r, b, d)
        PROVE  UNCHANGED <<bal, pay, receipt>>
    BY <2>1 DEF CreateRoot, moneyVars, payVars
  <2>2. ASSUME NEW r \in Roots, NEW p \in Participants, FundRoot(p, r)
        PROVE  budget[r] > 0
    BY <2>2 DEF FundRoot, DraftsPositive
  <2> QED BY <1>2, <2>1, <2>2, SameMoney, FundRootIsSpend DEF PublishStep
<1>3. CASE WorkStep
  <2>1. ASSUME NEW p \in Participants, NEW j \in Jobs,
               Claim(p, j) \/ Heartbeat(p, j) \/ Submit(p, j)
        PROVE  UNCHANGED <<bal, pay, receipt>>
    BY <2>1 DEF Claim, Heartbeat, Submit, moneyVars, payVars
  <2>2. ASSUME NEW p \in Participants, NEW j \in Jobs, Abandon(p, j)
        PROVE  FundsShape
    BY <1>1, <2>2, FailureShape DEF Abandon, FailJob, Live
  <2> QED BY <1>1, <1>3, <2>1, <2>2, SameMoney, FundsStep, CreateChildShape DEF WorkStep
<1>4. CASE ReviewStep
  <2>1. ASSUME NEW p \in Participants, NEW j \in Jobs, Approve(p, j) \/ DisputeTooLate(p, j)
        PROVE  FundsShape
    BY <1>1, <2>1, PayoutShape DEF Approve, DisputeTooLate, ApproveEffects
  <2>2. ASSUME NEW p \in Participants, NEW j \in Jobs, Dispute(p, j)
        PROVE  UNCHANGED <<bal, pay, receipt>>
    BY <2>2 DEF Dispute, moneyVars, payVars
  <2> QED BY <1>4, <2>1, <2>2, SameMoney, FundsStep DEF ReviewStep
<1>5. CASE TickStep
  <2>1. ASSUME NEW j \in Jobs, Expire(j) \/ ResolveReject(j)
        PROVE  FundsShape
    BY <1>1, <2>1, FailureShape DEF Expire, ExpiryDue, FailJob, ResolveReject, Live
  <2>2. ASSUME NEW j \in Jobs, AutoApprove(j) \/ ResolveApprove(j) \/ ResolveUnresponsive(j)
        PROVE  FundsShape
    BY <1>1, <2>2, PayoutShape
    DEF AutoApprove, ResolveApprove, ResolveUnresponsive, ApproveEffects
  <2>3. ASSUME NEW r \in Roots, ReserveRefundable(r)
        PROVE  UNCHANGED <<bal, pay, receipt>>
    BY <1>1, <2>3 DEF ReserveRefundable, RootFailureFunds, NoStrandedFunds, Failed, Terminal
  <2> QED BY <1>5, <2>1, <2>2, <2>3, SameMoney, FundsStep DEF TickStep
<1>6. CASE PaymentStep
  BY <1>6, TransferIsPay, MarkIsAcknowledge DEF PaymentStep
<1>7. CASE AdvanceTime \/ UNCHANGED vars
  BY <1>7, SameMoney DEF AdvanceTime, vars, moneyVars, payVars
<1> QED BY <1>2, <1>3, <1>4, <1>5, <1>6, <1>7 DEF Next

LEMMA InitImplementsOnce ==
  ASSUME Init
  PROVE  /\ \A k \in PayKeys : Reservations[k].amount = 0
         /\ Paid = {} /\ Acknowledged = {}
         /\ ReservationsPositive /\ DraftsPositive
BY DEF Init, Reservations, Paid, Acknowledged, NoPayment, ReservationsPositive, Reserved,
       DraftsPositive, Jobs

\* Whatever a job goes through, a participant's wallet grows only by the one
\* payment of a reservation, of its amount and to its payee, and a payment
\* succeeds only when that was done.
THEOREM CorePaysOnce == Spec => PaymentsOnce
<1> DEFINE Inv == OnceInv /\ DraftsPositive
<1>1. Init => Inv /\ Once!Init
  BY InitIInv, InitImplementsOnce
  DEF OnceInv, Once!Init, Reservations, Paid, Acknowledged
<1>2. Inv /\ [Next]_vars => Inv'
  BY NextKeepsIInv, DraftsStep, StepImplementsOnce DEF OnceInv
<1>3. Inv /\ [Next]_vars => [Once!Next]_(Once!onceVars)
  BY StepImplementsOnce DEF OnceStep, Once!Next, Once!onceVars, Once!Reserve, Once!Pay,
     Once!Acknowledge, Once!Spend, Reservations, Paid, Acknowledged, Wallets
<1> HIDE DEF Inv
<1> QED BY <1>1, <1>2, <1>3, PTL DEF Spec, PaymentsOnce, Once!Spec

=============================================================================
