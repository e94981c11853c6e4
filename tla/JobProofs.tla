----------------------------- MODULE JobProofs -----------------------------
(***************************************************************************)
(* Proofs about JobProtocol, for any set of jobs, participants and tasks   *)
(* and any budgets, deadlines and timing policy.                           *)
(***************************************************************************)
EXTENDS JobProperties, TLAPS

-----------------------------------------------------------------------------
(***************************************************************************)
(* What the helpers preserve.                                              *)
(***************************************************************************)

\* A journal entry that the CHECK of budget_accounts admits keeps every balance
\* a natural number.
LEMMA MoveType ==
  ASSUME bal \in [Accounts -> Nat], NEW from \in Accounts, NEW to \in Accounts,
         NEW amount \in Nat, Move(from, to, amount), from # to
  PROVE  /\ bal' \in [Accounts -> Nat]
         /\ bal'[from] = bal[from] - amount
         /\ bal'[to] = bal[to] + amount
         /\ \A a \in Accounts \ {from, to} : bal'[a] = bal[a]
BY DEF Move

LEMMA AccountIds ==
  /\ \A r \in Roots : {Available(r), ParentPayout(r), Refund(r)} \subseteq Accounts
  /\ \A c \in Children : {ChildWork(c), ChildPayout(c)} \subseteq Accounts
  /\ \A p \in Participants : Wallet(p) \in Accounts
BY DEF Accounts, Available, ParentPayout, Refund, ChildWork, ChildPayout, Wallet

LEMMA PayIds ==
  /\ \A j \in Jobs : PayoutKey(j) \in PayKeys
  /\ \A r \in Roots : TerminalKey(r) \in PayKeys
  /\ \A c \in Children : ReturnKey(c) \in PayKeys
BY DEF PayKeys, PayoutKey, TerminalKey, ReturnKey

\* A new payment is well formed and touches no other one.
LEMMA ReserveEffect ==
  ASSUME pay \in [PayKeys -> [status : PaymentStatus, amount : Nat,
                              payee : Participants \cup {None}]],
         NEW k \in PayKeys, NEW amount \in Nat,
         NEW payee \in Participants \cup {None}, Reserve(k, amount, payee)
  PROVE  /\ pay' \in [PayKeys -> [status : PaymentStatus, amount : Nat,
                                  payee : Participants \cup {None}]]
         /\ ~ Reserved(k)
         /\ pay'[k] = [status |-> "PENDING", amount |-> amount, payee |-> payee]
         /\ \A q \in PayKeys \ {k} : pay'[q] = pay[q]
BY DEF Reserve, PaymentStatus

LEMMA InitType == Init => TypeOK
<1> SUFFICES ASSUME Init PROVE TypeOK OBVIOUS
<1>1. bal \in [Accounts -> Nat]
  <2>1. bal = [a \in Accounts |->
                 IF a[1] = "wallet" /\ a[2] \in Seeded THEN InitialBalance ELSE 0]
    BY DEF Init
  <2>2. InitialBalance \in Nat
    BY AmountsAssumption
  <2> QED BY <2>1, <2>2
<1>2. lease \in [Jobs -> [generation : Nat, worker : Participants \cup {None},
                         expires : Nat, closed : LeaseClosedReason]]
  BY DEF Init, NoLease, LeaseClosedReason
<1>3. dispute \in [Jobs -> [status : {"NONE", "OPEN", "RESOLVED"}, due : Nat]]
  BY DEF Init, NoDispute
<1>4. pay \in [PayKeys -> [status : PaymentStatus, amount : Nat,
                          payee : Participants \cup {None}]]
  BY DEF Init, NoPayment, PaymentStatus
<1>5. state \in [Jobs -> JobState] /\ acceptance \in [Jobs -> {"NONE", "APPROVED", "REJECTED"}]
  BY DEF Init, JobState
<1>6. /\ requester \in [Jobs -> Participants \cup {None}]
      /\ parent \in [Children -> Roots \cup {None}]
      /\ task \in [Children -> Tasks \cup {None}]
  BY DEF Init
<1>7. /\ now \in Nat /\ deposit \in [Roots -> Nat] /\ receipt \in [PayKeys -> Nat]
      /\ budget \in [Jobs -> Nat] /\ deadline \in [Jobs -> Nat] /\ reviewDue \in [Jobs -> Nat]
  BY DEF Init
<1> QED BY <1>1, <1>2, <1>3, <1>4, <1>5, <1>6, <1>7 DEF TypeOK

-----------------------------------------------------------------------------
(***************************************************************************)
(* The inductive invariant.                                                *)
(***************************************************************************)

\* What the rows of a job look like: nobody has leased a job before it is
\* OPEN, and a child that exists has a parent and a positive budget.
JobRecords ==
  /\ \A j \in Jobs : state[j] \in {"NONE", "DRAFT", "OPEN"} => lease[j].generation = 0
  /\ \A c \in Children : state[c] # "NONE" => parent[c] \in Roots /\ budget[c] > 0

\* A receipt is of its payment's amount, and a payment that succeeded has one.
ReceiptsMatch ==
  \A k \in PayKeys :
    /\ receipt[k] \in {0, pay[k].amount}
    /\ ~ Reserved(k) => receipt[k] = 0
    /\ pay[k].status = "SUCCEEDED" => receipt[k] = pay[k].amount

IInv ==
  /\ TypeOK
  /\ JobRecords
  /\ ReceiptsMatch
  /\ ParentGate
  /\ ChildWorkProtected
  /\ NoStrandedFunds
  /\ MoneyFollowsVerdict
  /\ LeaseMatchesState

LEMMA InitIInv == Init => IInv
<1> SUFFICES ASSUME Init PROVE IInv OBVIOUS
<1>1. TypeOK
  BY InitType
<1>2. \A j \in Jobs : state[j] = "NONE" /\ lease[j] = NoLease
  BY DEF Init
<1>3. \A c \in Children : bal[ChildWork(c)] = 0
  BY AccountIds DEF Init, ChildWork
<1>4. \A k \in PayKeys : pay[k] = NoPayment /\ receipt[k] = 0
  BY DEF Init
<1>5. JobRecords
  BY <1>2 DEF JobRecords, NoLease, Jobs
<1>6. ReceiptsMatch
  BY <1>4 DEF ReceiptsMatch, NoPayment
<1>7. ParentGate /\ NoStrandedFunds
  BY <1>2 DEF ParentGate, NoStrandedFunds, Terminal, Jobs
<1>8. ChildWorkProtected
  BY <1>2, <1>3 DEF ChildWorkProtected, Live, Jobs
<1>9. MoneyFollowsVerdict
  <2>1. \A k \in PayKeys : ~ Reserved(k)
    BY <1>4 DEF Reserved, NoPayment
  <2>2. \A j \in Jobs : acceptance[j] = "NONE" /\ dispute[j].status = "NONE"
    BY DEF Init, NoDispute
  <2> QED BY <1>2, <2>1, <2>2, PayIds DEF MoneyFollowsVerdict
<1>10. LeaseMatchesState
  BY <1>2 DEF LeaseMatchesState, HasActiveLease, NoLease
<1> QED BY <1>1, <1>5, <1>6, <1>7, <1>8, <1>9, <1>10 DEF IInv

-----------------------------------------------------------------------------
(***************************************************************************)
(* What the fund operations do to accounts and payments.                   *)
(***************************************************************************)

\* The books after a fund operation: still well formed, with no receipt or
\* deposit touched.
FundsType ==
  /\ bal' \in [Accounts -> Nat]
  /\ pay' \in [PayKeys -> [status : PaymentStatus, amount : Nat,
                           payee : Participants \cup {None}]]
  /\ UNCHANGED <<deposit, receipt>>

LEMMA ChildFailureEffect ==
  ASSUME IInv, NEW c \in Children, state[c] \in Live, FailureFunds(c)
  PROVE  /\ FundsType
         /\ bal'[ChildWork(c)] = 0
         /\ \A a \in Accounts \ {ChildWork(c), Available(parent[c]), Refund(parent[c])} :
              bal'[a] = bal[a]
         /\ state[parent[c]] \in Failed =>
              bal'[Available(parent[c])] = bal[Available(parent[c])]
         /\ \A k \in PayKeys : pay'[k] # pay[k] =>
              /\ k = ReturnKey(c) /\ ~ Reserved(k)
              /\ state[parent[c]] \in Failed
              /\ pay'[k].status = "PENDING"
              /\ pay'[k].payee = requester[parent[c]]
<1> DEFINE r == parent[c]
<1>1. /\ r \in Roots
      /\ ChildWork(c) \in Accounts
      /\ {Available(r), Refund(r)} \subseteq Accounts
      /\ ReturnKey(c) \in PayKeys
      /\ c \in Jobs /\ r \in Jobs
  BY AccountIds, PayIds DEF IInv, JobRecords, Jobs, Live
<1>2. ChildWork(c) # Available(r) /\ ChildWork(c) # Refund(r) /\ Available(r) # Refund(r)
  BY DEF ChildWork, Available, Refund
<1>3. /\ bal \in [Accounts -> Nat]
      /\ pay \in [PayKeys -> [status : PaymentStatus, amount : Nat,
                              payee : Participants \cup {None}]]
      /\ requester[r] \in Participants \cup {None}
  BY <1>1 DEF IInv, TypeOK
<1>4. ChildFailureFunds(c) /\ UNCHANGED <<deposit, receipt>>
  BY JobsAssumption DEF FailureFunds
<1>5. bal[ChildWork(c)] \in Nat
  BY <1>1, <1>3
<1>6. ~ Reserved(ReturnKey(c))
  BY <1>1 DEF IInv, MoneyFollowsVerdict, Live, Failed
<1>7. CASE bal[ChildWork(c)] = 0
  BY <1>1, <1>3, <1>4, <1>7 DEF ChildFailureFunds, FundsType
<1>8. CASE bal[ChildWork(c)] # 0 /\ state[r] \notin Failed
  <2>1. Move(ChildWork(c), Available(r), bal[ChildWork(c)]) /\ UNCHANGED pay
    BY <1>4, <1>8 DEF ChildFailureFunds
  <2>2. /\ bal' \in [Accounts -> Nat]
        /\ bal'[ChildWork(c)] = bal[ChildWork(c)] - bal[ChildWork(c)]
        /\ \A a \in Accounts \ {ChildWork(c), Available(r)} : bal'[a] = bal[a]
    BY <1>1, <1>2, <1>3, <1>5, <2>1, MoveType
  <2> QED BY <1>3, <1>4, <1>5, <1>8, <2>1, <2>2 DEF FundsType
<1>9. CASE bal[ChildWork(c)] # 0 /\ state[r] \in Failed
  <2>1. /\ Move(ChildWork(c), Refund(r), bal[ChildWork(c)])
        /\ Reserve(ReturnKey(c), bal[ChildWork(c)], requester[r])
    BY <1>4, <1>6, <1>9 DEF ChildFailureFunds
  <2>2. /\ bal' \in [Accounts -> Nat]
        /\ bal'[ChildWork(c)] = bal[ChildWork(c)] - bal[ChildWork(c)]
        /\ \A a \in Accounts \ {ChildWork(c), Refund(r)} : bal'[a] = bal[a]
    BY <1>1, <1>2, <1>3, <1>5, <2>1, MoveType
  <2>3. /\ pay' \in [PayKeys -> [status : PaymentStatus, amount : Nat,
                                  payee : Participants \cup {None}]]
        /\ pay'[ReturnKey(c)] = [status |-> "PENDING", amount |-> bal[ChildWork(c)],
                                 payee |-> requester[r]]
        /\ \A q \in PayKeys \ {ReturnKey(c)} : pay'[q] = pay[q]
    BY <1>1, <1>3, <1>5, <2>1, ReserveEffect
  <2> QED BY <1>1, <1>2, <1>4, <1>5, <1>6, <1>9, <2>2, <2>3 DEF FundsType
<1> QED BY <1>7, <1>8, <1>9

LEMMA RootFailureEffect ==
  ASSUME IInv, NEW r \in Roots, state[r] \in Live, FailureFunds(r)
  PROVE  /\ FundsType
         /\ bal'[Available(r)] = 0
         /\ \A a \in Accounts \ {Available(r), Refund(r)} : bal'[a] = bal[a]
         /\ \A k \in PayKeys : pay'[k] # pay[k] =>
              /\ k = TerminalKey(r) /\ ~ Reserved(k)
              /\ pay'[k].status = "PENDING"
              /\ pay'[k].payee = requester[r]
<1>1. /\ {Available(r), Refund(r)} \subseteq Accounts
      /\ TerminalKey(r) \in PayKeys
      /\ r \in Jobs
  BY AccountIds, PayIds DEF Jobs
<1>2. Available(r) # Refund(r)
  BY DEF Available, Refund
<1>3. /\ bal \in [Accounts -> Nat]
      /\ pay \in [PayKeys -> [status : PaymentStatus, amount : Nat,
                              payee : Participants \cup {None}]]
      /\ requester[r] \in Participants \cup {None}
  BY <1>1 DEF IInv, TypeOK
<1>4. RootFailureFunds(r) /\ UNCHANGED <<deposit, receipt>>
  BY DEF FailureFunds
<1>5. bal[Available(r)] \in Nat
  BY <1>1, <1>3
<1>6. ~ Reserved(TerminalKey(r))
  BY <1>1 DEF IInv, MoneyFollowsVerdict, Live, Failed
<1>7. CASE bal[Available(r)] = 0
  BY <1>3, <1>4, <1>7 DEF RootFailureFunds, FundsType
<1>8. CASE bal[Available(r)] # 0
  <2>1. /\ Move(Available(r), Refund(r), bal[Available(r)])
        /\ Reserve(TerminalKey(r), bal[Available(r)], requester[r])
    BY <1>4, <1>6, <1>8 DEF RootFailureFunds
  <2>2. /\ bal' \in [Accounts -> Nat]
        /\ bal'[Available(r)] = bal[Available(r)] - bal[Available(r)]
        /\ \A a \in Accounts \ {Available(r), Refund(r)} : bal'[a] = bal[a]
    BY <1>1, <1>2, <1>3, <1>5, <2>1, MoveType
  <2>3. /\ pay' \in [PayKeys -> [status : PaymentStatus, amount : Nat,
                                  payee : Participants \cup {None}]]
        /\ pay'[TerminalKey(r)] = [status |-> "PENDING", amount |-> bal[Available(r)],
                                   payee |-> requester[r]]
        /\ \A q \in PayKeys \ {TerminalKey(r)} : pay'[q] = pay[q]
    BY <1>1, <1>3, <1>5, <2>1, ReserveEffect
  <2> QED BY <1>4, <1>5, <1>6, <2>2, <2>3 DEF FundsType
<1> QED BY <1>7, <1>8

LEMMA PayoutEffect ==
  ASSUME IInv, NEW j \in Jobs, PayoutFunds(j)
  PROVE  LET from == IF j \in Roots THEN Available(j) ELSE ChildWork(j)
             to   == IF j \in Roots THEN ParentPayout(j) ELSE ChildPayout(j) IN
         /\ FundsType
         /\ bal'[from] = 0
         /\ \A a \in Accounts \ {from, to} : bal'[a] = bal[a]
         /\ bal[from] > 0 =>
              /\ ~ Reserved(PayoutKey(j))
              /\ pay'[PayoutKey(j)] = [status |-> "PENDING", amount |-> bal[from],
                                       payee |-> lease[j].worker]
         /\ bal[from] = 0 => pay' = pay
         /\ \A k \in PayKeys \ {PayoutKey(j)} : pay'[k] = pay[k]
<1> DEFINE from == IF j \in Roots THEN Available(j) ELSE ChildWork(j)
           to   == IF j \in Roots THEN ParentPayout(j) ELSE ChildPayout(j)
<1>1. from \in Accounts /\ to \in Accounts /\ PayoutKey(j) \in PayKeys
  BY AccountIds, PayIds DEF Jobs
<1>2. from # to
  BY DEF Available, ParentPayout, ChildWork, ChildPayout
<1>3. /\ bal \in [Accounts -> Nat]
      /\ pay \in [PayKeys -> [status : PaymentStatus, amount : Nat,
                              payee : Participants \cup {None}]]
      /\ lease[j].worker \in Participants \cup {None}
  BY DEF IInv, TypeOK
<1>4. /\ IF bal[from] = 0
           THEN UNCHANGED <<bal, pay>>
           ELSE Move(from, to, bal[from]) /\ Reserve(PayoutKey(j), bal[from], lease[j].worker)
      /\ UNCHANGED <<deposit, receipt>>
  BY DEF PayoutFunds
<1> HIDE DEF from, to
<1>5. bal[from] \in Nat
  BY <1>1, <1>3
<1>6. CASE bal[from] = 0
  BY <1>3, <1>4, <1>6 DEF FundsType, from, to
<1>7. CASE bal[from] # 0
  <2>1. /\ bal' \in [Accounts -> Nat]
        /\ bal'[from] = bal[from] - bal[from]
        /\ \A a \in Accounts \ {from, to} : bal'[a] = bal[a]
    BY <1>1, <1>2, <1>3, <1>4, <1>5, <1>7, MoveType
  <2>2. /\ pay' \in [PayKeys -> [status : PaymentStatus, amount : Nat,
                                  payee : Participants \cup {None}]]
        /\ ~ Reserved(PayoutKey(j))
        /\ pay'[PayoutKey(j)] = [status |-> "PENDING", amount |-> bal[from],
                                 payee |-> lease[j].worker]
        /\ \A q \in PayKeys \ {PayoutKey(j)} : pay'[q] = pay[q]
    BY <1>1, <1>3, <1>4, <1>5, <1>7, ReserveEffect
  <2>3. FundsType /\ bal'[from] = 0
    BY <1>4, <1>5, <2>1, <2>2 DEF FundsType
  <2> QED BY <1>7, <2>1, <2>2, <2>3 DEF from, to
<1> QED BY <1>6, <1>7

-----------------------------------------------------------------------------
(***************************************************************************)
(* Every step keeps the invariant.                                         *)
(***************************************************************************)

\* The end of a job without acceptance: expiry, abandonment, an upheld dispute.
LEMMA FailureStep ==
  ASSUME IInv, NEW j \in Jobs, state[j] \in Live,
         NEW terminalState \in Failed, NEW closedReason \in {"EXPIRED", "ABANDONED"},
         FailureFunds(j),
         state' = [state EXCEPT ![j] = terminalState],
         lease' = IF HasActiveLease(j) THEN [lease EXCEPT ![j].closed = closedReason]
                                       ELSE lease,
         dispute' \in [Jobs -> [status : {"NONE", "OPEN", "RESOLVED"}, due : Nat]],
         dispute'[j].status # "OPEN",
         \A i \in Jobs \ {j} : dispute'[i] = dispute[i],
         acceptance' \in [Jobs -> {"NONE", "APPROVED", "REJECTED"}],
         acceptance'[j] # "APPROVED",
         \A i \in Jobs \ {j} : acceptance'[i] = acceptance[i],
         UNCHANGED <<now, requester, parent, task, budget, deadline, reviewDue>>
  PROVE  IInv'
<1>1. TypeOK /\ JobRecords /\ ReceiptsMatch /\ ParentGate /\ ChildWorkProtected
      /\ NoStrandedFunds /\ MoneyFollowsVerdict /\ LeaseMatchesState
  BY DEF IInv
<1>2. state \in [Jobs -> JobState] /\ state' \in [Jobs -> JobState]
  BY <1>1 DEF TypeOK, Failed, JobState
<1>3. state'[j] = terminalState /\ \A i \in Jobs \ {j} : state'[i] = state[i]
  BY <1>2
<1>4. /\ lease' \in [Jobs -> [generation : Nat, worker : Participants \cup {None},
                             expires : Nat, closed : LeaseClosedReason]]
      /\ ~ HasActiveLease(j)'
      /\ \A i \in Jobs \ {j} : lease'[i] = lease[i]
      /\ lease'[j].generation = lease[j].generation
      /\ lease'[j].worker = lease[j].worker
  <2>1. lease \in [Jobs -> [generation : Nat, worker : Participants \cup {None},
                           expires : Nat, closed : LeaseClosedReason]]
    BY <1>1 DEF TypeOK
  <2>2. CASE HasActiveLease(j)
    <3>1. lease' = [lease EXCEPT ![j] = [lease[j] EXCEPT !.closed = closedReason]]
      BY <2>2
    <3>2. /\ lease'[j] = [lease[j] EXCEPT !.closed = closedReason]
          /\ \A i \in Jobs \ {j} : lease'[i] = lease[i]
      BY <2>1, <3>1
    <3>3. lease'[j] \in [generation : Nat, worker : Participants \cup {None},
                         expires : Nat, closed : LeaseClosedReason]
      <4>1. lease[j] \in [generation : Nat, worker : Participants \cup {None},
                          expires : Nat, closed : LeaseClosedReason]
        BY <2>1
      <4>2. closedReason \in LeaseClosedReason
        BY DEF LeaseClosedReason
      <4> QED BY <3>2, <4>1, <4>2
    <3>4. lease' \in [Jobs -> [generation : Nat, worker : Participants \cup {None},
                              expires : Nat, closed : LeaseClosedReason]]
      BY <2>1, <3>1, <3>2, <3>3
    <3> QED BY <2>1, <3>2, <3>4 DEF HasActiveLease
  <2>3. CASE ~ HasActiveLease(j)
    <3>1. lease' = lease
      BY <2>3
    <3> QED BY <2>1, <2>3, <3>1 DEF HasActiveLease
  <2> QED BY <2>2, <2>3
\* the funds, whichever kind of job it is
<1>5. /\ FundsType
      /\ \A c \in Children : bal'[ChildWork(c)] = IF c = j THEN 0 ELSE bal[ChildWork(c)]
      /\ \A r \in Roots : r = j => bal'[Available(r)] = 0
      /\ \A r \in Roots : state[r] \in Terminal => bal'[Available(r)] = bal[Available(r)]
      /\ \A k \in PayKeys : pay'[k] # pay[k] =>
           /\ ~ Reserved(k)
           /\ pay'[k].status = "PENDING"
           /\ \/ /\ j \in Roots
                 /\ k = TerminalKey(j)
                 /\ pay'[k].payee = requester[j]
              \/ /\ j \in Children
                 /\ k = ReturnKey(j)
                 /\ state[parent[j]] \in Failed
                 /\ pay'[k].payee = requester[parent[j]]
  <2>1. CASE j \in Roots
    <3>1. \A c \in Children : ChildWork(c) \in Accounts \ {Available(j), Refund(j)}
      BY AccountIds DEF ChildWork, Available, Refund
    <3>2. \A r \in Roots \ {j} : Available(r) \in Accounts \ {Available(j), Refund(j)}
      BY AccountIds DEF Available, Refund
    <3>3. j \notin Children /\ state[j] \notin Terminal
      BY <2>1, JobsAssumption DEF Live, Terminal
    <3> QED BY <2>1, <3>1, <3>2, <3>3, RootFailureEffect
  <2>2. CASE j \in Children
    <3>1. /\ j \notin Roots
          /\ parent[j] \in Roots
          /\ state[parent[j]] \in Terminal => state[parent[j]] \in Failed
      BY <1>1, <2>2, JobsAssumption
      DEF JobRecords, ParentGate, ChildrenOf, Live, Terminal, Failed
    <3>2. \A c \in Children \ {j} :
            ChildWork(c) \in Accounts \ {ChildWork(j), Available(parent[j]), Refund(parent[j])}
      BY AccountIds DEF ChildWork, Available, Refund
    <3>3. \A r \in Roots \ {parent[j]} :
            Available(r) \in Accounts \ {ChildWork(j), Available(parent[j]), Refund(parent[j])}
      BY AccountIds DEF ChildWork, Available, Refund
    <3> QED BY <2>2, <3>1, <3>2, <3>3, ChildFailureEffect
  <2> QED BY <2>1, <2>2 DEF Jobs
<1>6. TypeOK'
  BY <1>1, <1>2, <1>4, <1>5 DEF TypeOK, FundsType
<1>7. JobRecords'
  BY <1>1, <1>3, <1>4 DEF JobRecords, Failed, Live, Jobs
<1>8. ReceiptsMatch'
  BY <1>1, <1>5 DEF ReceiptsMatch, FundsType, Reserved, TypeOK
<1>9. ParentGate'
  BY <1>1, <1>3 DEF ParentGate, ChildrenOf, Failed, Terminal, Jobs
<1>10. ChildWorkProtected'
  BY <1>1, <1>3, <1>5 DEF ChildWorkProtected, Failed, Live, Jobs
<1>11. NoStrandedFunds'
  BY <1>1, <1>3, <1>5 DEF NoStrandedFunds, Jobs
<1>12. MoneyFollowsVerdict'
  <2>1. \A i \in Jobs : pay'[PayoutKey(i)] = pay[PayoutKey(i)]
    BY <1>5, PayIds DEF PayoutKey, TerminalKey, ReturnKey
  <2>2. \A i \in Jobs : /\ (state'[i] = "DONE") <=> (acceptance'[i] = "APPROVED")
                        /\ (state'[i] = "DISPUTED") <=> (dispute'[i].status = "OPEN")
    BY <1>1, <1>3 DEF MoneyFollowsVerdict, Failed
  <2>3. \A i \in Jobs : Reserved(PayoutKey(i))' =>
           state'[i] = "DONE" /\ pay'[PayoutKey(i)].payee = lease'[i].worker
    BY <1>1, <1>3, <1>4, <2>1 DEF MoneyFollowsVerdict, Reserved, Live
  <2>4. \A c \in Children :
          /\ state'[c] = "DONE" =>
               Reserved(PayoutKey(c))' /\ pay'[PayoutKey(c)].amount = budget'[c]
          /\ Reserved(ReturnKey(c))' =>
               /\ state'[c] \in Failed /\ state'[parent'[c]] \in Failed
               /\ pay'[ReturnKey(c)].payee = requester'[parent'[c]]
    <3> SUFFICES ASSUME NEW c \in Children
        PROVE /\ state'[c] = "DONE" =>
                   Reserved(PayoutKey(c))' /\ pay'[PayoutKey(c)].amount = budget'[c]
              /\ Reserved(ReturnKey(c))' =>
                   /\ state'[c] \in Failed /\ state'[parent[c]] \in Failed
                   /\ pay'[ReturnKey(c)].payee = requester[parent[c]]
      OBVIOUS
    <3>1. c \in Jobs
      BY DEF Jobs
    <3>2. state'[c] = "DONE" =>
            Reserved(PayoutKey(c))' /\ pay'[PayoutKey(c)].amount = budget'[c]
      BY <1>1, <1>3, <2>1, <3>1 DEF MoneyFollowsVerdict, Reserved, Failed
    <3>3. ASSUME Reserved(ReturnKey(c))'
          PROVE  /\ state'[c] \in Failed /\ state'[parent[c]] \in Failed
                 /\ pay'[ReturnKey(c)].payee = requester[parent[c]]
      <4>1. CASE pay'[ReturnKey(c)] = pay[ReturnKey(c)]
        <5>1. /\ state[c] \in Failed /\ state[parent[c]] \in Failed
              /\ pay[ReturnKey(c)].payee = requester[parent[c]]
          BY <1>1, <3>1, <3>3, <4>1 DEF MoneyFollowsVerdict, Reserved
        <5>2. parent[c] \in Jobs
          BY <1>1, <5>1 DEF JobRecords, Failed, Jobs
        <5> QED BY <1>3, <3>1, <4>1, <5>1, <5>2
      <4>2. CASE pay'[ReturnKey(c)] # pay[ReturnKey(c)]
        <5>1. /\ c = j
              /\ state[parent[c]] \in Failed
              /\ pay'[ReturnKey(c)].payee = requester[parent[c]]
          BY <1>5, <4>2, PayIds DEF TerminalKey, ReturnKey
        <5>2. parent[c] \in Jobs /\ parent[c] # j
          BY <1>1, <3>1, <5>1 DEF JobRecords, Jobs, Live, Failed
        <5> QED BY <1>3, <5>1, <5>2
      <4> QED BY <4>1, <4>2
    <3> QED BY <3>2, <3>3
  <2>5. \A r \in Roots : Reserved(TerminalKey(r))' =>
          state'[r] \in Failed /\ pay'[TerminalKey(r)].payee = requester'[r]
    <3> SUFFICES ASSUME NEW r \in Roots, Reserved(TerminalKey(r))'
                 PROVE  state'[r] \in Failed /\ pay'[TerminalKey(r)].payee = requester[r]
      OBVIOUS
    <3>1. r \in Jobs
      BY DEF Jobs
    <3>2. CASE pay'[TerminalKey(r)] = pay[TerminalKey(r)]
      BY <1>1, <1>3, <3>1, <3>2 DEF MoneyFollowsVerdict, Reserved
    <3>3. CASE pay'[TerminalKey(r)] # pay[TerminalKey(r)]
      BY <1>3, <1>5, <3>3, PayIds DEF TerminalKey, ReturnKey
    <3> QED BY <3>2, <3>3
  <2> QED BY <2>2, <2>3, <2>4, <2>5 DEF MoneyFollowsVerdict
<1>13. LeaseMatchesState'
  BY <1>1, <1>3, <1>4 DEF LeaseMatchesState, HasActiveLease, Failed
<1> QED BY <1>6, <1>7, <1>8, <1>9, <1>10, <1>11, <1>12, <1>13 DEF IInv

\* The end of a job by acceptance, whoever decides it.
LEMMA ApprovalStep ==
  ASSUME IInv, NEW j \in Jobs, state[j] \in {"SUBMITTED", "DISPUTED"},
         ApproveEffects(j),
         dispute' \in [Jobs -> [status : {"NONE", "OPEN", "RESOLVED"}, due : Nat]],
         dispute'[j].status # "OPEN",
         \A i \in Jobs \ {j} : dispute'[i] = dispute[i]
  PROVE  IInv'
<1>1. TypeOK /\ JobRecords /\ ReceiptsMatch /\ ParentGate /\ ChildWorkProtected
      /\ NoStrandedFunds /\ MoneyFollowsVerdict /\ LeaseMatchesState
  BY DEF IInv
<1>2. /\ state' = [state EXCEPT ![j] = "DONE"]
      /\ acceptance' = [acceptance EXCEPT ![j] = "APPROVED"]
      /\ PayoutFunds(j)
      /\ UNCHANGED <<now, requester, parent, task, budget, deadline, lease, reviewDue>>
  BY DEF ApproveEffects
<1>3. /\ state' \in [Jobs -> JobState]
      /\ state'[j] = "DONE" /\ \A i \in Jobs \ {j} : state'[i] = state[i]
      /\ acceptance' \in [Jobs -> {"NONE", "APPROVED", "REJECTED"}]
      /\ acceptance'[j] = "APPROVED"
      /\ \A i \in Jobs \ {j} : acceptance'[i] = acceptance[i]
  BY <1>1, <1>2 DEF TypeOK, JobState
<1>4. /\ FundsType
      /\ \A c \in Children : bal'[ChildWork(c)] = IF c = j THEN 0 ELSE bal[ChildWork(c)]
      /\ \A r \in Roots : bal'[Available(r)] = IF r = j THEN 0 ELSE bal[Available(r)]
      /\ \A k \in PayKeys \ {PayoutKey(j)} : pay'[k] = pay[k]
      /\ pay'[PayoutKey(j)] # pay[PayoutKey(j)] =>
           /\ ~ Reserved(PayoutKey(j))
           /\ pay'[PayoutKey(j)].status = "PENDING"
           /\ pay'[PayoutKey(j)].payee = lease[j].worker
      /\ j \in Children =>
           /\ pay'[PayoutKey(j)].status = "PENDING"
           /\ pay'[PayoutKey(j)].amount = budget[j]
  <2>1. CASE j \in Roots
    <3>1. \A c \in Children : c # j /\ ChildWork(c) \in Accounts \ {Available(j), ParentPayout(j)}
      BY <2>1, AccountIds, JobsAssumption DEF ChildWork, Available, ParentPayout
    <3>2. \A r \in Roots \ {j} : Available(r) \in Accounts \ {Available(j), ParentPayout(j)}
      BY AccountIds DEF Available, ParentPayout
    <3>3. bal[Available(j)] \in Nat
      BY <1>1, <2>1, AccountIds DEF TypeOK
    <3>4. /\ FundsType
          /\ bal'[Available(j)] = 0
          /\ \A a \in Accounts \ {Available(j), ParentPayout(j)} : bal'[a] = bal[a]
          /\ bal[Available(j)] > 0 =>
               /\ ~ Reserved(PayoutKey(j))
               /\ pay'[PayoutKey(j)] = [status |-> "PENDING", amount |-> bal[Available(j)],
                                        payee |-> lease[j].worker]
          /\ bal[Available(j)] = 0 => pay' = pay
          /\ \A k \in PayKeys \ {PayoutKey(j)} : pay'[k] = pay[k]
      BY <1>2, <2>1, PayoutEffect
    <3> QED BY <2>1, <3>1, <3>2, <3>3, <3>4, JobsAssumption
  <2>2. CASE j \in Children
    <3>1. j \notin Roots
      BY <2>2, JobsAssumption
    <3>2. \A c \in Children \ {j} : ChildWork(c) \in Accounts \ {ChildWork(j), ChildPayout(j)}
      BY AccountIds DEF ChildWork, ChildPayout
    <3>3. \A r \in Roots : r # j /\ Available(r) \in Accounts \ {ChildWork(j), ChildPayout(j)}
      BY <3>1, AccountIds DEF ChildWork, ChildPayout, Available
    <3>4. bal[ChildWork(j)] = budget[j] /\ budget[j] > 0
      BY <1>1, <2>2 DEF ChildWorkProtected, JobRecords, Live
    <3>5. /\ FundsType
          /\ bal'[ChildWork(j)] = 0
          /\ \A a \in Accounts \ {ChildWork(j), ChildPayout(j)} : bal'[a] = bal[a]
          /\ bal[ChildWork(j)] > 0 =>
               /\ ~ Reserved(PayoutKey(j))
               /\ pay'[PayoutKey(j)] = [status |-> "PENDING", amount |-> bal[ChildWork(j)],
                                        payee |-> lease[j].worker]
          /\ bal[ChildWork(j)] = 0 => pay' = pay
          /\ \A k \in PayKeys \ {PayoutKey(j)} : pay'[k] = pay[k]
      BY <1>2, <3>1, PayoutEffect
    <3> QED BY <2>2, <3>1, <3>2, <3>3, <3>4, <3>5
  <2> QED BY <2>1, <2>2 DEF Jobs
<1>5. TypeOK'
  BY <1>1, <1>2, <1>3, <1>4 DEF TypeOK, FundsType
<1>6. JobRecords'
  BY <1>1, <1>2, <1>3 DEF JobRecords, Jobs
<1>7. ReceiptsMatch'
  <2>1. \A k \in PayKeys : pay'[k] # pay[k] => ~ Reserved(k) /\ pay'[k].status = "PENDING"
    BY <1>4
  <2> QED BY <1>1, <1>4, <2>1 DEF ReceiptsMatch, FundsType, Reserved, TypeOK
<1>8. ParentGate'
  BY <1>1, <1>2, <1>3 DEF ParentGate, ChildrenOf, Terminal, Jobs
<1>9. ChildWorkProtected'
  BY <1>1, <1>2, <1>3, <1>4 DEF ChildWorkProtected, Live, Jobs
<1>10. NoStrandedFunds'
  BY <1>1, <1>3, <1>4 DEF NoStrandedFunds, Jobs
<1>11. MoneyFollowsVerdict'
  <2>1. \A i \in Jobs : /\ (state'[i] = "DONE") <=> (acceptance'[i] = "APPROVED")
                        /\ (state'[i] = "DISPUTED") <=> (dispute'[i].status = "OPEN")
    BY <1>1, <1>3 DEF MoneyFollowsVerdict
  <2>2. \A i \in Jobs \ {j} : pay'[PayoutKey(i)] = pay[PayoutKey(i)]
    BY <1>4, PayIds DEF PayoutKey
  <2>3. \A i \in Jobs : Reserved(PayoutKey(i))' =>
           state'[i] = "DONE" /\ pay'[PayoutKey(i)].payee = lease'[i].worker
    BY <1>1, <1>2, <1>3, <1>4, <2>2 DEF MoneyFollowsVerdict, Reserved
  <2>4. \A c \in Children : state'[c] = "DONE" =>
           Reserved(PayoutKey(c))' /\ pay'[PayoutKey(c)].amount = budget'[c]
    BY <1>1, <1>2, <1>3, <1>4, <2>2 DEF MoneyFollowsVerdict, Reserved, Jobs
  <2>5. \A c \in Children : Reserved(ReturnKey(c))' =>
           /\ state'[c] \in Failed /\ state'[parent'[c]] \in Failed
           /\ pay'[ReturnKey(c)].payee = requester'[parent'[c]]
    <3> SUFFICES ASSUME NEW c \in Children, Reserved(ReturnKey(c))'
                 PROVE  /\ state'[c] \in Failed /\ state'[parent[c]] \in Failed
                        /\ pay'[ReturnKey(c)].payee = requester[parent[c]]
      BY <1>2
    <3>1. c \in Jobs /\ pay'[ReturnKey(c)] = pay[ReturnKey(c)]
      BY <1>4, PayIds DEF PayoutKey, ReturnKey, Jobs
    <3>2. /\ state[c] \in Failed /\ state[parent[c]] \in Failed
          /\ pay[ReturnKey(c)].payee = requester[parent[c]]
      BY <1>1, <3>1 DEF MoneyFollowsVerdict, Reserved
    <3>3. parent[c] \in Jobs /\ c # j /\ parent[c] # j
      BY <1>1, <3>2 DEF JobRecords, Jobs, Failed
    <3> QED BY <1>3, <3>1, <3>2, <3>3
  <2>6. \A r \in Roots : Reserved(TerminalKey(r))' =>
          state'[r] \in Failed /\ pay'[TerminalKey(r)].payee = requester'[r]
    <3> SUFFICES ASSUME NEW r \in Roots, Reserved(TerminalKey(r))'
                 PROVE  state'[r] \in Failed /\ pay'[TerminalKey(r)].payee = requester[r]
      BY <1>2
    <3>1. r \in Jobs /\ pay'[TerminalKey(r)] = pay[TerminalKey(r)]
      BY <1>4, PayIds DEF PayoutKey, TerminalKey, Jobs
    <3>2. state[r] \in Failed /\ pay[TerminalKey(r)].payee = requester[r]
      BY <1>1, <3>1 DEF MoneyFollowsVerdict, Reserved
    <3> QED BY <1>3, <3>1, <3>2 DEF Failed
  <2> QED BY <2>1, <2>3, <2>4, <2>5, <2>6 DEF MoneyFollowsVerdict
<1>12. LeaseMatchesState'
  BY <1>1, <1>2, <1>3 DEF LeaseMatchesState, HasActiveLease
<1> QED BY <1>5, <1>6, <1>7, <1>8, <1>9, <1>10, <1>11, <1>12 DEF IInv

LEMMA CreateRootStep ==
  ASSUME IInv, NEW p \in Requesters, NEW r \in Roots, NEW b \in RootBudgets,
         NEW d \in RootDeadlines, CreateRoot(p, r, b, d)
  PROVE  IInv'
<1>1. TypeOK /\ JobRecords /\ ReceiptsMatch /\ ParentGate /\ ChildWorkProtected
      /\ NoStrandedFunds /\ MoneyFollowsVerdict /\ LeaseMatchesState
  BY DEF IInv
<1>2. /\ r \in Jobs /\ r \notin Children /\ state[r] = "NONE"
      /\ p \in Participants /\ b \in Nat /\ d \in Nat
  BY JobsAssumption, AmountsAssumption, TimingAssumption DEF CreateRoot, Jobs
<1>3. /\ UNCHANGED <<now, parent, task, stageVars, moneyVars, payVars>>
      /\ UNCHANGED <<lease, reviewDue, dispute, acceptance, bal, deposit, pay, receipt>>
  BY DEF CreateRoot, stageVars, moneyVars, payVars
<1>4. TypeOK'
  BY <1>1, <1>2, <1>3 DEF TypeOK, CreateRoot, JobState
<1>5. /\ state'[r] = "DRAFT" /\ \A i \in Jobs \ {r} : state'[i] = state[i]
      /\ \A i \in Jobs \ {r} : requester'[i] = requester[i]
      /\ \A i \in Jobs \ {r} : budget'[i] = budget[i]
      /\ \A i \in Jobs \ {r} : deadline'[i] = deadline[i]
  BY <1>1, <1>2 DEF TypeOK, CreateRoot
<1>6. JobRecords'
  BY <1>1, <1>2, <1>3, <1>5 DEF JobRecords, Jobs
<1>7. ReceiptsMatch'
  BY <1>1, <1>3 DEF ReceiptsMatch, Reserved
<1>8. ParentGate'
  BY <1>1, <1>2, <1>3, <1>5 DEF ParentGate, ChildrenOf, Jobs, Terminal
<1>9. ChildWorkProtected'
  BY <1>1, <1>2, <1>3, <1>5 DEF ChildWorkProtected, Jobs, Live
<1>10. NoStrandedFunds'
  BY <1>1, <1>3, <1>5 DEF NoStrandedFunds, Jobs, Terminal
<1>11. MoneyFollowsVerdict'
  BY <1>1, <1>2, <1>3, <1>5 DEF MoneyFollowsVerdict, Reserved, Failed, JobRecords, Jobs
<1>12. LeaseMatchesState'
  BY <1>1, <1>2, <1>3, <1>5 DEF LeaseMatchesState, HasActiveLease, JobRecords
<1> QED BY <1>4, <1>6, <1>7, <1>8, <1>9, <1>10, <1>11, <1>12 DEF IInv

LEMMA FundRootStep ==
  ASSUME IInv, NEW p \in Participants, NEW r \in Roots, FundRoot(p, r)
  PROVE  IInv'
<1>1. TypeOK /\ JobRecords /\ ReceiptsMatch /\ ParentGate /\ ChildWorkProtected
      /\ NoStrandedFunds /\ MoneyFollowsVerdict /\ LeaseMatchesState
  BY DEF IInv
<1>2. r \in Jobs /\ r \notin Children /\ state[r] = "DRAFT"
  BY JobsAssumption DEF FundRoot, Jobs
<1>3. UNCHANGED <<now, requester, parent, task, budget, deadline, lease, reviewDue,
                  dispute, acceptance, pay, receipt>>
  BY DEF FundRoot, stageVars, payVars
<1>4. /\ bal' \in [Accounts -> Nat]
      /\ \A a \in Accounts \ {Wallet(p), Available(r)} : bal'[a] = bal[a]
  <2>1. Wallet(p) \in Accounts /\ Available(r) \in Accounts /\ Wallet(p) # Available(r)
    BY AccountIds DEF Wallet, Available
  <2> QED BY <1>1, <1>2, <2>1, MoveType DEF FundRoot, TypeOK
<1>5. \A c \in Children : bal'[ChildWork(c)] = bal[ChildWork(c)]
  BY <1>4, AccountIds DEF ChildWork, Wallet, Available
<1>6. \A i \in Roots \ {r} : bal'[Available(i)] = bal[Available(i)]
  BY <1>4, AccountIds DEF Wallet, Available
<1>7. state'[r] = "OPEN" /\ \A i \in Jobs \ {r} : state'[i] = state[i]
  BY <1>1, <1>2 DEF TypeOK, FundRoot
<1>8. TypeOK'
  BY <1>1, <1>2, <1>3, <1>4 DEF TypeOK, FundRoot, JobState
<1>9. JobRecords'
  BY <1>1, <1>2, <1>3, <1>7 DEF JobRecords, Jobs
<1>10. ReceiptsMatch'
  BY <1>1, <1>3 DEF ReceiptsMatch, Reserved
<1>11. ParentGate'
  BY <1>1, <1>2, <1>3, <1>7 DEF ParentGate, ChildrenOf, Jobs, Terminal
<1>12. ChildWorkProtected'
  BY <1>1, <1>2, <1>3, <1>5, <1>7 DEF ChildWorkProtected, Jobs
<1>13. NoStrandedFunds'
  BY <1>1, <1>6, <1>7 DEF NoStrandedFunds, Jobs, Terminal
<1>14. MoneyFollowsVerdict'
  BY <1>1, <1>2, <1>3, <1>7 DEF MoneyFollowsVerdict, Reserved, Failed, JobRecords, Jobs
<1>15. LeaseMatchesState'
  BY <1>1, <1>2, <1>3, <1>7 DEF LeaseMatchesState, HasActiveLease
<1> QED BY <1>8, <1>9, <1>10, <1>11, <1>12, <1>13, <1>14, <1>15 DEF IInv

\* A step of the worker or of a reviewer that decides nothing: the job goes to
\* another state that is not terminal, and no money moves.
LEMMA UndecidedStep ==
  ASSUME IInv, TypeOK', NEW j \in Jobs, state[j] \in Live,
         state'[j] \in Live, \A i \in Jobs \ {j} : state'[i] = state[i],
         \A i \in Jobs \ {j} : lease'[i] = lease[i],
         \A i \in Jobs \ {j} : dispute'[i] = dispute[i],
         (state'[j] = "DISPUTED") <=> (dispute'[j].status = "OPEN"),
         (state'[j] = "LEASED") <=> HasActiveLease(j)',
         HasActiveLease(j)' => lease'[j].expires <= deadline[j],
         lease'[j].generation > 0 => lease'[j].worker # requester[j],
         state'[j] = "OPEN" => lease'[j].generation = 0,
         j \in Roots /\ state'[j] \in {"SUBMITTED", "DISPUTED"} =>
           \A c \in ChildrenOf(j) : state[c] \in Terminal,
         UNCHANGED <<requester, parent, budget, deadline, acceptance, bal, pay, receipt>>
  PROVE  IInv'
<1>1. TypeOK /\ JobRecords /\ ReceiptsMatch /\ ParentGate /\ ChildWorkProtected
      /\ NoStrandedFunds /\ MoneyFollowsVerdict /\ LeaseMatchesState
  BY DEF IInv
<1>2. JobRecords'
  BY <1>1 DEF JobRecords, Jobs, Live
<1>3. ReceiptsMatch'
  BY <1>1 DEF ReceiptsMatch, Reserved
<1>4. ParentGate'
  BY <1>1, JobsAssumption DEF ParentGate, ChildrenOf, Jobs, Live, Terminal
<1>5. ChildWorkProtected'
  BY <1>1 DEF ChildWorkProtected, Jobs
<1>6. NoStrandedFunds'
  BY <1>1 DEF NoStrandedFunds, Jobs, Live, Terminal
<1>7. MoneyFollowsVerdict'
  <2>1. \A i \in Jobs : (state'[i] = "DONE" <=> state[i] = "DONE")
                        /\ (state'[i] \in Failed <=> state[i] \in Failed)
    BY DEF Live, Failed
  <2>2. \A i \in Jobs : Reserved(PayoutKey(i)) => i # j
    BY <1>1 DEF MoneyFollowsVerdict, Live
  <2>3. \A c \in Children : state[c] \in Failed => parent[c] \in Jobs
    BY <1>1 DEF JobRecords, Jobs, Failed
  <2> QED BY <1>1, <2>1, <2>2, <2>3 DEF MoneyFollowsVerdict, Reserved, Jobs
<1>8. LeaseMatchesState'
  BY <1>1 DEF LeaseMatchesState, HasActiveLease
<1> QED BY <1>2, <1>3, <1>4, <1>5, <1>6, <1>7, <1>8 DEF IInv

LEMMA ClaimStep ==
  ASSUME IInv, NEW p \in Participants, NEW j \in Jobs, Claim(p, j)
  PROVE  IInv'
<1>1. TypeOK /\ LeaseMatchesState /\ MoneyFollowsVerdict
  BY DEF IInv
<1>2. UNCHANGED <<now, requester, parent, task, budget, deadline, reviewDue,
                  dispute, acceptance, bal, deposit, pay, receipt>>
  BY DEF Claim, moneyVars, payVars
<1>3. MinOf(now + LeaseTime, deadline[j]) \in Nat
      /\ MinOf(now + LeaseTime, deadline[j]) <= deadline[j]
  BY <1>1, TimingAssumption DEF MinOf, TypeOK
<1>4. /\ lease'[j] = [generation |-> lease[j].generation + 1, worker |-> p,
                      expires |-> MinOf(now + LeaseTime, deadline[j]), closed |-> "NONE"]
      /\ \A i \in Jobs \ {j} : lease'[i] = lease[i]
      /\ lease[j].generation \in Nat
  BY <1>1 DEF Claim, TypeOK
<1>5. lease' \in [Jobs -> [generation : Nat, worker : Participants \cup {None},
                           expires : Nat, closed : LeaseClosedReason]]
  <2>1. lease'[j] \in [generation : Nat, worker : Participants \cup {None},
                       expires : Nat, closed : LeaseClosedReason]
    BY <1>3, <1>4 DEF LeaseClosedReason
  <2> QED BY <1>1, <1>4, <2>1 DEF TypeOK, Claim
<1>6. /\ state[j] = "OPEN" /\ state'[j] = "LEASED"
      /\ \A i \in Jobs \ {j} : state'[i] = state[i]
  BY <1>1 DEF Claim, TypeOK
<1>7. TypeOK'
  BY <1>1, <1>2, <1>5 DEF TypeOK, Claim, JobState
<1>8. dispute[j].status # "OPEN"
  BY <1>1, <1>6 DEF MoneyFollowsVerdict
<1>9. HasActiveLease(j)' /\ p # requester[j]
  BY <1>4 DEF HasActiveLease, Claim
<1> QED BY <1>2, <1>3, <1>4, <1>6, <1>7, <1>8, <1>9, UndecidedStep DEF Live

LEMMA HeartbeatStep ==
  ASSUME IInv, NEW p \in Participants, NEW j \in Jobs, Heartbeat(p, j)
  PROVE  IInv'
<1>1. TypeOK /\ LeaseMatchesState /\ MoneyFollowsVerdict
  BY DEF IInv
<1>2. UNCHANGED <<now, state, requester, parent, task, budget, deadline, reviewDue,
                  dispute, acceptance, bal, deposit, pay, receipt>>
  BY DEF Heartbeat, jobVars, moneyVars, payVars
<1>3. MinOf(now + LeaseTime, deadline[j]) \in Nat
      /\ MinOf(now + LeaseTime, deadline[j]) <= deadline[j]
  BY <1>1, TimingAssumption DEF MinOf, TypeOK
<1>4. /\ lease'[j] = [lease[j] EXCEPT !.expires = MinOf(now + LeaseTime, deadline[j])]
      /\ \A i \in Jobs \ {j} : lease'[i] = lease[i]
      /\ lease[j] \in [generation : Nat, worker : Participants \cup {None},
                       expires : Nat, closed : LeaseClosedReason]
  BY <1>1 DEF Heartbeat, TypeOK
<1>5. lease' \in [Jobs -> [generation : Nat, worker : Participants \cup {None},
                           expires : Nat, closed : LeaseClosedReason]]
  <2>1. lease'[j] \in [generation : Nat, worker : Participants \cup {None},
                       expires : Nat, closed : LeaseClosedReason]
    BY <1>3, <1>4
  <2> QED BY <1>1, <1>4, <2>1 DEF TypeOK, Heartbeat
<1>6. state[j] = "LEASED" /\ HasActiveLease(j)
  BY <1>1 DEF Heartbeat, RequireActiveLease, LeaseMatchesState
<1>7. TypeOK'
  BY <1>1, <1>2, <1>5 DEF TypeOK
<1>8. dispute[j].status # "OPEN"
  BY <1>1, <1>6 DEF MoneyFollowsVerdict
<1>9. /\ HasActiveLease(j)' /\ lease'[j].worker # requester[j]
      /\ lease'[j].expires = MinOf(now + LeaseTime, deadline[j])
  BY <1>1, <1>4, <1>6 DEF HasActiveLease, LeaseMatchesState
<1> QED BY <1>2, <1>3, <1>4, <1>6, <1>7, <1>8, <1>9, UndecidedStep DEF Live

LEMMA SubmitStep ==
  ASSUME IInv, NEW p \in Participants, NEW j \in Jobs, Submit(p, j)
  PROVE  IInv'
<1>1. TypeOK /\ LeaseMatchesState /\ MoneyFollowsVerdict
  BY DEF IInv
<1>2. UNCHANGED <<now, requester, parent, task, budget, deadline, dispute, acceptance,
                  bal, deposit, pay, receipt>>
  BY DEF Submit, moneyVars, payVars
<1>3. /\ lease'[j] = [lease[j] EXCEPT !.closed = "SUBMITTED"]
      /\ \A i \in Jobs \ {j} : lease'[i] = lease[i]
      /\ lease[j] \in [generation : Nat, worker : Participants \cup {None},
                       expires : Nat, closed : LeaseClosedReason]
  BY <1>1 DEF Submit, TypeOK
<1>4. lease' \in [Jobs -> [generation : Nat, worker : Participants \cup {None},
                           expires : Nat, closed : LeaseClosedReason]]
  <2>1. lease'[j] \in [generation : Nat, worker : Participants \cup {None},
                       expires : Nat, closed : LeaseClosedReason]
    BY <1>3 DEF LeaseClosedReason
  <2> QED BY <1>1, <1>3, <2>1 DEF TypeOK, Submit
<1>5. /\ state[j] = "LEASED" /\ state'[j] = "SUBMITTED"
      /\ \A i \in Jobs \ {j} : state'[i] = state[i]
  BY <1>1 DEF Submit, TypeOK
<1>6. TypeOK'
  BY <1>1, <1>2, <1>4, TimingAssumption DEF TypeOK, Submit, JobState
<1>7. dispute[j].status # "OPEN"
  BY <1>1, <1>5 DEF MoneyFollowsVerdict
<1>8. /\ ~ HasActiveLease(j)'
      /\ lease'[j].generation > 0 => lease'[j].worker # requester[j]
  BY <1>1, <1>3 DEF HasActiveLease, LeaseMatchesState
<1>9. j \in Roots => \A c \in ChildrenOf(j) : state[c] \in Terminal
  BY DEF Submit
<1> QED BY <1>2, <1>3, <1>5, <1>6, <1>7, <1>8, <1>9, UndecidedStep DEF Live

LEMMA DisputeStep ==
  ASSUME IInv, NEW p \in Participants, NEW j \in Jobs, Dispute(p, j)
  PROVE  IInv'
<1>1. TypeOK /\ LeaseMatchesState /\ MoneyFollowsVerdict /\ ParentGate
  BY DEF IInv
<1>2. UNCHANGED <<now, requester, parent, task, budget, deadline, lease, reviewDue,
                  acceptance, bal, deposit, pay, receipt>>
  BY DEF Dispute, moneyVars, payVars
<1>3. /\ state[j] = "SUBMITTED" /\ state'[j] = "DISPUTED"
      /\ \A i \in Jobs \ {j} : state'[i] = state[i]
      /\ dispute'[j] = [status |-> "OPEN", due |-> now + DisputeTime]
      /\ \A i \in Jobs \ {j} : dispute'[i] = dispute[i]
  BY <1>1 DEF Dispute, TypeOK
<1>4. TypeOK'
  <2>1. now + DisputeTime \in Nat
    BY <1>1, TimingAssumption DEF TypeOK
  <2>2. dispute' \in [Jobs -> [status : {"NONE", "OPEN", "RESOLVED"}, due : Nat]]
    BY <1>1, <2>1 DEF Dispute, TypeOK
  <2> QED BY <1>1, <1>2, <2>2 DEF TypeOK, Dispute, JobState
<1>5. /\ ~ HasActiveLease(j) /\ ~ HasActiveLease(j)'
      /\ lease[j].generation > 0 => lease[j].worker # requester[j]
  BY <1>1, <1>2, <1>3 DEF LeaseMatchesState, HasActiveLease
<1>6. j \in Roots => \A c \in ChildrenOf(j) : state[c] \in Terminal
  BY <1>1, <1>3 DEF ParentGate
<1> QED BY <1>2, <1>3, <1>4, <1>5, <1>6, UndecidedStep DEF Live

LEMMA CreateChildStep ==
  ASSUME IInv, NEW p \in Participants, NEW r \in Roots, NEW c \in Children,
         NEW t \in Tasks, NEW b \in ChildBudgets, NEW d \in ChildDeadlines,
         CreateChild(p, r, c, t, b, d)
  PROVE  IInv'
<1>1. TypeOK /\ JobRecords /\ ReceiptsMatch /\ ParentGate /\ ChildWorkProtected
      /\ NoStrandedFunds /\ MoneyFollowsVerdict /\ LeaseMatchesState
  BY DEF IInv
<1>2. /\ r \in Jobs /\ c \in Jobs /\ c \notin Roots
      /\ b \in Nat /\ b > 0 /\ d \in Nat
      /\ state[c] = "NONE" /\ state[r] = "LEASED"
  BY JobsAssumption, AmountsAssumption, TimingAssumption DEF CreateChild, Jobs
<1>3. UNCHANGED <<now, lease, reviewDue, dispute, acceptance, deposit, pay, receipt>>
  BY DEF CreateChild, stageVars, payVars
<1>4. /\ state'[c] = "OPEN" /\ \A i \in Jobs \ {c} : state'[i] = state[i]
      /\ \A i \in Jobs \ {c} : requester'[i] = requester[i]
      /\ parent'[c] = r /\ \A i \in Children \ {c} : parent'[i] = parent[i]
      /\ budget'[c] = b /\ \A i \in Jobs \ {c} : budget'[i] = budget[i]
      /\ \A i \in Jobs \ {c} : deadline'[i] = deadline[i]
  BY <1>1, <1>2 DEF TypeOK, CreateChild
<1>5. /\ bal' \in [Accounts -> Nat]
      /\ bal'[ChildWork(c)] = bal[ChildWork(c)] + b
      /\ \A a \in Accounts \ {Available(r), ChildWork(c)} : bal'[a] = bal[a]
  <2>1. /\ Available(r) \in Accounts /\ ChildWork(c) \in Accounts
        /\ Available(r) # ChildWork(c)
    BY AccountIds DEF Available, ChildWork
  <2>2. Move(Available(r), ChildWork(c), b)
    BY DEF CreateChild
  <2> QED BY <1>1, <1>2, <2>1, <2>2, MoveType DEF TypeOK
<1>6. \A e \in Children \ {c} : bal'[ChildWork(e)] = bal[ChildWork(e)]
  BY <1>5, AccountIds DEF ChildWork, Available
<1>7. \A i \in Roots \ {r} : bal'[Available(i)] = bal[Available(i)]
  BY <1>5, AccountIds DEF ChildWork, Available
<1>8. TypeOK'
  BY <1>1, <1>2, <1>3, <1>5 DEF TypeOK, CreateChild, JobState
<1>9. JobRecords'
  BY <1>1, <1>2, <1>3, <1>4 DEF JobRecords, Jobs
<1>10. ReceiptsMatch'
  BY <1>1, <1>3 DEF ReceiptsMatch, Reserved
<1>11. ParentGate'
  BY <1>1, <1>2, <1>4 DEF ParentGate, ChildrenOf, Jobs, Terminal
<1>12. ChildWorkProtected'
  BY <1>1, <1>2, <1>4, <1>5, <1>6 DEF ChildWorkProtected, Jobs, Live
<1>13. NoStrandedFunds'
  BY <1>1, <1>2, <1>4, <1>7 DEF NoStrandedFunds, Jobs, Terminal
<1>14. MoneyFollowsVerdict'
  BY <1>1, <1>2, <1>3, <1>4 DEF MoneyFollowsVerdict, Reserved, Failed, JobRecords, Jobs
<1>15. LeaseMatchesState'
  BY <1>1, <1>2, <1>3, <1>4 DEF LeaseMatchesState, HasActiveLease, JobRecords
<1> QED BY <1>8, <1>9, <1>10, <1>11, <1>12, <1>13, <1>14, <1>15 DEF IInv

\* Settling a payment touches no bucket but the one it was reserved in.
LEMMA SettlementStep ==
  ASSUME IInv, TypeOK', ReceiptsMatch',
         \A c \in Children : bal'[ChildWork(c)] = bal[ChildWork(c)],
         \A r \in Roots : bal'[Available(r)] = bal[Available(r)],
         \A q \in PayKeys : /\ Reserved(q)' <=> Reserved(q)
                            /\ pay'[q].amount = pay[q].amount
                            /\ pay'[q].payee = pay[q].payee,
         UNCHANGED <<now, jobVars, stageVars>>
  PROVE  IInv'
<1>1. TypeOK /\ JobRecords /\ ReceiptsMatch /\ ParentGate /\ ChildWorkProtected
      /\ NoStrandedFunds /\ MoneyFollowsVerdict /\ LeaseMatchesState
  BY DEF IInv
<1>2. UNCHANGED <<state, requester, parent, task, budget, deadline,
                  lease, reviewDue, dispute, acceptance>>
  BY DEF jobVars, stageVars
<1>3. JobRecords' /\ ParentGate'
  BY <1>1, <1>2 DEF JobRecords, ParentGate, ChildrenOf
<1>4. ChildWorkProtected' /\ NoStrandedFunds'
  BY <1>1, <1>2 DEF ChildWorkProtected, NoStrandedFunds
<1>5. MoneyFollowsVerdict'
  BY <1>1, <1>2, PayIds DEF MoneyFollowsVerdict
<1>6. LeaseMatchesState'
  BY <1>1, <1>2 DEF LeaseMatchesState, HasActiveLease
<1> QED BY <1>3, <1>4, <1>5, <1>6 DEF IInv

\* A reserved payment is drawn from a payout or refund bucket of its root.
LEMMA SourceIsLocked ==
  ASSUME IInv, NEW k \in PayKeys, Reserved(k)
  PROVE  /\ Source(k) \in Accounts
         /\ \A c \in Children : Source(k) # ChildWork(c)
         /\ \A r \in Roots : Source(k) # Available(r)
         /\ \A p \in Participants : Source(k) # Wallet(p)
<1>1. CASE k \in {"payout"} \X Roots
  <2>1. PICK r \in Roots : k = <<"payout", r>>
    BY <1>1
  <2>2. Source(k) = ParentPayout(r)
    BY <2>1, JobsAssumption DEF Source
  <2>3. Source(k) \in Accounts
    BY <2>2, AccountIds
  <2> QED BY <2>2, <2>3 DEF ParentPayout, ChildWork, Available, Wallet
<1>2. CASE k \in {"payout"} \X Children
  <2>1. PICK c \in Children : k = <<"payout", c>>
    BY <1>2
  <2>2. Source(k) = ChildPayout(c)
    BY <2>1, JobsAssumption DEF Source
  <2>3. Source(k) \in Accounts
    BY <2>2, AccountIds
  <2> QED BY <2>2, <2>3 DEF ChildPayout, ChildWork, Available, Wallet
<1>3. CASE k \in {"terminal"} \X Roots
  <2>1. PICK r \in Roots : k = <<"terminal", r>>
    BY <1>3
  <2>2. Source(k) = Refund(r)
    BY <2>1 DEF Source, RootOf
  <2>3. Source(k) \in Accounts
    BY <2>2, AccountIds
  <2> QED BY <2>2, <2>3 DEF Refund, ChildWork, Available, Wallet
<1>4. CASE k \in {"child-return"} \X Children
  <2>1. PICK c \in Children : k = <<"child-return", c>>
    BY <1>4
  <2>2. c \in Jobs /\ state[c] \in Failed
    BY <2>1 DEF IInv, MoneyFollowsVerdict, ReturnKey, Jobs
  <2>3. parent[c] \in Roots /\ c \notin Roots
    BY <2>2, JobsAssumption DEF IInv, JobRecords, Failed
  <2>4. Source(k) = Refund(parent[c])
    BY <2>1, <2>3 DEF Source, RootOf
  <2>5. Source(k) \in Accounts
    BY <2>3, <2>4, AccountIds
  <2> QED BY <2>4, <2>5 DEF Refund, ChildWork, Available, Wallet
<1> QED BY <1>1, <1>2, <1>3, <1>4 DEF PayKeys, Jobs

LEMMA TransferStep ==
  ASSUME IInv, NEW k \in PayKeys, TransferPayment(k)
  PROVE  IInv'
<1> DEFINE w == Wallet(pay[k].payee)
<1>1. TypeOK /\ ReceiptsMatch
  BY DEF IInv
<1>2. /\ Reserved(k) /\ receipt[k] = 0
      /\ pay[k].payee \in Participants
      /\ pay[k].amount \in Nat
      /\ pay[k].status # "SUCCEEDED"
  BY <1>1, JobsAssumption DEF TransferPayment, Reserved, TypeOK
<1>3. /\ Source(k) \in Accounts /\ w \in Accounts /\ Source(k) # w
      /\ \A c \in Children : ChildWork(c) \in Accounts \ {Source(k), w}
      /\ \A r \in Roots : Available(r) \in Accounts \ {Source(k), w}
  BY <1>2, SourceIsLocked, AccountIds DEF ChildWork, Available, Wallet
<1>4. /\ bal' \in [Accounts -> Nat]
      /\ \A a \in Accounts \ {Source(k), w} : bal'[a] = bal[a]
  BY <1>1, <1>2, <1>3, MoveType DEF TransferPayment, TypeOK
<1>5. /\ UNCHANGED <<now, jobVars, stageVars, deposit, pay>>
      /\ UNCHANGED <<state, requester, parent, task, budget, deadline,
                     lease, reviewDue, dispute, acceptance>>
      /\ receipt' = [receipt EXCEPT ![k] = pay[k].amount]
  BY DEF TransferPayment, jobVars, stageVars
<1>6. TypeOK'
  BY <1>1, <1>2, <1>4, <1>5 DEF TypeOK
<1>7. ReceiptsMatch'
  BY <1>1, <1>2, <1>5 DEF ReceiptsMatch, Reserved, TypeOK
<1> QED BY <1>3, <1>4, <1>5, <1>6, <1>7, SettlementStep DEF Reserved

LEMMA MarkStep ==
  ASSUME IInv, NEW k \in PayKeys, MarkSucceeded(k) \/ PaymentFails(k)
  PROVE  IInv'
<1>1. TypeOK /\ ReceiptsMatch
  BY DEF IInv
<1>2. PICK s \in {"SUCCEEDED", "RETRYABLE"} :
        /\ pay' = [pay EXCEPT ![k].status = s]
        /\ s = "SUCCEEDED" => receipt[k] > 0
  BY DEF MarkSucceeded, PaymentFails
<1>3. /\ Reserved(k)
      /\ UNCHANGED <<now, jobVars, stageVars, moneyVars, receipt>>
      /\ UNCHANGED <<state, requester, parent, task, budget, deadline,
                     lease, reviewDue, dispute, acceptance, bal, deposit>>
  BY DEF MarkSucceeded, PaymentFails, Reserved, jobVars, stageVars, moneyVars
<1>4. pay[k] \in [status : PaymentStatus, amount : Nat, payee : Participants \cup {None}]
  BY <1>1 DEF TypeOK
<1>5. /\ pay'[k] = [pay[k] EXCEPT !.status = s]
      /\ \A q \in PayKeys \ {k} : pay'[q] = pay[q]
  BY <1>1, <1>2 DEF TypeOK
<1>6. /\ pay'[k].status = s
      /\ pay'[k].amount = pay[k].amount
      /\ pay'[k].payee = pay[k].payee
      /\ pay'[k] \in [status : PaymentStatus, amount : Nat, payee : Participants \cup {None}]
  BY <1>4, <1>5 DEF PaymentStatus
<1>7. pay' \in [PayKeys -> [status : PaymentStatus, amount : Nat,
                            payee : Participants \cup {None}]]
  BY <1>1, <1>2, <1>5, <1>6 DEF TypeOK
<1>8. TypeOK'
  BY <1>1, <1>3, <1>7 DEF TypeOK
<1>9. \A q \in PayKeys : /\ Reserved(q)' <=> Reserved(q)
                         /\ pay'[q].amount = pay[q].amount
                         /\ pay'[q].payee = pay[q].payee
  BY <1>3, <1>5, <1>6 DEF Reserved
<1>10. ReceiptsMatch'
  <2>1. receipt[k] \in Nat
    BY <1>1 DEF TypeOK
  <2> QED BY <1>1, <1>2, <1>3, <1>5, <1>6, <1>9, <2>1 DEF ReceiptsMatch
<1> QED BY <1>3, <1>8, <1>9, <1>10, SettlementStep

\* Time passes, or nothing happens.
LEMMA FrameStep ==
  ASSUME IInv, now' \in Nat, UNCHANGED <<jobVars, stageVars, moneyVars, payVars>>
  PROVE  IInv'
<1>1. TypeOK /\ ReceiptsMatch
  BY DEF IInv
<1>2. UNCHANGED <<state, requester, parent, task, budget, deadline, lease, reviewDue,
                  dispute, acceptance, bal, deposit, pay, receipt>>
  BY DEF jobVars, stageVars, moneyVars, payVars
<1>3. TypeOK'
  BY <1>1, <1>2 DEF TypeOK
<1>4. JobRecords' /\ ParentGate' /\ ReceiptsMatch'
  BY <1>2 DEF IInv, JobRecords, ParentGate, ChildrenOf, ReceiptsMatch, Reserved
<1>5. ChildWorkProtected' /\ NoStrandedFunds'
  BY <1>2 DEF IInv, ChildWorkProtected, NoStrandedFunds
<1>6. MoneyFollowsVerdict'
  BY <1>2 DEF IInv, MoneyFollowsVerdict, Reserved
<1>7. LeaseMatchesState'
  BY <1>2 DEF IInv, LeaseMatchesState, HasActiveLease
<1> QED BY <1>3, <1>4, <1>5, <1>6, <1>7 DEF IInv

LEMMA TickStepKeeps ==
  ASSUME IInv, TickStep
  PROVE  IInv'
<1>1. TypeOK /\ MoneyFollowsVerdict /\ LeaseMatchesState /\ NoStrandedFunds
  BY DEF IInv
<1>2. ASSUME NEW j \in Jobs, Expire(j) PROVE IInv'
  <2>1. state[j] \in {"OPEN", "LEASED"}
    BY <1>2 DEF Expire, ExpiryDue
  <2>2. /\ FailureFunds(j)
        /\ state' = [state EXCEPT ![j] = "EXPIRED"]
        /\ lease' = IF HasActiveLease(j) THEN [lease EXCEPT ![j].closed = "EXPIRED"]
                                         ELSE lease
        /\ UNCHANGED <<now, requester, parent, task, budget, deadline, reviewDue,
                       dispute, acceptance>>
    BY <1>2 DEF Expire, FailJob
  <2>3. dispute[j].status # "OPEN" /\ acceptance[j] # "APPROVED"
    BY <1>1, <2>1 DEF MoneyFollowsVerdict
  <2> QED BY <1>1, <2>1, <2>2, <2>3, FailureStep DEF TypeOK, Live, Failed
<1>3. ASSUME NEW j \in Jobs, AutoApprove(j) PROVE IInv'
  BY <1>1, <1>3, ApprovalStep DEF AutoApprove, TypeOK
<1>4. ASSUME NEW j \in Jobs, ResolveDispute(j)
      PROVE  /\ dispute' \in [Jobs -> [status : {"NONE", "OPEN", "RESOLVED"}, due : Nat]]
             /\ dispute'[j].status # "OPEN"
             /\ \A i \in Jobs \ {j} : dispute'[i] = dispute[i]
  <2>1. dispute[j] \in [status : {"NONE", "OPEN", "RESOLVED"}, due : Nat]
    BY <1>1 DEF TypeOK
  <2>2. /\ dispute'[j] = [dispute[j] EXCEPT !.status = "RESOLVED"]
        /\ \A i \in Jobs \ {j} : dispute'[i] = dispute[i]
    BY <1>1, <1>4 DEF ResolveDispute, TypeOK
  <2>3. /\ dispute'[j] \in [status : {"NONE", "OPEN", "RESOLVED"}, due : Nat]
        /\ dispute'[j].status = "RESOLVED"
    BY <2>1, <2>2
  <2> QED BY <1>1, <1>4, <2>2, <2>3 DEF ResolveDispute, TypeOK
<1>5. ASSUME NEW j \in Jobs, ResolveApprove(j) \/ ResolveUnresponsive(j) PROVE IInv'
  BY <1>4, <1>5, ApprovalStep DEF ResolveApprove, ResolveUnresponsive
<1>6. ASSUME NEW j \in Jobs, ResolveReject(j) PROVE IInv'
  <2>1. /\ state[j] = "DISPUTED" /\ FailureFunds(j)
        /\ state' = [state EXCEPT ![j] = "FAILED"]
        /\ acceptance' = [acceptance EXCEPT ![j] = "REJECTED"]
        /\ ResolveDispute(j)
        /\ UNCHANGED <<now, requester, parent, task, budget, deadline, lease, reviewDue>>
    BY <1>6 DEF ResolveReject
  <2>2. ~ HasActiveLease(j)
    BY <1>1, <2>1 DEF LeaseMatchesState
  <2>3. /\ acceptance' \in [Jobs -> {"NONE", "APPROVED", "REJECTED"}]
        /\ acceptance'[j] = "REJECTED"
        /\ \A i \in Jobs \ {j} : acceptance'[i] = acceptance[i]
    BY <1>1, <2>1 DEF TypeOK
  <2> QED BY <1>4, <2>1, <2>2, <2>3, FailureStep DEF Live, Failed
<1>7. ASSUME NEW r \in Roots, ReserveRefundable(r) PROVE IInv'
  <2>1. bal[Available(r)] = 0
    BY <1>1, <1>7 DEF ReserveRefundable, NoStrandedFunds, Failed, Terminal
  <2>2. UNCHANGED <<bal, pay>>
    BY <1>7, <2>1 DEF ReserveRefundable, RootFailureFunds
  <2> QED BY <1>1, <1>7, <2>2, FrameStep
      DEF ReserveRefundable, TypeOK, moneyVars, payVars
<1> QED BY <1>2, <1>3, <1>5, <1>6, <1>7 DEF TickStep

LEMMA NextKeepsIInv == IInv /\ [Next]_vars => IInv'
<1> SUFFICES ASSUME IInv, [Next]_vars PROVE IInv' OBVIOUS
<1>1. TypeOK /\ MoneyFollowsVerdict /\ LeaseMatchesState
  BY DEF IInv
<1>2. CASE PublishStep
  BY <1>2, CreateRootStep, FundRootStep DEF PublishStep
<1>3. CASE WorkStep
  <2>1. ASSUME NEW p \in Participants, NEW j \in Jobs, Abandon(p, j) PROVE IInv'
    <3>1. /\ state[j] = "LEASED" /\ FailureFunds(j)
          /\ state' = [state EXCEPT ![j] = "FAILED"]
          /\ lease' = IF HasActiveLease(j) THEN [lease EXCEPT ![j].closed = "ABANDONED"]
                                           ELSE lease
          /\ UNCHANGED <<now, requester, parent, task, budget, deadline, reviewDue,
                         dispute, acceptance>>
      BY <2>1 DEF Abandon, FailJob
    <3>2. dispute[j].status # "OPEN" /\ acceptance[j] # "APPROVED"
      BY <1>1, <3>1 DEF MoneyFollowsVerdict
    <3> QED BY <1>1, <3>1, <3>2, FailureStep DEF TypeOK, Live, Failed
  <2> QED BY <1>3, <2>1, ClaimStep, HeartbeatStep, SubmitStep, CreateChildStep DEF WorkStep
<1>4. CASE ReviewStep
  <2>1. ASSUME NEW p \in Participants, NEW j \in Jobs, Approve(p, j) \/ DisputeTooLate(p, j)
        PROVE  IInv'
    <3>1. state[j] = "SUBMITTED" /\ ApproveEffects(j) /\ UNCHANGED dispute
      BY <2>1 DEF Approve, DisputeTooLate
    <3>2. dispute[j].status # "OPEN"
      BY <1>1, <3>1 DEF MoneyFollowsVerdict
    <3> QED BY <1>1, <3>1, <3>2, ApprovalStep DEF TypeOK
  <2> QED BY <1>4, <2>1, DisputeStep DEF ReviewStep
<1>5. CASE TickStep
  BY <1>5, TickStepKeeps
<1>6. CASE PaymentStep
  BY <1>6, TransferStep, MarkStep DEF PaymentStep
<1>7. CASE AdvanceTime
  BY <1>1, <1>7, FrameStep DEF AdvanceTime, TypeOK
<1>8. CASE UNCHANGED vars
  BY <1>1, <1>8, FrameStep DEF vars, jobVars, stageVars, moneyVars, payVars, TypeOK
<1> QED BY <1>2, <1>3, <1>4, <1>5, <1>6, <1>7, <1>8 DEF Next

LEMMA Invariance == Spec => []IInv
BY InitIInv, NextKeepsIInv, PTL DEF Spec

-----------------------------------------------------------------------------
(***************************************************************************)
(* The invariants.                                                         *)
(***************************************************************************)

\* Every table keeps well-formed rows; no balance is ever negative.
THEOREM TypeCorrect == Spec => []TypeOK
BY Invariance, PTL DEF IInv

\* submit's gate (service.py) is enough to keep a parent's review and its
\* children's work apart for ever after.
THEOREM ParentGateHolds == Spec => []ParentGate
BY Invariance, PTL DEF IInv

\* A live child's reservation is its whole budget, whatever its parent does.
THEOREM ChildWorkIsProtected == Spec => []ChildWorkProtected
BY Invariance, PTL DEF IInv

\* A finished root has nothing left in available, late returns included.
THEOREM NothingStranded == Spec => []NoStrandedFunds
BY Invariance, PTL DEF IInv

\* Payments are reserved for the verdict, and the verdict's party, only.
THEOREM MoneyFollows == Spec => []MoneyFollowsVerdict
BY Invariance, PTL DEF IInv

\* Lease rows and job states agree.
THEOREM LeasesMatch == Spec => []LeaseMatchesState
BY Invariance, PTL DEF IInv

-----------------------------------------------------------------------------
(***************************************************************************)
(* The action properties.                                                  *)
(***************************************************************************)

\* How one step may change the row of a job.
LEMMA JobTransitions ==
  ASSUME IInv, Next, NEW i \in Jobs
  PROVE  /\ state[i] \in Terminal => /\ state'[i] = state[i]
                                     /\ acceptance'[i] = acceptance[i]
                                     /\ lease'[i] = lease[i]
         /\ state[i] = "SUBMITTED" => state'[i] \in {"SUBMITTED", "DISPUTED", "DONE"}
         /\ state[i] = "DISPUTED" =>
              \/ state'[i] \in {"DISPUTED", "DONE"}
              \/ state'[i] = "FAILED" /\ acceptance'[i] = "REJECTED"
<1>1. TypeOK /\ LeaseMatchesState
  BY DEF IInv
<1>2. ASSUME NEW r \in Roots, NEW p \in Requesters, NEW b \in RootBudgets,
             NEW d \in RootDeadlines, CreateRoot(p, r, b, d)
      PROVE  /\ state[r] = "NONE" /\ state' = [state EXCEPT ![r] = "DRAFT"]
             /\ UNCHANGED <<acceptance, lease>>
  BY <1>2 DEF CreateRoot, stageVars
<1>3. ASSUME NEW r \in Roots, NEW p \in Participants, FundRoot(p, r)
      PROVE  /\ state[r] = "DRAFT" /\ state' = [state EXCEPT ![r] = "OPEN"]
             /\ UNCHANGED <<acceptance, lease>>
  BY <1>3 DEF FundRoot, stageVars
<1>4. CASE PublishStep
  BY <1>1, <1>2, <1>3, <1>4 DEF PublishStep, TypeOK, Terminal
<1>5. ASSUME NEW p \in Participants, NEW j \in Jobs,
             Claim(p, j) \/ Heartbeat(p, j) \/ Abandon(p, j) \/ Submit(p, j)
      PROVE  /\ state[j] \in {"OPEN", "LEASED"}
             /\ \A k \in Jobs \ {j} : state'[k] = state[k] /\ lease'[k] = lease[k]
             /\ UNCHANGED acceptance
  BY <1>1, <1>5 DEF Claim, Heartbeat, Abandon, FailJob, Submit, jobVars, TypeOK,
                    RequireActiveLease, LeaseMatchesState
<1>6. ASSUME NEW p \in Participants, NEW r \in Roots, NEW c \in Children, NEW t \in Tasks,
             NEW b \in ChildBudgets, NEW d \in ChildDeadlines, CreateChild(p, r, c, t, b, d)
      PROVE  /\ state[c] = "NONE" /\ state' = [state EXCEPT ![c] = "OPEN"]
             /\ UNCHANGED <<acceptance, lease>>
  BY <1>6 DEF CreateChild, stageVars
<1>7. CASE WorkStep
  <2>1. CASE \E p \in Participants, j \in Jobs :
               Claim(p, j) \/ Heartbeat(p, j) \/ Abandon(p, j) \/ Submit(p, j)
    BY <1>5, <2>1 DEF Terminal
  <2>2. CASE \E p \in Participants, r \in Roots, c \in Children, t \in Tasks,
               b \in ChildBudgets, d \in ChildDeadlines : CreateChild(p, r, c, t, b, d)
    BY <1>1, <1>6, <2>2 DEF TypeOK, Terminal
  <2> QED BY <1>7, <2>1, <2>2 DEF WorkStep
\* the decisions
<1>8. ASSUME NEW j \in Jobs, state[j] \in {"SUBMITTED", "DISPUTED"}, ApproveEffects(j)
      PROVE  /\ state'[j] = "DONE" /\ UNCHANGED lease
             /\ \A k \in Jobs \ {j} : state'[k] = state[k] /\ acceptance'[k] = acceptance[k]
  BY <1>1, <1>8 DEF ApproveEffects, TypeOK
<1>9. CASE ReviewStep
  <2>1. ASSUME NEW p \in Participants, NEW j \in Jobs, Approve(p, j) \/ DisputeTooLate(p, j)
        PROVE  state[j] = "SUBMITTED" /\ ApproveEffects(j)
    BY <2>1 DEF Approve, DisputeTooLate
  <2>2. ASSUME NEW p \in Participants, NEW j \in Jobs, Dispute(p, j)
        PROVE  /\ state[j] = "SUBMITTED" /\ state'[j] = "DISPUTED"
               /\ \A k \in Jobs \ {j} : state'[k] = state[k]
               /\ UNCHANGED <<acceptance, lease>>
    BY <1>1, <2>2 DEF Dispute, TypeOK
  <2> QED BY <1>8, <1>9, <2>1, <2>2 DEF ReviewStep, Terminal
<1>10. CASE TickStep
  <2>1. ASSUME NEW j \in Jobs, Expire(j)
        PROVE  /\ state[j] \in {"OPEN", "LEASED"}
               /\ \A k \in Jobs \ {j} : state'[k] = state[k] /\ lease'[k] = lease[k]
               /\ UNCHANGED acceptance
    BY <1>1, <2>1 DEF Expire, ExpiryDue, FailJob, TypeOK
  <2>2. ASSUME NEW j \in Jobs, AutoApprove(j) \/ ResolveApprove(j) \/ ResolveUnresponsive(j)
        PROVE  state[j] \in {"SUBMITTED", "DISPUTED"} /\ ApproveEffects(j)
    BY <2>2 DEF AutoApprove, ResolveApprove, ResolveUnresponsive
  <2>3. ASSUME NEW j \in Jobs, ResolveReject(j)
        PROVE  /\ state[j] = "DISPUTED" /\ UNCHANGED lease
               /\ state'[j] = "FAILED" /\ acceptance'[j] = "REJECTED"
               /\ \A k \in Jobs \ {j} : state'[k] = state[k] /\ acceptance'[k] = acceptance[k]
    BY <1>1, <2>3 DEF ResolveReject, TypeOK
  <2>4. ASSUME NEW r \in Roots, ReserveRefundable(r)
        PROVE  UNCHANGED <<state, acceptance, lease>>
    BY <2>4 DEF ReserveRefundable, jobVars, stageVars
  <2>5. CASE \E j \in Jobs : Expire(j)
    BY <2>1, <2>5 DEF Terminal
  <2>6. CASE \E j \in Jobs : AutoApprove(j) \/ ResolveApprove(j) \/ ResolveUnresponsive(j)
    BY <1>8, <2>2, <2>6 DEF Terminal
  <2>7. CASE \E j \in Jobs : ResolveReject(j)
    BY <2>3, <2>7 DEF Terminal
  <2>8. CASE \E r \in Roots : ReserveRefundable(r)
    BY <2>4, <2>8
  <2> QED BY <1>10, <2>5, <2>6, <2>7, <2>8 DEF TickStep
<1>11. CASE PaymentStep \/ AdvanceTime
  BY <1>11 DEF PaymentStep, TransferPayment, MarkSucceeded, PaymentFails, AdvanceTime,
               jobVars, stageVars
<1> QED BY <1>4, <1>7, <1>9, <1>10, <1>11 DEF Next

\* Of two children with one task key the later was created when the earlier
\* had failed; and what has failed stays so.
LEMMA TaskStep ==
  ASSUME IInv, TaskExclusive, [Next]_vars
  PROVE  TaskExclusive'
<1>1. TypeOK
  BY DEF IInv
<1>2. ASSUME NEW c \in Children, state[c] \in Failed PROVE state'[c] \in Failed
  BY <1>2, JobTransitions DEF vars, jobVars, Jobs, Failed, Terminal
<1>3. CASE UNCHANGED <<parent, task>>
  <2> SUFFICES ASSUME NEW r \in Roots, NEW c \in ChildrenOf(r)', NEW e \in ChildrenOf(r)',
                      c # e, task'[c] = task'[e]
               PROVE  {state'[c], state'[e]} \cap Failed # {}
    BY DEF TaskExclusive
  <2>1. /\ c \in ChildrenOf(r) /\ e \in ChildrenOf(r)
        /\ c \in Children /\ e \in Children
    BY <1>3 DEF ChildrenOf
  <2>2. state[c] \in Failed \/ state[e] \in Failed
    BY <1>3, <2>1 DEF TaskExclusive
  <2> QED BY <1>2, <2>1, <2>2
<1>4. ASSUME NEW p \in Participants, NEW s \in Roots, NEW n \in Children, NEW t \in Tasks,
             NEW b \in ChildBudgets, NEW d \in ChildDeadlines, CreateChild(p, s, n, t, b, d)
      PROVE  TaskExclusive'
  <2> SUFFICES ASSUME NEW r \in Roots, NEW c \in ChildrenOf(r)', NEW e \in ChildrenOf(r)',
                      c # e, task'[c] = task'[e]
               PROVE  {state'[c], state'[e]} \cap Failed # {}
    BY DEF TaskExclusive
  <2>1. /\ parent' = [parent EXCEPT ![n] = s]
        /\ task' = [task EXCEPT ![n] = t]
        /\ TaskFree(s, t)
    BY <1>4 DEF CreateChild
  <2>2. /\ c \in Children /\ e \in Children
        /\ parent'[c] = r /\ parent'[e] = r
    BY DEF ChildrenOf
  <2>3. /\ parent'[n] = s /\ task'[n] = t
        /\ \A x \in Children \ {n} : parent'[x] = parent[x] /\ task'[x] = task[x]
    BY <1>1, <2>1 DEF TypeOK
  <2>4. \A x \in Children \ {n} :
          parent'[x] = s /\ task'[x] = t => state[x] \in Failed
    BY <2>1, <2>3 DEF TaskFree, ChildrenOf
  <2>5. CASE c = n
    BY <1>2, <2>2, <2>3, <2>4, <2>5
  <2>6. CASE e = n
    BY <1>2, <2>2, <2>3, <2>4, <2>6
  <2>7. CASE c # n /\ e # n
    <3>1. c \in ChildrenOf(r) /\ e \in ChildrenOf(r) /\ task[c] = task[e]
      BY <2>2, <2>3, <2>7 DEF ChildrenOf
    <3>2. state[c] \in Failed \/ state[e] \in Failed
      BY <3>1 DEF TaskExclusive
    <3> QED BY <1>2, <2>2, <3>2
  <2> QED BY <2>5, <2>6, <2>7
<1>5. CASE WorkStep
  <2>1. ASSUME NEW p \in Participants, NEW j \in Jobs,
               Claim(p, j) \/ Heartbeat(p, j) \/ Abandon(p, j) \/ Submit(p, j)
        PROVE  UNCHANGED <<parent, task>>
    BY <2>1 DEF Claim, Heartbeat, Abandon, FailJob, Submit, jobVars
  <2> QED BY <1>3, <1>4, <1>5, <2>1 DEF WorkStep
<1>6. CASE PublishStep
  BY <1>3, <1>6 DEF PublishStep, CreateRoot, FundRoot
<1>7. CASE ReviewStep
  BY <1>3, <1>7 DEF ReviewStep, Approve, Dispute, DisputeTooLate, ApproveEffects
<1>8. CASE TickStep
  BY <1>3, <1>8 DEF TickStep, Expire, FailJob, AutoApprove, ResolveApprove,
                    ResolveUnresponsive, ResolveReject, ApproveEffects,
                    ReserveRefundable, jobVars
<1>9. CASE PaymentStep \/ AdvanceTime \/ UNCHANGED vars
  BY <1>3, <1>9 DEF PaymentStep, TransferPayment, MarkSucceeded, PaymentFails,
                    AdvanceTime, vars, jobVars
<1> QED BY <1>5, <1>6, <1>7, <1>8, <1>9 DEF Next

\* A task of a root is never bought twice, unless the first child failed.
THEOREM TasksAreExclusive == Spec => []TaskExclusive
<1>1. Init => TaskExclusive
  BY JobsAssumption DEF Init, TaskExclusive, ChildrenOf, Jobs
<1>2. IInv /\ TaskExclusive /\ [Next]_vars => TaskExclusive'
  BY TaskStep
<1> QED BY <1>1, <1>2, Invariance, PTL DEF Spec

\* No step of anybody changes what was decided of a job.
THEOREM DecisionsAreFinal == Spec => DecisionIsFinal
<1> DEFINE Kept == \A j \in Jobs :
                     state[j] \in Terminal => /\ state'[j] = state[j]
                                              /\ acceptance'[j] = acceptance[j]
                                              /\ lease'[j] = lease[j]
<1>1. IInv /\ [Next]_vars => [Kept]_vars
  BY JobTransitions
<1> QED BY <1>1, Invariance, PTL DEF Spec, DecisionIsFinal

\* Submitted work ends by a decision of the review, never by the clock.
THEOREM SubmissionsAreProtected == Spec => SubmittedWorkProtected
<1> DEFINE Kept == \A j \in Jobs :
             /\ state[j] = "SUBMITTED" => state'[j] \in {"SUBMITTED", "DISPUTED", "DONE"}
             /\ state[j] = "DISPUTED" =>
                  \/ state'[j] \in {"DISPUTED", "DONE"}
                  \/ state'[j] = "FAILED" /\ acceptance'[j] = "REJECTED"
<1>1. IInv /\ [Next]_vars => [Kept]_vars
  BY JobTransitions
<1> QED BY <1>1, Invariance, PTL DEF Spec, SubmittedWorkProtected

\* How one step may change a payment and its receipt.
LEMMA PaymentTransitions ==
  ASSUME IInv, Next, NEW q \in PayKeys
  PROVE  /\ Reserved(q) => pay'[q].amount = pay[q].amount /\ pay'[q].payee = pay[q].payee
         /\ pay[q].status = "SUCCEEDED" => pay'[q].status = "SUCCEEDED"
         /\ receipt[q] > 0 => receipt'[q] = receipt[q]
<1>1. TypeOK /\ NoStrandedFunds
  BY DEF IInv
\* the fund operations change only payments that were not reserved before
<1>2. ASSUME NEW j \in Jobs, state[j] \in Live, FailureFunds(j)
      PROVE  (Reserved(q) => pay'[q] = pay[q]) /\ receipt' = receipt
  <2>1. CASE j \in Roots
    BY <1>2, <2>1, RootFailureEffect DEF FundsType
  <2>2. CASE j \in Children
    BY <1>2, <2>2, ChildFailureEffect DEF FundsType
  <2> QED BY <2>1, <2>2 DEF Jobs
<1>3. ASSUME NEW j \in Jobs, PayoutFunds(j)
      PROVE  (Reserved(q) => pay'[q] = pay[q]) /\ receipt' = receipt
  <2>1. /\ receipt' = receipt
        /\ \/ pay' = pay
           \/ /\ ~ Reserved(PayoutKey(j))
              /\ \E a : pay' = [pay EXCEPT ![PayoutKey(j)] = a]
    BY <1>3 DEF PayoutFunds, Reserve
  <2> QED BY <1>1, <2>1 DEF TypeOK
<1>4. CASE UNCHANGED payVars
  BY <1>4 DEF payVars
<1>5. CASE PublishStep
  BY <1>4, <1>5 DEF PublishStep, CreateRoot, FundRoot
<1>6. CASE WorkStep
  <2>1. ASSUME NEW p \in Participants, NEW j \in Jobs, Abandon(p, j)
        PROVE  state[j] \in Live /\ FailureFunds(j)
    BY <2>1 DEF Abandon, FailJob, Live
  <2> QED BY <1>2, <1>4, <1>6, <2>1
          DEF WorkStep, Claim, Heartbeat, Submit, CreateChild, Reserved
<1>7. CASE ReviewStep
  <2>1. ASSUME NEW p \in Participants, NEW j \in Jobs, Approve(p, j) \/ DisputeTooLate(p, j)
        PROVE  PayoutFunds(j)
    BY <2>1 DEF Approve, DisputeTooLate, ApproveEffects
  <2> QED BY <1>3, <1>4, <1>7, <2>1 DEF ReviewStep, Dispute, Reserved
<1>8. CASE TickStep
  <2>1. ASSUME NEW j \in Jobs, Expire(j) \/ ResolveReject(j)
        PROVE  state[j] \in Live /\ FailureFunds(j)
    BY <2>1 DEF Expire, ExpiryDue, FailJob, ResolveReject, Live
  <2>2. ASSUME NEW j \in Jobs, AutoApprove(j) \/ ResolveApprove(j) \/ ResolveUnresponsive(j)
        PROVE  PayoutFunds(j)
    BY <2>2 DEF AutoApprove, ResolveApprove, ResolveUnresponsive, ApproveEffects
  <2>3. ASSUME NEW r \in Roots, ReserveRefundable(r)
        PROVE  UNCHANGED payVars
    BY <1>1, <2>3
    DEF ReserveRefundable, RootFailureFunds, NoStrandedFunds, Failed, Terminal, payVars
  <2> QED BY <1>2, <1>3, <1>4, <1>8, <2>1, <2>2, <2>3 DEF TickStep, Reserved
<1>9. CASE PaymentStep
  <2>1. ASSUME NEW k \in PayKeys, TransferPayment(k)
        PROVE  receipt[k] = 0 /\ receipt' = [receipt EXCEPT ![k] = pay[k].amount]
               /\ UNCHANGED pay
    BY <2>1 DEF TransferPayment
  <2>2. ASSUME NEW k \in PayKeys, MarkSucceeded(k) \/ PaymentFails(k)
        PROVE  /\ pay[k].status # "SUCCEEDED" /\ UNCHANGED receipt
               /\ \E s \in {"SUCCEEDED", "RETRYABLE"} : pay' = [pay EXCEPT ![k].status = s]
    BY <2>2 DEF MarkSucceeded, PaymentFails
  <2>3. CASE \E k \in PayKeys : TransferPayment(k)
    <3>1. receipt[q] > 0 => receipt'[q] = receipt[q]
      BY <1>1, <2>1, <2>3 DEF TypeOK
    <3> QED BY <2>1, <2>3, <3>1
  <2>4. CASE \E k \in PayKeys : MarkSucceeded(k) \/ PaymentFails(k)
    <3>1. PICK k \in PayKeys, s \in {"SUCCEEDED", "RETRYABLE"} :
            /\ pay[k].status # "SUCCEEDED" /\ UNCHANGED receipt
            /\ pay' = [pay EXCEPT ![k].status = s]
      BY <2>2, <2>4
    <3>2. pay'[q] = IF q = k THEN [pay[q] EXCEPT !.status = s] ELSE pay[q]
      BY <1>1, <3>1 DEF TypeOK
    <3>3. pay[q] \in [status : PaymentStatus, amount : Nat, payee : Participants \cup {None}]
      BY <1>1 DEF TypeOK
    <3>4. pay'[q].amount = pay[q].amount /\ pay'[q].payee = pay[q].payee
      BY <3>2, <3>3
    <3> QED BY <3>1, <3>2, <3>4
  <2> QED BY <1>9, <2>3, <2>4 DEF PaymentStep
<1>10. CASE AdvanceTime
  BY <1>4, <1>10 DEF AdvanceTime
<1> QED BY <1>5, <1>6, <1>7, <1>8, <1>9, <1>10 DEF Next

\* A reservation is never rewritten, a success never undone, and money is handed
\* over once.
THEOREM PaymentFinality == Spec => PaymentsAreFinal
<1> DEFINE Kept == \A k \in PayKeys :
       /\ Reserved(k) => /\ pay'[k].amount = pay[k].amount
                         /\ pay'[k].payee = pay[k].payee
       /\ pay[k].status = "SUCCEEDED" => pay'[k].status = "SUCCEEDED"
       /\ receipt[k] > 0 => receipt'[k] = receipt[k]
       /\ pay'[k].status = "SUCCEEDED" => receipt'[k] = pay'[k].amount
<1>1. IInv /\ IInv' /\ [Next]_vars => [Kept]_vars
  BY PaymentTransitions DEF IInv, ReceiptsMatch
<1> QED BY <1>1, Invariance, PTL DEF Spec, PaymentsAreFinal

\* Which job one step may bring to its end, and what it does to the buckets of
\* the children when that job is a root.
LEMMA RootEnds ==
  ASSUME IInv, Next, NEW r \in Roots, state[r] \notin Terminal, state'[r] \in Terminal,
         NEW c \in Children
  PROVE  /\ state'[c] = state[c]
         /\ bal'[ChildWork(c)] = bal[ChildWork(c)]
         /\ bal'[ChildPayout(c)] = bal[ChildPayout(c)]
<1>1. TypeOK
  BY DEF IInv
<1>2. /\ r \in Jobs /\ c \in Jobs /\ c # r
      /\ ChildWork(c) \in Accounts \ {Available(r), Refund(r), ParentPayout(r)}
      /\ ChildPayout(c) \in Accounts \ {Available(r), Refund(r), ParentPayout(r)}
  BY JobsAssumption, AccountIds
  DEF Jobs, ChildWork, ChildPayout, Available, Refund, ParentPayout
<1>3. ASSUME NEW j \in Jobs, NEW s \in Terminal, state[j] \in Live, FailureFunds(j),
             state' = [state EXCEPT ![j] = s]
      PROVE  /\ state'[c] = state[c]
             /\ bal'[ChildWork(c)] = bal[ChildWork(c)]
             /\ bal'[ChildPayout(c)] = bal[ChildPayout(c)]
  <2>1. j = r
    BY <1>1, <1>2, <1>3 DEF TypeOK
  <2> QED BY <1>1, <1>2, <1>3, <2>1, RootFailureEffect DEF TypeOK
<1>4. ASSUME NEW j \in Jobs, ApproveEffects(j)
      PROVE  /\ state'[c] = state[c]
             /\ bal'[ChildWork(c)] = bal[ChildWork(c)]
             /\ bal'[ChildPayout(c)] = bal[ChildPayout(c)]
  <2>1. PayoutFunds(j) /\ state' = [state EXCEPT ![j] = "DONE"]
    BY <1>4 DEF ApproveEffects
  <2>2. j = r
    BY <1>1, <1>2, <2>1 DEF TypeOK
  <2>3. \A a \in Accounts \ {Available(r), ParentPayout(r)} : bal'[a] = bal[a]
    BY <1>2, <2>1, <2>2, PayoutEffect
  <2> QED BY <1>1, <1>2, <2>1, <2>2, <2>3 DEF TypeOK
\* a step that leaves every state, or makes a job no more than live
<1>5. ASSUME NEW j \in Jobs, NEW s \in Live \cup {"DRAFT"}, state' = [state EXCEPT ![j] = s]
      PROVE  FALSE
  BY <1>1, <1>2, <1>5 DEF TypeOK, Live, Terminal
<1>6. CASE PublishStep
  BY <1>2, <1>5, <1>6 DEF PublishStep, CreateRoot, FundRoot, Live, Jobs
<1>7. CASE WorkStep
  <2>1. ASSUME NEW p \in Participants, NEW j \in Jobs, Abandon(p, j)
        PROVE  /\ state[j] \in Live /\ FailureFunds(j)
               /\ state' = [state EXCEPT ![j] = "FAILED"]
    BY <2>1 DEF Abandon, FailJob, Live
  <2>2. ASSUME NEW p \in Participants, NEW j \in Jobs, Claim(p, j) \/ Heartbeat(p, j) \/ Submit(p, j)
        PROVE  FALSE
    BY <1>5, <2>2 DEF Claim, Heartbeat, Submit, jobVars, Live
  <2>3. ASSUME NEW p \in Participants, NEW i \in Roots, NEW e \in Children, NEW t \in Tasks,
               NEW b \in ChildBudgets, NEW d \in ChildDeadlines, CreateChild(p, i, e, t, b, d)
        PROVE  FALSE
    BY <1>5, <2>3 DEF CreateChild, Live, Jobs
  <2> QED BY <1>3, <1>7, <2>1, <2>2, <2>3 DEF WorkStep, Terminal
<1>8. CASE ReviewStep
  <2>1. ASSUME NEW p \in Participants, NEW j \in Jobs, Approve(p, j) \/ DisputeTooLate(p, j)
        PROVE  ApproveEffects(j)
    BY <2>1 DEF Approve, DisputeTooLate
  <2>2. ASSUME NEW p \in Participants, NEW j \in Jobs, Dispute(p, j)
        PROVE  FALSE
    BY <1>5, <2>2 DEF Dispute, Live
  <2> QED BY <1>4, <1>8, <2>1, <2>2 DEF ReviewStep
<1>9. CASE TickStep
  <2>1. ASSUME NEW j \in Jobs, Expire(j) \/ ResolveReject(j)
        PROVE  /\ state[j] \in Live /\ FailureFunds(j)
               /\ \E s \in Terminal : state' = [state EXCEPT ![j] = s]
    BY <2>1 DEF Expire, ExpiryDue, FailJob, ResolveReject, Live, Terminal
  <2>2. ASSUME NEW j \in Jobs, AutoApprove(j) \/ ResolveApprove(j) \/ ResolveUnresponsive(j)
        PROVE  ApproveEffects(j)
    BY <2>2 DEF AutoApprove, ResolveApprove, ResolveUnresponsive
  <2>3. ASSUME NEW i \in Roots, ReserveRefundable(i)
        PROVE  FALSE
    BY <2>3 DEF ReserveRefundable, jobVars
  <2> QED BY <1>3, <1>4, <1>9, <2>1, <2>2, <2>3 DEF TickStep
<1>10. CASE PaymentStep \/ AdvanceTime
  BY <1>10 DEF PaymentStep, TransferPayment, MarkSucceeded, PaymentFails, AdvanceTime, jobVars
<1> QED BY <1>6, <1>7, <1>8, <1>9, <1>10 DEF Next

\* The end of a root, by whatever command, leaves its children their state,
\* their reservation and their payout.
THEOREM ChildrenSurviveParent == Spec => ParentEndSparesChildren
<1> DEFINE Kept == \A r \in Roots : state[r] \notin Terminal /\ state'[r] \in Terminal =>
                     \A c \in Children :
                       /\ state'[c] = state[c]
                       /\ bal'[ChildWork(c)] = bal[ChildWork(c)]
                       /\ bal'[ChildPayout(c)] = bal[ChildPayout(c)]
<1>1. IInv /\ [Next]_vars => [Kept]_vars
  BY RootEnds
<1> QED BY <1>1, Invariance, PTL DEF Spec, ParentEndSparesChildren

=============================================================================
