--------------------------- MODULE JobMoneyProofs ---------------------------
(***************************************************************************)
(* Proofs about the money of JobProtocol: that the deposit of a root is    *)
(* conserved, that every reservation is funded, and that the limits of the *)
(* subcontract policy hold, for any number of roots and any finite set of  *)
(* children, whatever the policy and the budgets.                          *)
(***************************************************************************)
EXTENDS JobOnceProofs, SumTheorems

\* Only a child that was created has a parent.
KnownChildren == \A c \in Children : parent[c] \in Roots => state[c] # "NONE"

\* A child's payout bucket holds its unpaid payout, whoever its parent is.
PayoutsFunded == \A c \in Children : bal[ChildPayout(c)] = Unpaid[PayoutKey(c)]

\* AvailableIsUnused for as long as a root is not decided.
UndecidedIsUnused ==
  \A r \in Roots : state[r] \notin Terminal => bal[Available(r)] = deposit[r] - InUse(r)

\* The inductive invariant of the money.
MoneyInv ==
  /\ OnceInv
  /\ DraftsPositive
  /\ KnownChildren
  /\ PayoutsFunded
  /\ Conservation
  /\ ReservationsFunded
  /\ PolicyLimits
  /\ UndecidedIsUnused

-----------------------------------------------------------------------------
(***************************************************************************)
(* Which accounts and payments belong to a root that has the children C.   *)
(***************************************************************************)

Locked(C, r) == {ParentPayout(r), Refund(r)} \cup {ChildWork(c) : c \in C}
                                              \cup {ChildPayout(c) : c \in C}
Keys(C, r) == {PayoutKey(r), TerminalKey(r)} \cup {PayoutKey(c) : c \in C}
                                             \cup {ReturnKey(c) : c \in C}

\* The bucket a payment of root r is drawn from.
BucketOf(k, r) == CASE k = PayoutKey(r) -> ParentPayout(r)
                    [] k[1] = "payout" /\ k # PayoutKey(r) -> ChildPayout(k[2])
                    [] OTHER -> Refund(r)

KeysOn(C, r, a) == {k \in Keys(C, r) : BucketOf(k, r) = a}

LEMMA Owned ==
  ASSUME NEW r \in Roots
  PROVE  /\ LockedAccounts(r) = Locked(ChildrenOf(r), r)
         /\ PaymentsOf(r) = Keys(ChildrenOf(r), r)
         /\ ChildrenOf(r) \in SUBSET Children
         /\ \A k \in PaymentsOf(r) : Source(k) = BucketOf(k, r)
<1>1. ChildrenOf(r) \in SUBSET Children
  BY DEF ChildrenOf
<1>2. PaymentsOf(r) = Keys(ChildrenOf(r), r) /\ LockedAccounts(r) = Locked(ChildrenOf(r), r)
  BY DEF LockedAccounts, Locked, PaymentsOf, Keys
<1>3. ASSUME NEW k \in PaymentsOf(r) PROVE Source(k) = BucketOf(k, r)
  <2>1. CASE k = PayoutKey(r)
    BY <2>1, JobsAssumption DEF Source, BucketOf, PayoutKey
  <2>2. CASE k = TerminalKey(r)
    BY <2>2 DEF Source, BucketOf, PayoutKey, TerminalKey, RootOf
  <2>3. ASSUME NEW c \in ChildrenOf(r), k = PayoutKey(c) PROVE Source(k) = BucketOf(k, r)
    <3>1. c \in Children /\ c \notin Roots
      BY JobsAssumption DEF ChildrenOf
    <3> QED BY <2>3, <3>1 DEF Source, BucketOf, PayoutKey
  <2>4. ASSUME NEW c \in ChildrenOf(r), k = ReturnKey(c) PROVE Source(k) = BucketOf(k, r)
    <3>1. c \in Children /\ c \notin Roots /\ parent[c] = r
      BY JobsAssumption DEF ChildrenOf
    <3> QED BY <2>4, <3>1 DEF Source, BucketOf, PayoutKey, ReturnKey, RootOf
  <2> QED BY <2>1, <2>2, <2>3, <2>4 DEF PaymentsOf
<1> QED BY <1>1, <1>2, <1>3

LEMMA OwnedAll ==
  \A r \in Roots : /\ LockedAccounts(r) = Locked(ChildrenOf(r), r)
                   /\ PaymentsOf(r) = Keys(ChildrenOf(r), r)
                   /\ ChildrenOf(r) \in SUBSET Children
                   /\ \A k \in PaymentsOf(r) : Source(k) = BucketOf(k, r)
BY Owned

LEMMA OwnedNext ==
  (\A r \in Roots : /\ LockedAccounts(r) = Locked(ChildrenOf(r), r)
                    /\ PaymentsOf(r) = Keys(ChildrenOf(r), r)
                    /\ ChildrenOf(r) \in SUBSET Children
                    /\ \A k \in PaymentsOf(r) : Source(k) = BucketOf(k, r))'
BY OwnedAll, PTL

\* The accounts of a root are finitely many accounts, its payments finitely many
\* payments.
LEMMA OwnedFinite ==
  ASSUME NEW r \in Roots, NEW C \in SUBSET Children
  PROVE  /\ IsFiniteSet(C)
         /\ IsFiniteSet(Locked(C, r)) /\ Locked(C, r) \subseteq Accounts
         /\ IsFiniteSet(Keys(C, r)) /\ Keys(C, r) \subseteq PayKeys
         /\ \A a : IsFiniteSet(KeysOn(C, r, a))
<1>1. IsFiniteSet(C)
  BY JobsAssumption, FS_Subset
<1>2. /\ IsFiniteSet({ChildWork(c) : c \in C})
      /\ IsFiniteSet({ChildPayout(c) : c \in C})
      /\ IsFiniteSet({PayoutKey(c) : c \in C})
      /\ IsFiniteSet({ReturnKey(c) : c \in C})
  <2>1. ASSUME NEW T, NEW f \in [C -> T], T = {f[c] : c \in C} PROVE IsFiniteSet(T)
    <3>1. f \in Surjection(C, T)
      BY <2>1 DEF Surjection
    <3> QED BY <1>1, <3>1, FS_Surjection
  <2>2. IsFiniteSet({ChildWork(c) : c \in C})
    <3> DEFINE f == [c \in C |-> ChildWork(c)]
    <3>1. f \in [C -> {ChildWork(c) : c \in C}] /\ {ChildWork(c) : c \in C} = {f[c] : c \in C}
      OBVIOUS
    <3> HIDE DEF f
    <3> QED BY <2>1, <3>1
  <2>3. IsFiniteSet({ChildPayout(c) : c \in C})
    <3> DEFINE f == [c \in C |-> ChildPayout(c)]
    <3>1. /\ f \in [C -> {ChildPayout(c) : c \in C}]
          /\ {ChildPayout(c) : c \in C} = {f[c] : c \in C}
      OBVIOUS
    <3> HIDE DEF f
    <3> QED BY <2>1, <3>1
  <2>4. IsFiniteSet({PayoutKey(c) : c \in C})
    <3> DEFINE f == [c \in C |-> PayoutKey(c)]
    <3>1. f \in [C -> {PayoutKey(c) : c \in C}] /\ {PayoutKey(c) : c \in C} = {f[c] : c \in C}
      OBVIOUS
    <3> HIDE DEF f
    <3> QED BY <2>1, <3>1
  <2>5. IsFiniteSet({ReturnKey(c) : c \in C})
    <3> DEFINE f == [c \in C |-> ReturnKey(c)]
    <3>1. f \in [C -> {ReturnKey(c) : c \in C}] /\ {ReturnKey(c) : c \in C} = {f[c] : c \in C}
      OBVIOUS
    <3> HIDE DEF f
    <3> QED BY <2>1, <3>1
  <2> QED BY <2>2, <2>3, <2>4, <2>5
<1>3. \A x, y : IsFiniteSet({x, y})
  <2> TAKE x, y
  <2>1. {x, y} = {x} \cup {y}
    OBVIOUS
  <2>2. IsFiniteSet({x}) /\ IsFiniteSet({y})
    BY FS_Singleton
  <2>3. IsFiniteSet({x} \cup {y})
    BY <2>2, FS_Union
  <2> QED BY <2>1, <2>3
<1>4. IsFiniteSet(Locked(C, r))
  BY <1>2, <1>3, FS_Union DEF Locked
<1>5. IsFiniteSet(Keys(C, r))
  BY <1>2, <1>3, FS_Union DEF Keys
<1>6. Locked(C, r) \subseteq Accounts
  BY AccountIds DEF Locked
<1>7. Keys(C, r) \subseteq PayKeys
  BY PayIds DEF Keys, Jobs
<1>8. \A a : IsFiniteSet(KeysOn(C, r, a))
  BY <1>5, FS_Subset DEF KeysOn
<1> QED BY <1>1, <1>4, <1>5, <1>6, <1>7, <1>8

\* Nothing belongs to two roots, and no wallet to any.
LEMMA OwnedApart ==
  ASSUME NEW r \in Roots, NEW q \in Roots, r # q,
         NEW C \in SUBSET Children, NEW D \in SUBSET Children, C \cap D = {}
  PROVE  /\ Locked(C, r) \cap Locked(D, q) = {}
         /\ Keys(C, r) \cap Keys(D, q) = {}
         /\ Available(r) # Available(q)
<1>1. C \cap Roots = {} /\ D \cap Roots = {}
  BY JobsAssumption
<1>2. Locked(C, r) \cap Locked(D, q) = {}
  BY DEF Locked, ParentPayout, Refund, ChildWork, ChildPayout
<1>3. Keys(C, r) \cap Keys(D, q) = {}
  BY <1>1 DEF Keys, PayoutKey, TerminalKey, ReturnKey
<1> QED BY <1>2, <1>3 DEF Available

LEMMA NotLocked ==
  ASSUME NEW r \in Roots, NEW C \in SUBSET Children
  PROVE  /\ \A q \in Roots : Available(q) \notin Locked(C, r)
         /\ \A p \in Participants : Wallet(p) \notin Locked(C, r) \cup {Available(r)}
         /\ {ParentPayout(r), Refund(r)} \subseteq Locked(C, r)
         /\ \A c \in C : {ChildWork(c), ChildPayout(c)} \subseteq Locked(C, r)
         /\ \A c \in Children \ C : {ChildWork(c), ChildPayout(c)} \cap Locked(C, r) = {}
BY DEF Locked, ParentPayout, Refund, ChildWork, ChildPayout, Available, Wallet

\* The bucket of a payment is a payout or refund bucket of its root.
LEMMA Buckets ==
  ASSUME NEW r \in Roots, NEW C \in SUBSET Children
  PROVE  /\ PayoutKey(r) \in Keys(C, r) /\ BucketOf(PayoutKey(r), r) = ParentPayout(r)
         /\ TerminalKey(r) \in Keys(C, r) /\ BucketOf(TerminalKey(r), r) = Refund(r)
         /\ \A c \in C : /\ PayoutKey(c) \in Keys(C, r)
                         /\ BucketOf(PayoutKey(c), r) = ChildPayout(c)
                         /\ ReturnKey(c) \in Keys(C, r)
                         /\ BucketOf(ReturnKey(c), r) = Refund(r)
         /\ \A k \in Keys(C, r) : /\ BucketOf(k, r) \in Locked(C, r)
                                  /\ BucketOf(k, r)[1] \notin {"available", "child_work"}
<1>1. C \cap Roots = {}
  BY JobsAssumption
<1>2. BucketOf(PayoutKey(r), r) = ParentPayout(r) /\ BucketOf(TerminalKey(r), r) = Refund(r)
  BY DEF BucketOf, PayoutKey, TerminalKey
<1>3. ASSUME NEW c \in C
      PROVE  BucketOf(PayoutKey(c), r) = ChildPayout(c) /\ BucketOf(ReturnKey(c), r) = Refund(r)
  BY <1>1 DEF BucketOf, PayoutKey, ReturnKey
<1>4. /\ PayoutKey(r) \in Keys(C, r) /\ TerminalKey(r) \in Keys(C, r)
      /\ \A c \in C : PayoutKey(c) \in Keys(C, r) /\ ReturnKey(c) \in Keys(C, r)
  BY DEF Keys
<1>5. ASSUME NEW k \in Keys(C, r)
      PROVE  /\ BucketOf(k, r) \in Locked(C, r)
             /\ BucketOf(k, r)[1] \notin {"available", "child_work"}
  <2>1. \/ BucketOf(k, r) \in {ParentPayout(r), Refund(r)}
        \/ \E c \in C : BucketOf(k, r) = ChildPayout(c)
    BY <1>2, <1>3 DEF Keys
  <2> QED BY <2>1 DEF Locked, ParentPayout, Refund, ChildPayout
<1> QED BY <1>2, <1>3, <1>4, <1>5

-----------------------------------------------------------------------------
(***************************************************************************)
(* What a step of the core does to the money of a root.                    *)
(***************************************************************************)

\* A new reservation is moved into its bucket.
Books(q, from, k, n) ==
  /\ Move(from, BucketOf(k, q), n)
  /\ ~ Reserved(k)
  /\ pay'[k].amount = n
  /\ \A i \in PayKeys \ {k} : pay'[i].amount = pay[i].amount
  /\ UNCHANGED <<deposit, receipt, parent>>

\* The root's own end: what is available becomes a payout or a refund.
RootBooks(q, k, n) ==
  /\ k \in {PayoutKey(q), TerminalKey(q)}
  /\ Books(q, Available(q), k, n)
  /\ state'[q] \in Terminal

\* The end of a child: paid, released, or returned to the requester of a root
\* that has failed.
ChildBooks(q, c, k, n) ==
  /\ c \in ChildrenOf(q)
  /\ Books(q, ChildWork(c), k, n)
  /\ \/ k = PayoutKey(c)
     \/ k = ReturnKey(c) /\ state'[q] \in Terminal

Releases(q, c, n) ==
  /\ c \in ChildrenOf(q)
  /\ Move(ChildWork(c), Available(q), n)
  /\ UNCHANGED <<deposit, receipt, parent, pay>>

\* A new child, within the policy.
Hires(q, c, n) ==
  /\ state[c] = "NONE"
  /\ InUse(q) + n <= Policy.max_amount
  /\ InUse(q) + n <= RatioCap(q)
  /\ Cardinality(ChildrenOf(q)) + 1 <= Policy.max_children
  /\ Move(Available(q), ChildWork(c), n)
  /\ parent' = [parent EXCEPT ![c] = q]
  /\ state'[c] # "NONE"
  /\ UNCHANGED <<deposit, receipt, pay>>

Deposits(p, q, n) ==
  /\ Move(Wallet(p), Available(q), n)
  /\ deposit' = [deposit EXCEPT ![q] = @ + n]
  /\ UNCHANGED <<receipt, parent, pay>>

Pays(p, q, k) ==
  /\ k \in Keys(ChildrenOf(q), q)
  /\ receipt[k] = 0
  /\ Move(BucketOf(k, q), Wallet(p), pay[k].amount)
  /\ receipt' = [receipt EXCEPT ![k] = pay[k].amount]
  /\ UNCHANGED <<deposit, parent, pay>>

Quiet ==
  /\ UNCHANGED <<bal, deposit, receipt, parent>>
  /\ \A k \in PayKeys : pay'[k].amount = pay[k].amount

MoneyStep ==
  \/ Quiet
  \/ \E q \in Roots :
       \/ \E k \in PayKeys, n \in Nat : RootBooks(q, k, n)
       \/ \E c \in Children, k \in PayKeys, n \in Nat : ChildBooks(q, c, k, n)
       \/ \E c \in Children, n \in Nat : Releases(q, c, n) \/ Hires(q, c, n)
       \/ \E p \in Participants, n \in Nat : Deposits(p, q, n)
       \/ \E p \in Participants, k \in PayKeys : Pays(p, q, k)

LEMMA ReserveBooks ==
  ASSUME IInv, NEW q \in Roots, NEW from, NEW k \in PayKeys, NEW n \in Nat,
         NEW payee \in Participants \cup {None},
         Move(from, BucketOf(k, q), n), Reserve(k, n, payee),
         UNCHANGED <<deposit, receipt, parent>>
  PROVE  Books(q, from, k, n)
<1>1. pay \in [PayKeys -> [status : PaymentStatus, amount : Nat,
                           payee : Participants \cup {None}]]
  BY DEF IInv, TypeOK
<1>2. /\ ~ Reserved(k)
      /\ pay'[k] = [status |-> "PENDING", amount |-> n, payee |-> payee]
      /\ \A i \in PayKeys \ {k} : pay'[i] = pay[i]
  BY <1>1, ReserveEffect
<1> QED BY <1>2 DEF Books

\* Booking nothing: no account, receipt, parent or amount changes.
LEMMA SameIsQuiet ==
  ASSUME UNCHANGED <<bal, deposit, receipt, parent, pay>> PROVE MoneyStep
BY DEF MoneyStep, Quiet

LEMMA FailureMoney ==
  ASSUME IInv, NEW j \in Jobs, state[j] \in Live, FailureFunds(j),
         NEW s \in Failed, state' = [state EXCEPT ![j] = s], UNCHANGED parent
  PROVE  MoneyStep
<1>1. TypeOK /\ UNCHANGED <<deposit, receipt>> /\ state'[j] \in Terminal
      /\ \A i \in Jobs \ {j} : state'[i] = state[i]
  BY DEF IInv, FailureFunds, TypeOK, Failed, Terminal
<1>2. CASE j \in Roots
  <2>1. /\ Available(j) \in Accounts /\ TerminalKey(j) \in PayKeys
        /\ BucketOf(TerminalKey(j), j) = Refund(j)
        /\ requester[j] \in Participants \cup {None} /\ bal[Available(j)] \in Nat
    BY <1>1, <1>2, AccountIds, PayIds, Buckets DEF TypeOK
  <2>2. CASE UNCHANGED <<bal, pay>>
    BY <1>1, <2>2, SameIsQuiet
  <2>3. CASE /\ Move(Available(j), Refund(j), bal[Available(j)])
             /\ Reserve(TerminalKey(j), bal[Available(j)], requester[j])
    <3>1. RootBooks(j, TerminalKey(j), bal[Available(j)])
      BY <1>1, <1>2, <2>1, <2>3, ReserveBooks DEF RootBooks
    <3> QED BY <1>2, <2>1, <3>1 DEF MoneyStep
  <2> QED BY <1>2, <2>2, <2>3 DEF FailureFunds, RootFailureFunds
<1>3. CASE j \in Children
  <2> DEFINE q == parent[j]
  <2>1. q \in Roots /\ j \in ChildrenOf(q) /\ q # j /\ q \in Jobs /\ ChildrenOf(q) \in SUBSET Children
    BY <1>3, JobsAssumption DEF IInv, JobRecords, Live, ChildrenOf, Jobs
  <2>2. /\ ChildWork(j) \in Accounts /\ ReturnKey(j) \in PayKeys
        /\ BucketOf(ReturnKey(j), q) = Refund(q)
        /\ requester[q] \in Participants \cup {None} /\ bal[ChildWork(j)] \in Nat
    BY <1>1, <1>3, <2>1, AccountIds, PayIds, Buckets DEF TypeOK, Jobs
  <2>3. ChildFailureFunds(j)
    BY <1>3, JobsAssumption DEF FailureFunds
  <2> HIDE DEF q
  <2>4. CASE UNCHANGED <<bal, pay>>
    BY <1>1, <2>4, SameIsQuiet
  <2>5. CASE Move(ChildWork(j), Available(q), bal[ChildWork(j)]) /\ UNCHANGED pay
    <3>1. Releases(q, j, bal[ChildWork(j)])
      BY <1>1, <2>1, <2>5 DEF Releases
    <3> QED BY <1>3, <2>1, <2>2, <3>1 DEF MoneyStep
  <2>6. CASE /\ state[q] \in Failed
             /\ Move(ChildWork(j), Refund(q), bal[ChildWork(j)])
             /\ Reserve(ReturnKey(j), bal[ChildWork(j)], requester[q])
    <3>1. state'[q] \in Terminal
      BY <1>1, <2>1, <2>6 DEF Failed, Terminal
    <3>2. ChildBooks(q, j, ReturnKey(j), bal[ChildWork(j)])
      BY <1>1, <2>1, <2>2, <2>6, <3>1, ReserveBooks DEF ChildBooks
    <3> QED BY <1>3, <2>1, <2>2, <3>2 DEF MoneyStep
  <2> QED BY <2>3, <2>4, <2>5, <2>6 DEF ChildFailureFunds, q
<1> QED BY <1>2, <1>3 DEF Jobs

LEMMA PayoutMoney ==
  ASSUME IInv, NEW j \in Jobs, state[j] \in Live, PayoutFunds(j),
         state' = [state EXCEPT ![j] = "DONE"], UNCHANGED parent
  PROVE  MoneyStep
<1>1. TypeOK /\ UNCHANGED <<deposit, receipt>> /\ state'[j] \in Terminal
  BY DEF IInv, PayoutFunds, TypeOK, Terminal
<1>2. PayoutKey(j) \in PayKeys /\ lease[j].worker \in Participants \cup {None}
  BY <1>1, PayIds DEF TypeOK
<1>3. CASE UNCHANGED <<bal, pay>>
  BY <1>1, <1>3, SameIsQuiet
<1>4. CASE j \in Roots /\ ~ UNCHANGED <<bal, pay>>
  <2>1. /\ Available(j) \in Accounts /\ bal[Available(j)] \in Nat
        /\ BucketOf(PayoutKey(j), j) = ParentPayout(j)
    BY <1>1, <1>4, AccountIds, Buckets DEF TypeOK
  <2>2. /\ Move(Available(j), ParentPayout(j), bal[Available(j)])
        /\ Reserve(PayoutKey(j), bal[Available(j)], lease[j].worker)
    BY <1>4 DEF PayoutFunds
  <2>3. RootBooks(j, PayoutKey(j), bal[Available(j)])
    BY <1>1, <1>2, <1>4, <2>1, <2>2, ReserveBooks DEF RootBooks
  <2> QED BY <1>2, <1>4, <2>1, <2>3 DEF MoneyStep
<1>5. CASE j \in Children /\ ~ UNCHANGED <<bal, pay>>
  <2> DEFINE q == parent[j]
  <2>1. q \in Roots /\ j \in ChildrenOf(q) /\ j \notin Roots /\ ChildrenOf(q) \in SUBSET Children
    BY <1>5, JobsAssumption DEF IInv, JobRecords, Live, ChildrenOf
  <2>2. /\ ChildWork(j) \in Accounts /\ bal[ChildWork(j)] \in Nat
        /\ BucketOf(PayoutKey(j), q) = ChildPayout(j)
    BY <1>1, <1>5, <2>1, AccountIds, Buckets DEF TypeOK
  <2>3. /\ Move(ChildWork(j), ChildPayout(j), bal[ChildWork(j)])
        /\ Reserve(PayoutKey(j), bal[ChildWork(j)], lease[j].worker)
    BY <1>5, <2>1 DEF PayoutFunds
  <2> HIDE DEF q
  <2>4. ChildBooks(q, j, PayoutKey(j), bal[ChildWork(j)])
    BY <1>1, <1>2, <2>1, <2>2, <2>3, ReserveBooks DEF ChildBooks
  <2> QED BY <1>2, <1>5, <2>1, <2>2, <2>4 DEF MoneyStep
<1> QED BY <1>3, <1>4, <1>5 DEF Jobs

LEMMA TransferMoney ==
  ASSUME IInv, NEW k \in PayKeys, TransferPayment(k)
  PROVE  MoneyStep
<1>1. /\ TypeOK /\ Reserved(k) /\ receipt[k] = 0
      /\ pay[k].payee \in Participants
      /\ Move(Source(k), Wallet(pay[k].payee), pay[k].amount)
      /\ receipt' = [receipt EXCEPT ![k] = pay[k].amount]
      /\ UNCHANGED <<deposit, parent, pay>>
  BY JobsAssumption DEF IInv, TransferPayment, Reserved, jobVars
<1>2. \E q \in Roots : k \in PaymentsOf(q)
  <2>1. ASSUME NEW r \in Roots, k = <<"payout", r>> \/ k = <<"terminal", r>>
        PROVE  k \in PaymentsOf(r)
    BY <2>1 DEF PaymentsOf, PayoutKey, TerminalKey
  <2>2. ASSUME NEW c \in Children, k = <<"payout", c>> \/ k = <<"child-return", c>>
        PROVE  parent[c] \in Roots /\ k \in PaymentsOf(parent[c])
    <3>1. c \in Jobs /\ state[c] # "NONE"
      BY <1>1, <2>2 DEF IInv, MoneyFollowsVerdict, PayoutKey, ReturnKey, Jobs, Failed
    <3>2. parent[c] \in Roots /\ c \in ChildrenOf(parent[c])
      BY <3>1 DEF IInv, JobRecords, ChildrenOf
    <3> QED BY <2>2, <3>2 DEF PaymentsOf, PayoutKey, ReturnKey
  <2> QED BY <2>1, <2>2 DEF PayKeys, Jobs
<1>3. PICK q \in Roots : k \in PaymentsOf(q)
  BY <1>2
<1>4. Pays(pay[k].payee, q, k)
  BY <1>1, <1>3, Owned DEF Pays
<1> QED BY <1>1, <1>3, <1>4 DEF MoneyStep

\* Every step of the core is one of these for the money, whatever else it does,
\* and no job disappears.
LEMMA StepMoney ==
  ASSUME OnceInv, [Next]_vars
  PROVE  /\ MoneyStep
         /\ \A i \in Jobs : state[i] # "NONE" => state'[i] # "NONE"
<1>1. IInv /\ TypeOK /\ NoStrandedFunds
  BY DEF OnceInv, IInv
<1> DEFINE Goal == /\ MoneyStep
                   /\ \A i \in Jobs : state[i] # "NONE" => state'[i] # "NONE"
<1> SUFFICES Goal
  OBVIOUS
<1>2. ASSUME UNCHANGED <<bal, deposit, receipt, parent, pay>>, NEW j \in Jobs,
             \/ UNCHANGED state
             \/ \E s \in JobState \ {"NONE"} : state' = [state EXCEPT ![j] = s]
      PROVE  Goal
  BY <1>1, <1>2, SameIsQuiet DEF TypeOK
<1>3. ASSUME NEW j \in Jobs, state[j] \in Live, FailureFunds(j), NEW s \in Failed,
             state' = [state EXCEPT ![j] = s], UNCHANGED parent
      PROVE  Goal
  BY <1>1, <1>3, FailureMoney DEF TypeOK, Failed
<1>4. ASSUME NEW j \in Jobs, state[j] \in Live, ApproveEffects(j)
      PROVE  Goal
  <2>1. /\ state' = [state EXCEPT ![j] = "DONE"] /\ UNCHANGED parent /\ PayoutFunds(j)
    BY <1>4 DEF ApproveEffects
  <2> QED BY <1>1, <1>4, <2>1, PayoutMoney DEF TypeOK
<1>5. CASE PublishStep
  <2>1. ASSUME NEW r \in Roots, NEW p \in Requesters, NEW b \in RootBudgets,
               NEW d \in RootDeadlines, CreateRoot(p, r, b, d)
        PROVE  Goal
    BY <1>2, <2>1 DEF CreateRoot, moneyVars, payVars, JobState, Jobs
  <2>2. ASSUME NEW r \in Roots, NEW p \in Participants, FundRoot(p, r)
        PROVE  Goal
    <3>1. budget[r] \in Nat
      BY <1>1 DEF TypeOK, Jobs
    <3>2. Deposits(p, r, budget[r])
      BY <2>2 DEF FundRoot, Deposits, payVars
    <3>3. \A i \in Jobs : state[i] # "NONE" => state'[i] # "NONE"
      BY <1>1, <2>2 DEF FundRoot, TypeOK
    <3> QED BY <3>1, <3>2, <3>3 DEF MoneyStep
  <2> HIDE DEF Goal
  <2> QED BY <1>5, <2>1, <2>2 DEF PublishStep
<1>6. CASE WorkStep
  <2>1. ASSUME NEW p \in Participants, NEW j \in Jobs,
               Claim(p, j) \/ Heartbeat(p, j) \/ Submit(p, j)
        PROVE  Goal
    <3>1. /\ UNCHANGED <<bal, deposit, receipt, parent, pay>>
          /\ \/ UNCHANGED state
             \/ \E s \in JobState \ {"NONE"} : state' = [state EXCEPT ![j] = s]
      BY <2>1 DEF Claim, Heartbeat, Submit, moneyVars, payVars, jobVars, JobState
    <3> HIDE DEF Goal
    <3> QED BY <1>2, <3>1
  <2>2. ASSUME NEW p \in Participants, NEW j \in Jobs, Abandon(p, j)
        PROVE  Goal
    <3> HIDE DEF Goal
    <3> QED BY <1>3, <2>2 DEF Abandon, FailJob, Live, Failed
  <2>3. ASSUME NEW p \in Participants, NEW r \in Roots, NEW c \in Children, NEW t \in Tasks,
               NEW b \in ChildBudgets, NEW d \in ChildDeadlines, CreateChild(p, r, c, t, b, d)
        PROVE  Goal
    <3>1. b \in Nat
      BY AmountsAssumption
    <3>2. Hires(r, c, b)
      <4>1. state'[c] = "OPEN"
        BY <1>1, <2>3 DEF CreateChild, TypeOK, Jobs
      <4> QED BY <2>3, <4>1 DEF CreateChild, WithinPolicy, Hires, payVars
    <3>3. \A i \in Jobs : state[i] # "NONE" => state'[i] # "NONE"
      BY <1>1, <2>3 DEF CreateChild, TypeOK
    <3> QED BY <3>1, <3>2, <3>3 DEF MoneyStep
  <2> HIDE DEF Goal
  <2> QED BY <1>6, <2>1, <2>2, <2>3 DEF WorkStep
<1>7. CASE ReviewStep
  <2>1. ASSUME NEW p \in Participants, NEW j \in Jobs, Approve(p, j) \/ DisputeTooLate(p, j)
        PROVE  Goal
    <3> HIDE DEF Goal
    <3> QED BY <1>4, <2>1 DEF Approve, DisputeTooLate, Live
  <2>2. ASSUME NEW p \in Participants, NEW j \in Jobs, Dispute(p, j)
        PROVE  Goal
    <3>1. /\ UNCHANGED <<bal, deposit, receipt, parent, pay>>
          /\ \E s \in JobState \ {"NONE"} : state' = [state EXCEPT ![j] = s]
      BY <2>2 DEF Dispute, moneyVars, payVars, JobState
    <3> HIDE DEF Goal
    <3> QED BY <1>2, <3>1
  <2> HIDE DEF Goal
  <2> QED BY <1>7, <2>1, <2>2 DEF ReviewStep
<1>8. CASE TickStep
  <2>1. ASSUME NEW j \in Jobs, Expire(j) \/ ResolveReject(j)
        PROVE  Goal
    <3>1. /\ state[j] \in Live /\ FailureFunds(j) /\ UNCHANGED parent
          /\ \E s \in Failed : state' = [state EXCEPT ![j] = s]
      BY <2>1 DEF Expire, ExpiryDue, FailJob, ResolveReject, Live, Failed
    <3> HIDE DEF Goal
    <3> QED BY <1>3, <3>1
  <2>2. ASSUME NEW j \in Jobs, AutoApprove(j) \/ ResolveApprove(j) \/ ResolveUnresponsive(j)
        PROVE  Goal
    <3> HIDE DEF Goal
    <3> QED BY <1>4, <2>2 DEF AutoApprove, ResolveApprove, ResolveUnresponsive, Live
  <2>3. ASSUME NEW r \in Roots, ReserveRefundable(r)
        PROVE  Goal
    <3>1. UNCHANGED <<bal, pay, deposit, receipt, parent, state>>
      BY <1>1, <2>3 DEF ReserveRefundable, RootFailureFunds, NoStrandedFunds, Failed,
                        Terminal, jobVars
    <3> HIDE DEF Goal
    <3> QED BY <1>2, <3>1 DEF Jobs
  <2> HIDE DEF Goal
  <2> QED BY <1>8, <2>1, <2>2, <2>3 DEF TickStep
<1>9. CASE PaymentStep
  <2>1. ASSUME NEW k \in PayKeys, TransferPayment(k)
        PROVE  Goal
    BY <1>1, <2>1, TransferMoney DEF TransferPayment, jobVars
  <2>2. ASSUME NEW k \in PayKeys, MarkSucceeded(k) \/ PaymentFails(k)
        PROVE  Goal
    <3>1. pay \in [PayKeys -> [status : PaymentStatus, amount : Nat,
                               payee : Participants \cup {None}]]
      BY <1>1 DEF TypeOK
    <3>2. \A i \in PayKeys : pay'[i].amount = pay[i].amount
      BY <2>2, <3>1 DEF MarkSucceeded, PaymentFails
    <3>3. UNCHANGED <<bal, deposit, receipt, parent, state>>
      BY <2>2 DEF MarkSucceeded, PaymentFails, moneyVars, jobVars
    <3> QED BY <3>2, <3>3 DEF MoneyStep, Quiet
  <2> HIDE DEF Goal
  <2> QED BY <1>9, <2>1, <2>2 DEF PaymentStep
<1>10. CASE AdvanceTime \/ UNCHANGED vars
  <2>1. UNCHANGED <<bal, deposit, receipt, parent, pay, state>>
    BY <1>10 DEF AdvanceTime, vars, moneyVars, payVars, jobVars
  <2> QED BY <2>1, SameIsQuiet
<1> HIDE DEF Goal
<1> QED BY <1>5, <1>6, <1>7, <1>8, <1>9, <1>10 DEF Next

-----------------------------------------------------------------------------
(***************************************************************************)
(* The invariants of one root with the children C. A root gains a child    *)
(* only by a step that hires one, of which the books say nothing yet: so   *)
(* the invariants may be read with the children of the next state.         *)
(***************************************************************************)

Blank(c) ==
  /\ bal[ChildWork(c)] = 0 /\ bal[ChildPayout(c)] = 0
  /\ receipt[PayoutKey(c)] = 0 /\ receipt[ReturnKey(c)] = 0
  /\ Unpaid[PayoutKey(c)] = 0 /\ Unpaid[ReturnKey(c)] = 0

ConservedAt(C, r) ==
  deposit[r] = bal[Available(r)] + SumFunctionOnSet(bal, Locked(C, r))
                                 + SumFunctionOnSet(receipt, Keys(C, r))

FundedAt(C, r) ==
  \A a \in Locked(C, r) :
    a[1] # "child_work" => bal[a] = SumFunctionOnSet(Unpaid, KeysOn(C, r, a))

LEMMA MoneyTypes ==
  ASSUME TypeOK
  PROVE  /\ bal \in [Accounts -> Nat] /\ receipt \in [PayKeys -> Nat]
         /\ deposit \in [Roots -> Nat]
         /\ \A k \in PayKeys : Unpaid[k] \in Nat /\ pay[k].amount \in Nat
         /\ \A c \in Children : Usage[c] \in Nat
<1>1. bal \in [Accounts -> Nat] /\ receipt \in [PayKeys -> Nat] /\ deposit \in [Roots -> Nat]
  BY DEF TypeOK
<1>2. \A k \in PayKeys : pay[k].amount \in Nat
  BY DEF TypeOK
<1>3. \A k \in PayKeys : Unpaid[k] \in Nat
  BY <1>2 DEF Unpaid
<1>4. \A c \in Children : Usage[c] \in Nat
  <2> TAKE c \in Children
  <2>1. /\ ChildWork(c) \in Accounts /\ ChildPayout(c) \in Accounts
        /\ PayoutKey(c) \in PayKeys
    BY AccountIds, PayIds DEF Jobs
  <2>2. bal[ChildWork(c)] \in Nat /\ bal[ChildPayout(c)] \in Nat /\ receipt[PayoutKey(c)] \in Nat
    BY <1>1, <2>1
  <2> QED BY <2>2 DEF Usage
<1> QED BY <1>1, <1>2, <1>3, <1>4

LEMMA MoneyTypesAll ==
  TypeOK => /\ bal \in [Accounts -> Nat] /\ receipt \in [PayKeys -> Nat]
            /\ deposit \in [Roots -> Nat]
            /\ \A k \in PayKeys : Unpaid[k] \in Nat /\ pay[k].amount \in Nat
            /\ \A c \in Children : Usage[c] \in Nat
BY MoneyTypes

LEMMA MoneyTypesNext ==
  (TypeOK => /\ bal \in [Accounts -> Nat] /\ receipt \in [PayKeys -> Nat]
             /\ deposit \in [Roots -> Nat]
             /\ \A k \in PayKeys : Unpaid[k] \in Nat /\ pay[k].amount \in Nat
             /\ \A c \in Children : Usage[c] \in Nat)'
BY MoneyTypesAll, PTL

\* Conservation and ReservationsFunded, root by root.
LEMMA RootByRoot ==
  /\ Conservation <=> \A r \in Roots : ConservedAt(ChildrenOf(r), r)
  /\ ReservationsFunded <=> \A r \in Roots : FundedAt(ChildrenOf(r), r)
<1>1. Conservation <=> \A r \in Roots : ConservedAt(ChildrenOf(r), r)
  BY Owned DEF Conservation, ConservedAt
<1>2. ASSUME NEW r \in Roots, NEW a
      PROVE  {k \in PaymentsOf(r) : Source(k) = a} = KeysOn(ChildrenOf(r), r, a)
  <2>1. /\ PaymentsOf(r) = Keys(ChildrenOf(r), r)
        /\ \A k \in PaymentsOf(r) : Source(k) = BucketOf(k, r)
    BY Owned
  <2> QED BY <2>1 DEF KeysOn
<1>3. ASSUME NEW r \in Roots
      PROVE  FundedAt(ChildrenOf(r), r) <=>
               \A a \in LockedAccounts(r) : a[1] # "child_work" =>
                 bal[a] = SumFunctionOnSet(Unpaid, {k \in PaymentsOf(r) : Source(k) = a})
  <2>1. LockedAccounts(r) = Locked(ChildrenOf(r), r)
    BY Owned
  <2>2. \A a : {k \in PaymentsOf(r) : Source(k) = a} = KeysOn(ChildrenOf(r), r, a)
    BY <1>2
  <2> QED BY <2>1, <2>2 DEF FundedAt
<1>4. ReservationsFunded <=> \A r \in Roots : FundedAt(ChildrenOf(r), r)
  BY <1>3 DEF ReservationsFunded
<1> QED BY <1>1, <1>4

LEMMA RootByRootNext ==
  (/\ Conservation <=> \A r \in Roots : ConservedAt(ChildrenOf(r), r)
   /\ ReservationsFunded <=> \A r \in Roots : FundedAt(ChildrenOf(r), r))'
BY RootByRoot, PTL

\* Of a child that does not exist yet the books know nothing.
LEMMA UnknownIsBlank ==
  ASSUME OnceInv, PayoutsFunded, NEW c \in Children, state[c] = "NONE" PROVE Blank(c)
<1>1. /\ TypeOK /\ ReceiptsMatch /\ ChildWorkProtected /\ MoneyFollowsVerdict
      /\ ReservationsPositive
  BY DEF OnceInv, IInv
<1>2. c \in Jobs /\ PayoutKey(c) \in PayKeys /\ ReturnKey(c) \in PayKeys
  BY PayIds DEF Jobs
<1>3. ~ Reserved(PayoutKey(c)) /\ ~ Reserved(ReturnKey(c))
  BY <1>1, <1>2 DEF MoneyFollowsVerdict, Failed
<1>4. receipt[PayoutKey(c)] = 0 /\ receipt[ReturnKey(c)] = 0
  BY <1>1, <1>2, <1>3 DEF ReceiptsMatch
<1>5. pay[PayoutKey(c)].amount = 0 /\ pay[ReturnKey(c)].amount = 0
  BY <1>1, <1>2, <1>3, MoneyTypes DEF ReservationsPositive
<1>6. Unpaid[PayoutKey(c)] = 0 /\ Unpaid[ReturnKey(c)] = 0
  BY <1>2, <1>4, <1>5 DEF Unpaid
<1>7. bal[ChildWork(c)] = 0
  BY <1>1 DEF ChildWorkProtected, Live
<1> QED BY <1>4, <1>6, <1>7 DEF Blank, PayoutsFunded

\* A root keeps its children and gains only one that was not known.
LEMMA ParentsGrow ==
  ASSUME OnceInv, PayoutsFunded, KnownChildren, MoneyStep, NEW r \in Roots
  PROVE  /\ ChildrenOf(r) \subseteq ChildrenOf(r)'
         /\ \A c \in ChildrenOf(r)' \ ChildrenOf(r) : c \in Children /\ Blank(c)
<1>1. TypeOK
  BY DEF OnceInv, IInv
<1>2. CASE UNCHANGED parent
  BY <1>2 DEF ChildrenOf
<1>3. ASSUME NEW q \in Roots, NEW c \in Children, NEW n \in Nat, Hires(q, c, n)
      PROVE  /\ ChildrenOf(r) \subseteq ChildrenOf(r)'
             /\ \A e \in ChildrenOf(r)' \ ChildrenOf(r) : e \in Children /\ Blank(e)
  <2>1. parent' = [parent EXCEPT ![c] = q] /\ parent[c] \notin Roots /\ Blank(c)
    BY <1>3, UnknownIsBlank DEF Hires, KnownChildren
  <2>2. parent \in [Children -> Roots \cup {None}]
    BY <1>1 DEF TypeOK
  <2> QED BY <2>1, <2>2 DEF ChildrenOf
<1> QED BY <1>2, <1>3 DEF MoneyStep, Quiet, RootBooks, ChildBooks, Books, Releases,
                          Deposits, Pays

LEMMA FamiliesApart ==
  ASSUME NEW r \in Roots, NEW q \in Roots, r # q
  PROVE  ChildrenOf(r)' \cap ChildrenOf(q)' = {}
BY DEF ChildrenOf

\* Growing by blank children changes none of the sums.
LEMMA Resized ==
  ASSUME TypeOK, NEW r \in Roots, NEW C \in SUBSET Children, NEW D \in SUBSET Children,
         C \subseteq D, \A c \in D \ C : Blank(c)
  PROVE  /\ ConservedAt(C, r) => ConservedAt(D, r)
         /\ FundedAt(C, r) => FundedAt(D, r)
         /\ SumFunctionOnSet(Usage, C) = SumFunctionOnSet(Usage, D)
<1>1. /\ bal \in [Accounts -> Nat] /\ receipt \in [PayKeys -> Nat]
      /\ \A k \in PayKeys : Unpaid[k] \in Nat
      /\ \A c \in Children : Usage[c] \in Nat
  BY MoneyTypes
<1>2. /\ IsFiniteSet(C) /\ IsFiniteSet(D)
      /\ IsFiniteSet(Locked(C, r)) /\ IsFiniteSet(Locked(D, r))
      /\ IsFiniteSet(Keys(C, r)) /\ IsFiniteSet(Keys(D, r))
      /\ Locked(D, r) \subseteq Accounts /\ Keys(D, r) \subseteq PayKeys
      /\ \A a : IsFiniteSet(KeysOn(C, r, a)) /\ IsFiniteSet(KeysOn(D, r, a))
  BY OwnedFinite
<1>3. /\ Locked(C, r) \subseteq Locked(D, r)
      /\ \A a \in Locked(D, r) \ Locked(C, r) : bal[a] = 0
            /\ \E c \in D \ C : a \in {ChildWork(c), ChildPayout(c)}
  BY DEF Locked, Blank
<1>4. /\ Keys(C, r) \subseteq Keys(D, r)
      /\ \A k \in Keys(D, r) \ Keys(C, r) : receipt[k] = 0 /\ Unpaid[k] = 0
  BY DEF Keys, Blank
<1>5. SumFunctionOnSet(bal, Locked(C, r)) = SumFunctionOnSet(bal, Locked(D, r))
  BY <1>1, <1>2, <1>3, SumSupport
<1>6. SumFunctionOnSet(receipt, Keys(C, r)) = SumFunctionOnSet(receipt, Keys(D, r))
  BY <1>1, <1>2, <1>4, SumSupport
<1>7. SumFunctionOnSet(Usage, C) = SumFunctionOnSet(Usage, D)
  <2>1. \A c \in D \ C : Usage[c] = 0
    BY DEF Blank, Usage
  <2> QED BY <1>1, <1>2, <2>1, SumSupport
<1>8. ASSUME FundedAt(C, r), NEW a \in Locked(D, r), a[1] # "child_work"
      PROVE  bal[a] = SumFunctionOnSet(Unpaid, KeysOn(D, r, a))
  <2>1. KeysOn(C, r, a) \subseteq KeysOn(D, r, a)
        /\ KeysOn(D, r, a) \subseteq PayKeys
        /\ \A k \in KeysOn(D, r, a) \ KeysOn(C, r, a) : Unpaid[k] = 0
    BY <1>2, <1>4 DEF KeysOn
  <2>2. SumFunctionOnSet(Unpaid, KeysOn(C, r, a)) = SumFunctionOnSet(Unpaid, KeysOn(D, r, a))
    BY <1>1, <1>2, <2>1, SumSupport
  <2>3. CASE a \in Locked(C, r)
    BY <1>8, <2>2, <2>3 DEF FundedAt
  <2>4. CASE a \notin Locked(C, r)
    <3>1. PICK c \in D \ C : a \in {ChildWork(c), ChildPayout(c)} /\ bal[a] = 0
      BY <1>3, <2>4
    <3>2. KeysOn(C, r, a) = {}
      <4>1. \A k \in Keys(C, r) : BucketOf(k, r) \in Locked(C, r)
        BY Buckets
      <4> QED BY <2>4, <4>1 DEF KeysOn
    <3> QED BY <2>2, <3>1, <3>2, SumEmpty
  <2> QED BY <2>3, <2>4
<1> QED BY <1>5, <1>6, <1>7, <1>8 DEF ConservedAt, FundedAt

-----------------------------------------------------------------------------
(***************************************************************************)
(* What a step does to the invariants of a root with the children C.       *)
(***************************************************************************)

\* A move within the root or outside of it keeps the deposit accounted for.
LEMMA MoveConserves ==
  ASSUME TypeOK, NEW r \in Roots, NEW C \in SUBSET Children, ConservedAt(C, r),
         NEW from \in Accounts, NEW to \in Accounts, from # to, NEW n \in Nat,
         Move(from, to, n), UNCHANGED <<deposit, receipt>>,
         \/ {from, to} \subseteq Locked(C, r) \cup {Available(r)}
         \/ {from, to} \cap (Locked(C, r) \cup {Available(r)}) = {}
  PROVE  ConservedAt(C, r)'
<1> DEFINE S == Locked(C, r)
<1>1. /\ bal \in [Accounts -> Nat] /\ IsFiniteSet(S) /\ S \subseteq Accounts
      /\ Available(r) \notin S /\ Available(r) \in Accounts
  BY MoneyTypes, OwnedFinite, NotLocked, AccountIds
<1>2. /\ bal'[from] = bal[from] - n /\ bal'[to] = bal[to] + n
      /\ \A a \in Accounts \ {from, to} : bal'[a] = bal[a]
  BY <1>1, MoveType
<1>3. UNCHANGED S
  BY DEF Locked, ParentPayout, Refund, ChildWork, ChildPayout
<1> HIDE DEF S
<1>4. SumFunctionOnSet(bal', S) = SumFunctionOnSet(bal, S)
                        - (IF from \in S THEN n ELSE 0) + (IF to \in S THEN n ELSE 0)
  <2>1. /\ \A a \in S : bal[a] \in Int /\ bal'[a] = IF a = from THEN bal[from] - n
                                                    ELSE IF a = to THEN bal[to] + n ELSE bal[a]
    BY <1>1, <1>2
  <2> QED BY <1>1, <2>1, SumMove
<1>5. SumFunctionOnSet(bal, S) \in Int /\ bal[Available(r)] \in Int
  BY <1>1, SumInt
<1>6. bal'[Available(r)] = bal[Available(r)] - (IF from = Available(r) THEN n ELSE 0)
                                             + (IF to = Available(r) THEN n ELSE 0)
  BY <1>1, <1>2
<1>7. bal'[Available(r)] + SumFunctionOnSet(bal', S) = bal[Available(r)] + SumFunctionOnSet(bal, S)
  BY <1>1, <1>4, <1>5, <1>6 DEF S
<1>8. UNCHANGED Keys(C, r)
  BY DEF Keys, PayoutKey, TerminalKey, ReturnKey
<1> QED BY <1>3, <1>7, <1>8 DEF ConservedAt, S, Available

\* One more receipt.
LEMMA ReceiptAdded ==
  ASSUME NEW K, IsFiniteSet(K), \A i \in K : receipt[i] \in Int, NEW k \in K,
         receipt'[k] \in Int /\ \A i \in K \ {k} : receipt'[i] = receipt[i]
  PROVE  SumFunctionOnSet(receipt', K) = SumFunctionOnSet(receipt, K) + (receipt'[k] - receipt[k])
BY SumUpdate

\* A transfer turns a locked amount into a receipt.
LEMMA PayConserves ==
  ASSUME TypeOK, NEW r \in Roots, NEW C \in SUBSET Children, ConservedAt(C, r),
         NEW q \in Roots, NEW D \in SUBSET Children, NEW p \in Participants,
         NEW k \in Keys(D, q), r = q => C = D, r # q => C \cap D = {},
         receipt[k] = 0, Move(BucketOf(k, q), Wallet(p), pay[k].amount),
         receipt' = [receipt EXCEPT ![k] = pay[k].amount], UNCHANGED deposit
  PROVE  ConservedAt(C, r)'
<1> DEFINE S == Locked(C, r)
           from == BucketOf(k, q)
           n == pay[k].amount
<1>1. /\ bal \in [Accounts -> Nat] /\ receipt \in [PayKeys -> Nat]
      /\ IsFiniteSet(S) /\ S \subseteq Accounts
      /\ IsFiniteSet(Keys(C, r)) /\ Keys(C, r) \subseteq PayKeys
      /\ Available(r) \notin S /\ Available(r) \in Accounts
      /\ Wallet(p) \notin S \cup {Available(r)} /\ Wallet(p) \in Accounts
      /\ k \in PayKeys /\ n \in Nat
  BY MoneyTypes, OwnedFinite, NotLocked, AccountIds
<1>2. from \in Accounts /\ from \in Locked(D, q) /\ from # Wallet(p) /\ from # Available(r)
  BY OwnedFinite, Buckets, NotLocked
<1>3. from \in S <=> k \in Keys(C, r)
  <2>1. CASE r = q
    BY <1>2, <2>1
  <2>2. CASE r # q
    BY <1>2, <2>2, OwnedApart
  <2> QED BY <2>1, <2>2
<1>4. /\ UNCHANGED S /\ UNCHANGED Keys(C, r)
  BY DEF Locked, ParentPayout, Refund, ChildWork, ChildPayout,
         Keys, PayoutKey, TerminalKey, ReturnKey
<1>5. Move(from, Wallet(p), n)
  OBVIOUS
<1> HIDE DEF S, from, n
<1>6. /\ bal'[from] = bal[from] - n /\ bal'[Wallet(p)] = bal[Wallet(p)] + n
      /\ \A a \in Accounts \ {from, Wallet(p)} : bal'[a] = bal[a]
  BY <1>1, <1>2, <1>5, MoveType
<1>7. SumFunctionOnSet(bal', S) = SumFunctionOnSet(bal, S) - (IF from \in S THEN n ELSE 0)
  <2>1. \A a \in S : bal[a] \in Int
    BY <1>1
  <2>2. SumFunctionOnSet(bal, S) \in Int
    BY <1>1, <2>1, SumInt
  <2>3. CASE from \in S
    <3>1. bal'[from] \in Int /\ (\A a \in S \ {from} : bal'[a] = bal[a]) /\ bal[from] \in Int
      BY <1>1, <1>6, <2>3
    <3>2. SumFunctionOnSet(bal', S) = SumFunctionOnSet(bal, S) + (bal'[from] - bal[from])
      BY <1>1, <2>1, <2>3, <3>1, SumUpdate
    <3> QED BY <1>1, <1>6, <2>2, <2>3, <3>1, <3>2
  <2>4. CASE from \notin S
    <3>1. \A a \in S : bal'[a] = bal[a]
      BY <1>1, <1>6, <2>4
    <3> QED BY <1>1, <2>1, <2>2, <2>4, <3>1, SumEqual
  <2> QED BY <2>3, <2>4
<1>8. SumFunctionOnSet(receipt', Keys(C, r))
        = SumFunctionOnSet(receipt, Keys(C, r)) + (IF k \in Keys(C, r) THEN n ELSE 0)
  <2>1. \A i \in Keys(C, r) : receipt[i] \in Int
    BY <1>1
  <2>2. receipt'[k] = n /\ receipt[k] = 0 /\ \A i \in PayKeys \ {k} : receipt'[i] = receipt[i]
    BY <1>1 DEF n
  <2>3. SumFunctionOnSet(receipt, Keys(C, r)) \in Int
    BY <1>1, <2>1, SumInt
  <2>4. CASE k \in Keys(C, r)
    <3>1. SumFunctionOnSet(receipt', Keys(C, r))
            = SumFunctionOnSet(receipt, Keys(C, r)) + (receipt'[k] - receipt[k])
      <4>1. receipt'[k] \in Int /\ \A i \in Keys(C, r) \ {k} : receipt'[i] = receipt[i]
        BY <1>1, <2>2
      <4>2. IsFiniteSet(Keys(C, r))
        BY <1>1
      <4> QED BY <2>1, <2>4, <4>1, <4>2, ReceiptAdded
    <3>2. receipt'[k] - receipt[k] = n
      BY <1>1, <2>2
    <3> QED BY <2>4, <3>1, <3>2
  <2>5. CASE k \notin Keys(C, r)
    <3>1. \A i \in Keys(C, r) : receipt'[i] = receipt[i]
      BY <1>1, <2>2, <2>5
    <3>2. SumFunctionOnSet(receipt', Keys(C, r)) = SumFunctionOnSet(receipt, Keys(C, r))
      BY <1>1, <2>1, <3>1, SumEqual
    <3> QED BY <2>3, <2>5, <3>2
  <2> QED BY <2>4, <2>5
<1>9. bal'[Available(r)] = bal[Available(r)] /\ bal[Available(r)] \in Int
  BY <1>1, <1>2, <1>6
<1>10. SumFunctionOnSet(bal, S) \in Int /\ SumFunctionOnSet(receipt, Keys(C, r)) \in Int
  BY <1>1, SumInt
<1>11. deposit[r] = bal[Available(r)] + SumFunctionOnSet(bal, S)
                                      + SumFunctionOnSet(receipt, Keys(C, r))
  BY DEF ConservedAt, S
<1>12. deposit[r] = bal'[Available(r)] + SumFunctionOnSet(bal', S)
                                       + SumFunctionOnSet(receipt', Keys(C, r))
  BY <1>1, <1>3, <1>7, <1>8, <1>9, <1>10, <1>11
<1> QED BY <1>4, <1>12 DEF ConservedAt, S, Available

\* A payment and its bucket change by the same amount.
LEMMA BothChange ==
  ASSUME TypeOK, PayoutsFunded, NEW r \in Roots, NEW C \in SUBSET Children, FundedAt(C, r),
         NEW q \in Roots, NEW D \in SUBSET Children, NEW k \in Keys(D, q),
         r = q => C = D, r # q => C \cap D = {}, NEW n \in Int,
         bal'[BucketOf(k, q)] = bal[BucketOf(k, q)] + n,
         \A a \in Accounts \ {BucketOf(k, q)} :
           a[1] \in {"parent_payout", "refund", "child_payout"} => bal'[a] = bal[a],
         Unpaid'[k] = Unpaid[k] + n,
         \A i \in PayKeys \ {k} : Unpaid'[i] = Unpaid[i]
  PROVE  FundedAt(C, r)' /\ PayoutsFunded'
<1>1. /\ \A i \in PayKeys : Unpaid[i] \in Int
      /\ Keys(C, r) \subseteq PayKeys /\ Locked(C, r) \subseteq Accounts
      /\ Keys(D, q) \subseteq PayKeys
      /\ \A a : IsFiniteSet(KeysOn(C, r, a))
  <2>1. \A i \in PayKeys : Unpaid[i] \in Nat
    BY MoneyTypes
  <2>2. /\ Keys(C, r) \subseteq PayKeys /\ Locked(C, r) \subseteq Accounts
        /\ \A a : IsFiniteSet(KeysOn(C, r, a))
    BY OwnedFinite
  <2>3. Keys(D, q) \subseteq PayKeys
    BY OwnedFinite
  <2> QED BY <2>1, <2>2, <2>3
<1>2. k \in Keys(C, r) => r = q
  BY OwnedApart
<1>3. BucketOf(k, q) \in Locked(C, r) => r = q
  BY Buckets, OwnedApart
<1>4. /\ UNCHANGED Locked(C, r)
      /\ \A a : UNCHANGED KeysOn(C, r, a)
  BY DEF Locked, ParentPayout, Refund, ChildWork, ChildPayout,
         KeysOn, Keys, PayoutKey, TerminalKey, ReturnKey, BucketOf
<1>5. ASSUME NEW a \in Locked(C, r), a[1] # "child_work"
      PROVE  bal'[a] = SumFunctionOnSet(Unpaid', KeysOn(C, r, a))
  <2> DEFINE K == KeysOn(C, r, a)
  <2>1. /\ K \subseteq PayKeys /\ IsFiniteSet(K) /\ \A i \in K : Unpaid[i] \in Int
        /\ a[1] \in {"parent_payout", "refund", "child_payout"}
        /\ bal[a] = SumFunctionOnSet(Unpaid, K)
    <3>1. a[1] \in {"parent_payout", "refund", "child_payout"}
      BY <1>5 DEF Locked, ParentPayout, Refund, ChildWork, ChildPayout
    <3>2. K \subseteq PayKeys
      BY <1>1 DEF KeysOn
    <3>3. bal[a] = SumFunctionOnSet(Unpaid, K)
      BY <1>5 DEF FundedAt
    <3> QED BY <1>1, <3>1, <3>2, <3>3
  <2>2. k \in K <=> BucketOf(k, q) = a
    BY <1>2, <1>3, <1>5 DEF KeysOn
  <2> HIDE DEF K
  <2>3. CASE k \in K
    <3>1. Unpaid'[k] \in Int /\ Unpaid[k] \in Int /\ \A i \in K \ {k} : Unpaid'[i] = Unpaid[i]
      BY <1>1, <2>1, <2>3
    <3>2. SumFunctionOnSet(Unpaid', K) = SumFunctionOnSet(Unpaid, K) + (Unpaid'[k] - Unpaid[k])
      BY <2>1, <2>3, <3>1, SumUpdate
    <3>3. SumFunctionOnSet(Unpaid, K) \in Int
      BY <2>1, SumInt
    <3>4. bal'[a] = bal[a] + n
      BY <2>2, <2>3
    <3> QED BY <2>1, <3>1, <3>2, <3>3, <3>4 DEF K
  <2>4. CASE k \notin K
    <3>1. \A i \in K : Unpaid'[i] = Unpaid[i]
      BY <2>1, <2>4
    <3>2. SumFunctionOnSet(Unpaid', K) = SumFunctionOnSet(Unpaid, K)
      BY <2>1, <3>1, SumEqual
    <3>3. bal'[a] = bal[a]
      BY <1>1, <2>1, <2>2, <2>4
    <3> QED BY <2>1, <3>2, <3>3 DEF K
  <2> QED BY <2>3, <2>4
<1>6. PayoutsFunded'
  <2> SUFFICES ASSUME NEW c \in Children PROVE bal'[ChildPayout(c)] = Unpaid'[PayoutKey(c)]
    BY DEF PayoutsFunded, ChildPayout, PayoutKey
  <2>1. BucketOf(k, q) = ChildPayout(c) <=> k = PayoutKey(c)
    <3>1. D \cap Roots = {} /\ c \notin Roots
      BY JobsAssumption
    <3> QED BY <3>1 DEF Keys, BucketOf, PayoutKey, TerminalKey, ReturnKey, ParentPayout,
                        Refund, ChildPayout
  <2>2. ChildPayout(c) \in Accounts /\ PayoutKey(c) \in PayKeys
        /\ ChildPayout(c)[1] = "child_payout"
        /\ bal[ChildPayout(c)] = Unpaid[PayoutKey(c)]
    BY AccountIds, PayIds DEF Jobs, ChildPayout, PayoutsFunded
  <2> QED BY <2>1, <2>2
<1> QED BY <1>4, <1>5, <1>6 DEF FundedAt

\* Nothing is reserved or paid, and the buckets are left alone.
LEMMA NoneChange ==
  ASSUME TypeOK, PayoutsFunded, NEW r \in Roots, NEW C \in SUBSET Children, FundedAt(C, r),
         \A a \in Accounts :
           a[1] \in {"parent_payout", "refund", "child_payout"} => bal'[a] = bal[a],
         \A i \in PayKeys : Unpaid'[i] = Unpaid[i]
  PROVE  FundedAt(C, r)' /\ PayoutsFunded'
<1>1. /\ PayoutKey(r) \in Keys(C, r) /\ BucketOf(PayoutKey(r), r) = ParentPayout(r)
      /\ ParentPayout(r) \in Accounts /\ PayoutKey(r) \in PayKeys
      /\ ParentPayout(r)[1] = "parent_payout"
  BY Buckets, AccountIds, PayIds DEF Jobs, ParentPayout
<1>2. bal[ParentPayout(r)] \in Int /\ Unpaid[PayoutKey(r)] \in Int
  BY <1>1, MoneyTypes
<1>3. /\ bal'[ParentPayout(r)] = bal[ParentPayout(r)] + 0
      /\ Unpaid'[PayoutKey(r)] = Unpaid[PayoutKey(r)] + 0
  BY <1>1, <1>2
<1> QED BY <1>1, <1>3, BothChange

\* The usage of a child follows what enters and leaves its two accounts.
LEMMA MoveUsage ==
  ASSUME TypeOK, NEW from \in Accounts, NEW to \in Accounts, from # to, NEW n \in Nat,
         Move(from, to, n), UNCHANGED receipt, NEW c \in Children
  PROVE  Usage'[c] = Usage[c] - (IF from \in {ChildWork(c), ChildPayout(c)} THEN n ELSE 0)
                              + (IF to \in {ChildWork(c), ChildPayout(c)} THEN n ELSE 0)
<1>1. /\ bal \in [Accounts -> Nat] /\ receipt[PayoutKey(c)] \in Nat
      /\ ChildWork(c) \in Accounts /\ ChildPayout(c) \in Accounts
  BY MoneyTypes, AccountIds, PayIds DEF Jobs
<1>2. ChildWork(c) # ChildPayout(c)
  BY DEF ChildWork, ChildPayout
<1>3. /\ bal'[from] = bal[from] - n /\ bal'[to] = bal[to] + n
      /\ \A a \in Accounts \ {from, to} : bal'[a] = bal[a]
  BY <1>1, MoveType
<1>4. /\ bal'[ChildWork(c)] = bal[ChildWork(c)] - (IF from = ChildWork(c) THEN n ELSE 0)
                                                + (IF to = ChildWork(c) THEN n ELSE 0)
      /\ bal'[ChildPayout(c)] = bal[ChildPayout(c)] - (IF from = ChildPayout(c) THEN n ELSE 0)
                                                    + (IF to = ChildPayout(c) THEN n ELSE 0)
  BY <1>1, <1>3
<1>5. /\ Usage[c] = bal[ChildWork(c)] + bal[ChildPayout(c)] + receipt[PayoutKey(c)]
      /\ Usage'[c] = bal'[ChildWork(c)] + bal'[ChildPayout(c)] + receipt[PayoutKey(c)]
  BY DEF Usage, ChildWork, ChildPayout, PayoutKey
<1>6. bal[ChildWork(c)] \in Nat /\ bal[ChildPayout(c)] \in Nat
  BY <1>1
<1> QED BY <1>1, <1>2, <1>4, <1>5, <1>6

\* A transfer of a child's payout leaves its usage as it is.
LEMMA PayUsage ==
  ASSUME TypeOK, NEW p \in Participants, NEW q \in Roots, NEW k \in PayKeys, Pays(p, q, k)
  PROVE  /\ \A c \in Children : Usage'[c] = Usage[c]
         /\ \A r \in Roots : bal'[Available(r)] = bal[Available(r)]
<1>1. /\ bal \in [Accounts -> Nat] /\ receipt \in [PayKeys -> Nat] /\ pay[k].amount \in Nat
      /\ ChildrenOf(q) \in SUBSET Children
  BY MoneyTypes DEF ChildrenOf
<1> DEFINE from == BucketOf(k, q)
           n == pay[k].amount
<1>2. /\ from \in Accounts /\ from[1] \notin {"available", "child_work"}
      /\ Wallet(p) \in Accounts /\ from # Wallet(p)
      /\ \A c \in Children : from = ChildPayout(c) <=> k = PayoutKey(c)
  <2>1. k \in Keys(ChildrenOf(q), q)
    BY DEF Pays
  <2>2. from \in Locked(ChildrenOf(q), q) /\ from[1] \notin {"available", "child_work"}
    BY <1>1, <2>1, Buckets
  <2>3. ASSUME NEW c \in Children PROVE from = ChildPayout(c) <=> k = PayoutKey(c)
    <3>1. ChildrenOf(q) \cap Roots = {} /\ c \notin Roots
      BY <1>1, JobsAssumption
    <3> QED BY <2>1, <3>1 DEF Keys, BucketOf, PayoutKey, TerminalKey, ReturnKey, ParentPayout,
                              Refund, ChildPayout
  <2> QED BY <1>1, <2>2, <2>3, OwnedFinite, NotLocked, AccountIds
<1>3. Move(from, Wallet(p), n) /\ receipt' = [receipt EXCEPT ![k] = n] /\ receipt[k] = 0
  BY DEF Pays
<1> HIDE DEF from, n
<1>4. n \in Nat
  BY <1>1 DEF n
<1>5. /\ bal'[from] = bal[from] - n
      /\ \A a \in Accounts \ {from, Wallet(p)} : bal'[a] = bal[a]
  BY <1>1, <1>2, <1>3, <1>4, MoveType
<1>6. ASSUME NEW c \in Children PROVE Usage'[c] = Usage[c]
  <2>1. /\ ChildWork(c) \in Accounts \ {from, Wallet(p)}
        /\ ChildPayout(c) \in Accounts \ {Wallet(p)}
        /\ PayoutKey(c) \in PayKeys
    BY <1>2, AccountIds, PayIds DEF ChildWork, ChildPayout, Wallet, Jobs
  <2>2. /\ bal'[ChildWork(c)] = bal[ChildWork(c)]
        /\ bal'[ChildPayout(c)] + receipt'[PayoutKey(c)]
             = bal[ChildPayout(c)] + receipt[PayoutKey(c)]
        /\ {bal[ChildWork(c)], bal[ChildPayout(c)], receipt[PayoutKey(c)],
            bal'[ChildPayout(c)], receipt'[PayoutKey(c)]} \subseteq Int
    <3>1. CASE k = PayoutKey(c)
      <4>1. from = ChildPayout(c) /\ receipt'[PayoutKey(c)] = n /\ receipt[PayoutKey(c)] = 0
        BY <1>1, <1>2, <1>3, <3>1
      <4> QED BY <1>1, <1>4, <1>5, <2>1, <4>1
    <3>2. CASE k # PayoutKey(c)
      <4>1. from # ChildPayout(c) /\ receipt'[PayoutKey(c)] = receipt[PayoutKey(c)]
        BY <1>1, <1>2, <1>3, <2>1, <3>2
      <4> QED BY <1>1, <1>5, <2>1, <4>1
    <3> QED BY <3>1, <3>2
  <2>3. /\ Usage[c] = bal[ChildWork(c)] + bal[ChildPayout(c)] + receipt[PayoutKey(c)]
        /\ Usage'[c] = bal'[ChildWork(c)] + bal'[ChildPayout(c)] + receipt'[PayoutKey(c)]
    BY DEF Usage, ChildWork, ChildPayout, PayoutKey
  <2> QED BY <2>2, <2>3
<1>7. ASSUME NEW r \in Roots PROVE bal'[Available(r)] = bal[Available(r)]
  <2>1. Available(r) \in Accounts \ {from, Wallet(p)}
    BY <1>2, AccountIds DEF Available, Wallet
  <2> QED BY <1>5, <2>1
<1> QED BY <1>6, <1>7

\* The usage d that the children C of a root gain by a step: none but by hiring
\* within the policy; and while the root is undecided, it is what leaves available.
UsageGain(C, r, d) ==
  /\ SumFunctionOnSet(Usage', C) = SumFunctionOnSet(Usage, C) + d
  /\ \/ d <= 0
     \/ InUse(r) + d <= Policy.max_amount /\ InUse(r) + d <= RatioCap(r)
  /\ state'[r] \notin Terminal =>
       bal'[Available(r)] + d = bal[Available(r)] + (deposit'[r] - deposit[r])
  /\ deposit'[r] \in Int /\ deposit'[r] >= deposit[r]

LEMMA UsageSame ==
  ASSUME TypeOK, NEW r \in Roots, NEW C \in SUBSET Children,
         \A c \in C : Usage'[c] = Usage[c],
         state'[r] \notin Terminal =>
           bal'[Available(r)] = bal[Available(r)] + (deposit'[r] - deposit[r]),
         deposit'[r] \in Int, deposit'[r] >= deposit[r]
  PROVE  UsageGain(C, r, 0)
<1>1. IsFiniteSet(C) /\ \A c \in C : Usage[c] \in Int
  <2>1. IsFiniteSet(C)
    BY OwnedFinite
  <2>2. \A c \in Children : Usage[c] \in Nat
    BY MoneyTypes
  <2> QED BY <2>1, <2>2
<1>2. SumFunctionOnSet(Usage', C) = SumFunctionOnSet(Usage, C)
      /\ SumFunctionOnSet(Usage, C) \in Int
  BY <1>1, SumEqual, SumInt
<1>3. bal[Available(r)] \in Int /\ deposit[r] \in Int
  BY AccountIds, MoneyTypes
<1> QED BY <1>2, <1>3 DEF UsageGain

LEMMA UsageOfOne ==
  ASSUME TypeOK, NEW r \in Roots, NEW C \in SUBSET Children, NEW e \in C, NEW d \in Int,
         Usage'[e] = Usage[e] + d, \A c \in C \ {e} : Usage'[c] = Usage[c]
  PROVE  SumFunctionOnSet(Usage', C) = SumFunctionOnSet(Usage, C) + d
<1>1. IsFiniteSet(C) /\ \A c \in C : Usage[c] \in Int
  <2>1. IsFiniteSet(C)
    BY OwnedFinite
  <2>2. \A c \in Children : Usage[c] \in Nat
    BY MoneyTypes
  <2> QED BY <2>1, <2>2
<1>2. SumFunctionOnSet(Usage', C) = SumFunctionOnSet(Usage, C) + (Usage'[e] - Usage[e])
  BY <1>1, SumUpdate
<1>3. SumFunctionOnSet(Usage, C) \in Int
  BY <1>1, SumInt
<1> QED BY <1>1, <1>2, <1>3

\* A move within root q, seen from root r with the children C.
LEMMA MoveGain ==
  ASSUME TypeOK, NEW r \in Roots, NEW C \in SUBSET Children, NEW q \in Roots, NEW n \in Nat,
         NEW from \in Accounts, NEW to \in Accounts, from # to,
         Move(from, to, n), UNCHANGED <<receipt, deposit>>,
         \/ /\ from = Available(q) /\ to \in {ParentPayout(q), Refund(q)}
            /\ state'[q] \in Terminal
         \/ \E e \in Children :
              /\ e \in C <=> r = q
              /\ \/ from = ChildWork(e) /\ to = ChildPayout(e)
                 \/ from = ChildWork(e) /\ to = Refund(q) /\ state'[q] \in Terminal
                 \/ from = ChildWork(e) /\ to = Available(q)
                 \/ /\ from = Available(q) /\ to = ChildWork(e)
                    /\ InUse(q) + n <= Policy.max_amount /\ InUse(q) + n <= RatioCap(q)
  PROVE  \E d \in Int : UsageGain(C, r, d)
<1>1. /\ bal \in [Accounts -> Nat] /\ deposit[r] \in Int /\ deposit'[r] = deposit[r]
      /\ Available(r) \in Accounts
      /\ \A c \in Children : Usage[c] \in Int
  BY MoneyTypes, AccountIds
<1>2. /\ bal'[from] = bal[from] - n /\ bal'[to] = bal[to] + n
      /\ \A a \in Accounts \ {from, to} : bal'[a] = bal[a]
  BY <1>1, MoveType
<1>3. \A c \in Children :
        Usage'[c] = Usage[c] - (IF from \in {ChildWork(c), ChildPayout(c)} THEN n ELSE 0)
                             + (IF to \in {ChildWork(c), ChildPayout(c)} THEN n ELSE 0)
  BY MoveUsage
<1>4. CASE /\ from = Available(q) /\ to \in {ParentPayout(q), Refund(q)}
           /\ state'[q] \in Terminal
  <2>1. \A c \in Children : Usage'[c] = Usage[c]
    BY <1>1, <1>3, <1>4 DEF Available, ParentPayout, Refund, ChildWork, ChildPayout
  <2>2. r # q => bal'[Available(r)] = bal[Available(r)]
    BY <1>1, <1>2, <1>4 DEF Available, ParentPayout, Refund
  <2> QED BY <1>1, <1>4, <2>1, <2>2, UsageSame
<1>5. ASSUME NEW e \in Children, e \in C <=> r = q,
             from = ChildWork(e) /\ to = ChildPayout(e)
      PROVE  UsageGain(C, r, 0)
  <2>1. \A c \in Children : Usage'[c] = Usage[c]
    BY <1>1, <1>3, <1>5 DEF ChildWork, ChildPayout
  <2>2. bal'[Available(r)] = bal[Available(r)]
    BY <1>1, <1>2, <1>5 DEF Available, ChildWork, ChildPayout
  <2> QED BY <1>1, <2>1, <2>2, UsageSame
<1>6. ASSUME NEW e \in Children, e \in C <=> r = q, from = ChildWork(e),
             \/ to = Refund(q) /\ state'[q] \in Terminal
             \/ to = Available(q)
      PROVE  UsageGain(C, r, IF r = q THEN -n ELSE 0)
  <2>1. /\ Usage'[e] = Usage[e] + (-n)
        /\ \A c \in Children \ {e} : Usage'[c] = Usage[c]
    BY <1>1, <1>3, <1>6 DEF Available, Refund, ChildWork, ChildPayout
  <2>2. CASE r # q
    <3>1. bal'[Available(r)] = bal[Available(r)]
      BY <1>1, <1>2, <1>6, <2>2 DEF Available, Refund, ChildWork
    <3> QED BY <1>1, <1>6, <2>1, <2>2, <3>1, UsageSame
  <2>3. CASE r = q
    <3>1. SumFunctionOnSet(Usage', C) = SumFunctionOnSet(Usage, C) + (-n)
      BY <1>6, <2>1, <2>3, UsageOfOne
    <3>2. state'[r] \notin Terminal => bal'[Available(r)] = bal[Available(r)] + n
      BY <1>2, <1>6, <2>3
    <3> QED BY <1>1, <2>3, <3>1, <3>2 DEF UsageGain
  <2> QED BY <2>2, <2>3
<1>7. ASSUME NEW e \in Children, e \in C <=> r = q, from = Available(q), to = ChildWork(e),
             InUse(q) + n <= Policy.max_amount, InUse(q) + n <= RatioCap(q)
      PROVE  UsageGain(C, r, IF r = q THEN n ELSE 0)
  <2>1. /\ Usage'[e] = Usage[e] + n
        /\ \A c \in Children \ {e} : Usage'[c] = Usage[c]
    BY <1>1, <1>3, <1>7 DEF Available, ChildWork, ChildPayout
  <2>2. CASE r # q
    <3>1. bal'[Available(r)] = bal[Available(r)]
      BY <1>1, <1>2, <1>7, <2>2 DEF Available, ChildWork
    <3> QED BY <1>1, <1>7, <2>1, <2>2, <3>1, UsageSame
  <2>3. CASE r = q
    <3>1. SumFunctionOnSet(Usage', C) = SumFunctionOnSet(Usage, C) + n
      BY <1>7, <2>1, <2>3, UsageOfOne
    <3>2. bal'[Available(r)] = bal[Available(r)] - n
      BY <1>2, <1>7, <2>3
    <3> QED BY <1>1, <1>7, <2>3, <3>1, <3>2 DEF UsageGain
  <2> QED BY <2>2, <2>3
<1> QED BY <1>4, <1>5, <1>6, <1>7

-----------------------------------------------------------------------------
(***************************************************************************)
(* Every step keeps the invariants of the money.                           *)
(***************************************************************************)

\* The moves within a root that has the children D.
MovesIn(D, q, from, to, n) ==
  \/ /\ from = Available(q) /\ to \in {ParentPayout(q), Refund(q)}
     /\ state'[q] \in Terminal
  \/ \E e \in D :
       \/ from = ChildWork(e) /\ to = ChildPayout(e)
       \/ from = ChildWork(e) /\ to = Refund(q) /\ state'[q] \in Terminal
       \/ from = ChildWork(e) /\ to = Available(q)
       \/ /\ from = Available(q) /\ to = ChildWork(e)
          /\ InUse(q) + n <= Policy.max_amount /\ InUse(q) + n <= RatioCap(q)

InRootStep(q, D) ==
  \E from, to \in Accounts, n \in Nat :
    /\ from # to /\ Move(from, to, n) /\ UNCHANGED <<deposit, receipt>>
    /\ {from, to} \subseteq Locked(D, q) \cup {Available(q)}
    /\ MovesIn(D, q, from, to, n)

LEMMA InRoot ==
  ASSUME TypeOK, NEW q \in Roots, NEW k \in PayKeys, NEW n \in Nat,
         \/ RootBooks(q, k, n)
         \/ \E c \in Children : ChildBooks(q, c, k, n) \/ Releases(q, c, n) \/ Hires(q, c, n),
         NEW D \in SUBSET Children, D = ChildrenOf(q)'
  PROVE  InRootStep(q, D)
<1>1. /\ {Available(q), ParentPayout(q), Refund(q)} \subseteq Accounts
      /\ {ParentPayout(q), Refund(q)} \subseteq Locked(D, q)
      /\ \A c \in Children : {ChildWork(c), ChildPayout(c)} \subseteq Accounts
      /\ \A c \in D : {ChildWork(c), ChildPayout(c)} \subseteq Locked(D, q)
  BY AccountIds, NotLocked
<1>2. CASE RootBooks(q, k, n)
  <2>1. BucketOf(k, q) \in {ParentPayout(q), Refund(q)}
    BY <1>2, Buckets DEF RootBooks
  <2>2. /\ Move(Available(q), BucketOf(k, q), n) /\ UNCHANGED <<deposit, receipt>>
        /\ state'[q] \in Terminal /\ Available(q) # BucketOf(k, q)
    BY <1>2, <2>1 DEF RootBooks, Books, Available, ParentPayout, Refund
  <2> QED BY <1>1, <2>1, <2>2 DEF InRootStep, MovesIn
<1>3. ASSUME NEW c \in Children, ChildBooks(q, c, k, n) PROVE InRootStep(q, D)
  <2>1. c \in D /\ ChildrenOf(q) \in SUBSET Children
    BY <1>3 DEF ChildBooks, Books, ChildrenOf
  <2>2. \/ k = PayoutKey(c) /\ BucketOf(k, q) = ChildPayout(c)
        \/ k = ReturnKey(c) /\ BucketOf(k, q) = Refund(q) /\ state'[q] \in Terminal
    BY <1>3, <2>1, Buckets DEF ChildBooks
  <2>3. /\ Move(ChildWork(c), BucketOf(k, q), n) /\ UNCHANGED <<deposit, receipt>>
        /\ ChildWork(c) # BucketOf(k, q)
    BY <1>3, <2>2 DEF ChildBooks, Books, ChildWork, ChildPayout, Refund
  <2> QED BY <1>1, <2>1, <2>2, <2>3 DEF InRootStep, MovesIn
<1>4. ASSUME NEW c \in Children, Releases(q, c, n) PROVE InRootStep(q, D)
  <2>1. c \in D /\ ChildWork(c) # Available(q)
    BY <1>4 DEF Releases, ChildrenOf, ChildWork, Available
  <2> QED BY <1>1, <1>4, <2>1 DEF InRootStep, MovesIn, Releases
<1>5. ASSUME NEW c \in Children, Hires(q, c, n) PROVE InRootStep(q, D)
  <2>1. c \in D /\ ChildWork(c) # Available(q)
    BY <1>5 DEF Hires, ChildrenOf, ChildWork, Available, TypeOK
  <2> QED BY <1>1, <1>5, <2>1 DEF InRootStep, MovesIn, Hires
<1> QED BY <1>2, <1>3, <1>4, <1>5

\* The same step, seen from any root.
LEMMA InRootKeeps ==
  ASSUME TypeOK, NEW q \in Roots, NEW D \in SUBSET Children, InRootStep(q, D),
         NEW r \in Roots, NEW C \in SUBSET Children, r = q => C = D, r # q => C \cap D = {}
  PROVE  /\ ConservedAt(C, r) => ConservedAt(C, r)'
         /\ \E d \in Int : UsageGain(C, r, d)
<1>1. PICK from \in Accounts, to \in Accounts, n \in Nat :
        /\ from # to /\ Move(from, to, n) /\ UNCHANGED <<deposit, receipt>>
        /\ {from, to} \subseteq Locked(D, q) \cup {Available(q)}
        /\ MovesIn(D, q, from, to, n)
  BY DEF InRootStep
<1>2. \/ {from, to} \subseteq Locked(C, r) \cup {Available(r)}
      \/ {from, to} \cap (Locked(C, r) \cup {Available(r)}) = {}
  <2>1. CASE r = q
    BY <1>1, <2>1
  <2>2. CASE r # q
    BY <1>1, <2>2, OwnedApart, NotLocked
  <2> QED BY <2>1, <2>2
<1>3. ConservedAt(C, r) => ConservedAt(C, r)'
  BY <1>1, <1>2, MoveConserves
<1>4. \A e \in D : e \in Children /\ (e \in C <=> r = q)
  OBVIOUS
<1>5. \E d \in Int : UsageGain(C, r, d)
  <2>1. CASE /\ from = Available(q) /\ to \in {ParentPayout(q), Refund(q)}
             /\ state'[q] \in Terminal
    BY <1>1, <2>1, MoveGain
  <2>2. CASE \E e \in D :
              \/ from = ChildWork(e) /\ to = ChildPayout(e)
              \/ from = ChildWork(e) /\ to = Refund(q) /\ state'[q] \in Terminal
              \/ from = ChildWork(e) /\ to = Available(q)
              \/ /\ from = Available(q) /\ to = ChildWork(e)
                 /\ InUse(q) + n <= Policy.max_amount /\ InUse(q) + n <= RatioCap(q)
    <3>1. \E e \in Children :
              /\ e \in C <=> r = q
              /\ \/ from = ChildWork(e) /\ to = ChildPayout(e)
                 \/ from = ChildWork(e) /\ to = Refund(q) /\ state'[q] \in Terminal
                 \/ from = ChildWork(e) /\ to = Available(q)
                 \/ /\ from = Available(q) /\ to = ChildWork(e)
                    /\ InUse(q) + n <= Policy.max_amount /\ InUse(q) + n <= RatioCap(q)
      BY <1>4, <2>2
    <3> QED BY <1>1, <3>1, MoveGain
  <2> QED BY <1>1, <2>1, <2>2 DEF MovesIn
<1> QED BY <1>3, <1>5

LEMMA DepositKeeps ==
  ASSUME TypeOK, NEW q \in Roots, NEW p \in Participants, NEW n \in Nat, Deposits(p, q, n),
         NEW r \in Roots, NEW C \in SUBSET Children
  PROVE  /\ ConservedAt(C, r) => ConservedAt(C, r)'
         /\ \E d \in Int : UsageGain(C, r, d)
<1>1. /\ bal \in [Accounts -> Nat] /\ deposit \in [Roots -> Nat]
      /\ Wallet(p) \in Accounts /\ Available(q) \in Accounts /\ Available(r) \in Accounts
      /\ Wallet(p) # Available(q)
      /\ IsFiniteSet(Locked(C, r)) /\ Locked(C, r) \subseteq Accounts
      /\ Wallet(p) \notin Locked(C, r) \cup {Available(r)} /\ Available(q) \notin Locked(C, r)
      /\ r # q => Available(r) # Available(q)
  BY MoneyTypes, AccountIds, OwnedFinite, NotLocked DEF Available, Wallet
<1>2. Move(Wallet(p), Available(q), n) /\ UNCHANGED receipt
      /\ deposit' = [deposit EXCEPT ![q] = @ + n]
  BY DEF Deposits
<1>3. /\ bal'[Available(q)] = bal[Available(q)] + n
      /\ \A a \in Accounts \ {Wallet(p), Available(q)} : bal'[a] = bal[a]
  BY <1>1, <1>2, MoveType
<1>4. /\ bal[Available(r)] \in Nat /\ deposit[r] \in Nat /\ deposit'[r] \in Nat
      /\ bal'[Available(r)] = bal[Available(r)] + (deposit'[r] - deposit[r])
      /\ deposit'[r] >= deposit[r]
  <2>1. CASE r = q
    BY <1>1, <1>2, <1>3, <2>1
  <2>2. CASE r # q
    <3>1. bal'[Available(r)] = bal[Available(r)] /\ deposit'[r] = deposit[r]
      BY <1>1, <1>2, <1>3, <2>2
    <3> QED BY <1>1, <3>1
  <2> QED BY <2>1, <2>2
<1>5. SumFunctionOnSet(bal', Locked(C, r)) = SumFunctionOnSet(bal, Locked(C, r))
      /\ SumFunctionOnSet(bal, Locked(C, r)) \in Int
  <2>1. \A a \in Locked(C, r) : bal[a] \in Int /\ bal'[a] = bal[a]
    BY <1>1, <1>3
  <2> QED BY <1>1, <2>1, SumEqual, SumInt
<1>6. SumFunctionOnSet(receipt, Keys(C, r)) \in Int
  BY MoneyTypes, OwnedFinite, SumInt
<1>7. UNCHANGED <<Locked(C, r), Keys(C, r), Available(r)>>
  BY DEF Locked, ParentPayout, Refund, ChildWork, ChildPayout, Available,
         Keys, PayoutKey, TerminalKey, ReturnKey
<1>8. ConservedAt(C, r) => ConservedAt(C, r)'
  <2>1. ASSUME ConservedAt(C, r)
        PROVE  deposit'[r] = bal'[Available(r)] + SumFunctionOnSet(bal', Locked(C, r))
                                                + SumFunctionOnSet(receipt', Keys(C, r))
    BY <1>2, <1>4, <1>5, <1>6, <2>1 DEF ConservedAt
  <2> QED BY <1>7, <2>1 DEF ConservedAt
<1>9. \A c \in C : Usage'[c] = Usage[c]
  <2> TAKE c \in C
  <2>1. Usage'[c] = Usage[c] - (IF Wallet(p) \in {ChildWork(c), ChildPayout(c)} THEN n ELSE 0)
                 + (IF Available(q) \in {ChildWork(c), ChildPayout(c)} THEN n ELSE 0)
    BY <1>1, <1>2, MoveUsage
  <2>2. Wallet(p) \notin {ChildWork(c), ChildPayout(c)}
        /\ Available(q) \notin {ChildWork(c), ChildPayout(c)}
    BY DEF Wallet, Available, ChildWork, ChildPayout
  <2> QED BY <2>1, <2>2, MoneyTypes
<1> QED BY <1>4, <1>8, <1>9, UsageSame

\* A reservation is booked for an amount that its bucket receives.
LEMMA BooksFunds ==
  ASSUME OnceInv, PayoutsFunded, NEW q \in Roots, NEW D \in SUBSET Children,
         NEW k \in Keys(D, q), NEW from \in Accounts, from[1] \in {"available", "child_work"},
         NEW n \in Nat, Books(q, from, k, n),
         NEW r \in Roots, NEW C \in SUBSET Children, FundedAt(C, r),
         r = q => C = D, r # q => C \cap D = {}
  PROVE  FundedAt(C, r)' /\ PayoutsFunded'
<1>1. /\ TypeOK /\ bal \in [Accounts -> Nat] /\ k \in PayKeys
      /\ BucketOf(k, q) \in Accounts /\ BucketOf(k, q) # from
      /\ pay[k].amount \in Nat
  BY MoneyTypes, OwnedFinite, Buckets DEF OnceInv, IInv
<1>2. receipt[k] = 0 /\ pay[k].amount = 0
  BY <1>1 DEF Books, OnceInv, IInv, ReceiptsMatch, ReservationsPositive
<1>3. /\ bal'[BucketOf(k, q)] = bal[BucketOf(k, q)] + n
      /\ \A a \in Accounts \ {from, BucketOf(k, q)} : bal'[a] = bal[a]
  BY <1>1, MoveType DEF Books
<1>4. /\ Unpaid[k] = 0 /\ Unpaid'[k] = n
      /\ \A i \in PayKeys \ {k} : Unpaid'[i] = Unpaid[i]
  BY <1>1, <1>2 DEF Unpaid, Books
<1>5. \A a \in Accounts \ {BucketOf(k, q)} :
        a[1] \in {"parent_payout", "refund", "child_payout"} => bal'[a] = bal[a]
  BY <1>3
<1>6. Unpaid'[k] = Unpaid[k] + n
  BY <1>4
<1> QED BY <1>1, <1>3, <1>4, <1>5, <1>6, BothChange

\* A transfer takes the amount of its payment from the bucket.
LEMMA PaysFunds ==
  ASSUME TypeOK, PayoutsFunded, NEW q \in Roots, NEW D \in SUBSET Children,
         NEW k \in Keys(D, q), NEW p \in Participants,
         receipt[k] = 0, Move(BucketOf(k, q), Wallet(p), pay[k].amount),
         receipt' = [receipt EXCEPT ![k] = pay[k].amount], UNCHANGED pay,
         NEW r \in Roots, NEW C \in SUBSET Children, FundedAt(C, r),
         r = q => C = D, r # q => C \cap D = {}
  PROVE  FundedAt(C, r)' /\ PayoutsFunded'
<1> DEFINE n == pay[k].amount
<1>1. /\ bal \in [Accounts -> Nat] /\ receipt \in [PayKeys -> Nat] /\ k \in PayKeys
      /\ BucketOf(k, q) \in Accounts /\ Wallet(p) \in Accounts
      /\ BucketOf(k, q) # Wallet(p) /\ n \in Nat
  BY MoneyTypes, OwnedFinite, Buckets, NotLocked, AccountIds
<1>2. /\ bal'[BucketOf(k, q)] = bal[BucketOf(k, q)] - n
      /\ \A a \in Accounts \ {Wallet(p), BucketOf(k, q)} : bal'[a] = bal[a]
  BY <1>1, MoveType
<1>3. /\ Unpaid[k] = n /\ Unpaid'[k] = 0
      /\ \A i \in PayKeys \ {k} : Unpaid'[i] = Unpaid[i]
  BY <1>1 DEF Unpaid
<1>4. \A a \in Accounts \ {BucketOf(k, q)} :
        a[1] \in {"parent_payout", "refund", "child_payout"} => bal'[a] = bal[a]
  BY <1>2 DEF Wallet
<1> HIDE DEF n
<1>5. bal[BucketOf(k, q)] \in Int /\ -n \in Int
  BY <1>1
<1>6. bal'[BucketOf(k, q)] = bal[BucketOf(k, q)] + (-n) /\ Unpaid'[k] = Unpaid[k] + (-n)
  BY <1>1, <1>2, <1>3, <1>5
<1> QED BY <1>3, <1>4, <1>5, <1>6, BothChange

\* Moves that touch no bucket of a payment.
LEMMA OutsideFunds ==
  ASSUME TypeOK, PayoutsFunded, NEW from \in Accounts, NEW to \in Accounts, from # to,
         {from[1], to[1]} \subseteq {"available", "child_work", "wallet"}, NEW n \in Nat,
         Move(from, to, n), UNCHANGED <<receipt, pay>>,
         NEW r \in Roots, NEW C \in SUBSET Children, FundedAt(C, r)
  PROVE  FundedAt(C, r)' /\ PayoutsFunded'
<1>1. bal \in [Accounts -> Nat]
  BY MoneyTypes
<1>2. \A a \in Accounts \ {from, to} : bal'[a] = bal[a]
  BY <1>1, MoveType
<1>3. \A i \in PayKeys : Unpaid'[i] = Unpaid[i]
  BY DEF Unpaid
<1> QED BY <1>2, <1>3, NoneChange

\* Any step, on the reservations of a root.
LEMMA FundedStep ==
  ASSUME OnceInv, PayoutsFunded, MoneyStep,
         NEW r \in Roots, NEW C \in SUBSET Children, C = ChildrenOf(r)', FundedAt(C, r)
  PROVE  FundedAt(C, r)' /\ PayoutsFunded'
<1>1. TypeOK /\ bal \in [Accounts -> Nat]
  BY MoneyTypes DEF OnceInv, IInv
<1>2. CASE Quiet
  <2>1. \A i \in PayKeys : Unpaid'[i] = Unpaid[i]
    BY <1>2 DEF Quiet, Unpaid
  <2>2. \A a \in Accounts : bal'[a] = bal[a]
    BY <1>2 DEF Quiet
  <2> QED BY <1>1, <2>1, <2>2, NoneChange
<1>3. ASSUME NEW q \in Roots, NEW k \in PayKeys, NEW n \in Nat,
             \/ RootBooks(q, k, n)
             \/ \E c \in Children : ChildBooks(q, c, k, n)
      PROVE  FundedAt(C, r)' /\ PayoutsFunded'
  <2>1. PICK D \in SUBSET Children : D = ChildrenOf(q)'
    BY DEF ChildrenOf
  <2>2. (r = q => C = D) /\ (r # q => C \cap D = {})
    BY <2>1, FamiliesApart
  <2>3. CASE RootBooks(q, k, n)
    BY <2>2, <2>3, AccountIds, BooksFunds DEF RootBooks, Available, Keys
  <2>4. ASSUME NEW c \in Children, ChildBooks(q, c, k, n)
        PROVE  FundedAt(C, r)' /\ PayoutsFunded'
    <3>1. c \in D
      BY <2>1, <2>4 DEF ChildBooks, Books, ChildrenOf
    <3> QED BY <2>2, <2>4, <3>1, AccountIds, BooksFunds DEF ChildBooks, ChildWork, Keys
  <2> QED BY <1>3, <2>3, <2>4
<1>4. ASSUME NEW q \in Roots, NEW c \in Children, NEW n \in Nat,
             Releases(q, c, n) \/ Hires(q, c, n)
      PROVE  FundedAt(C, r)' /\ PayoutsFunded'
  BY <1>1, <1>4, AccountIds, OutsideFunds DEF Releases, Hires, Available, ChildWork
<1>5. ASSUME NEW q \in Roots, NEW p \in Participants, NEW n \in Nat, Deposits(p, q, n)
      PROVE  FundedAt(C, r)' /\ PayoutsFunded'
  BY <1>1, <1>5, AccountIds, OutsideFunds DEF Deposits, Available, Wallet
<1>6. ASSUME NEW q \in Roots, NEW p \in Participants, NEW k \in PayKeys, Pays(p, q, k)
      PROVE  FundedAt(C, r)' /\ PayoutsFunded'
  <2>1. PICK D \in SUBSET Children : D = ChildrenOf(q)'
    BY DEF ChildrenOf
  <2>2. (r = q => C = D) /\ (r # q => C \cap D = {})
    BY <2>1, FamiliesApart
  <2>3. D = ChildrenOf(q)
    BY <1>6, <2>1 DEF Pays, ChildrenOf
  <2> QED BY <1>1, <1>6, <2>2, <2>3, PaysFunds DEF Pays
<1> QED BY <1>2, <1>3, <1>4, <1>5, <1>6 DEF MoneyStep

\* Any step, on the deposit of a root and the usage of its children.
LEMMA ConservedStep ==
  ASSUME TypeOK, MoneyStep, NEW r \in Roots, NEW C \in SUBSET Children, C = ChildrenOf(r)'
  PROVE  /\ ConservedAt(C, r) => ConservedAt(C, r)'
         /\ \E d \in Int : UsageGain(C, r, d)
<1> DEFINE Goal == /\ ConservedAt(C, r) => ConservedAt(C, r)'
                   /\ \E d \in Int : UsageGain(C, r, d)
<1> SUFFICES Goal
  OBVIOUS
<1>1. CASE Quiet
  <2>1. UNCHANGED <<bal, deposit, receipt>>
    BY <1>1 DEF Quiet
  <2>2. ConservedAt(C, r) => ConservedAt(C, r)'
    BY <2>1 DEF ConservedAt, Locked, Keys, ParentPayout, Refund, ChildWork, ChildPayout,
                Available, PayoutKey, TerminalKey, ReturnKey
  <2>3. \A c \in C : Usage'[c] = Usage[c]
    BY <2>1 DEF Usage, ChildWork, ChildPayout, PayoutKey
  <2>4. /\ deposit[r] \in Nat /\ deposit'[r] = deposit[r]
        /\ bal[Available(r)] \in Nat /\ bal'[Available(r)] = bal[Available(r)]
    BY <2>1, MoneyTypes, AccountIds
  <2>5. bal'[Available(r)] = bal[Available(r)] + (deposit'[r] - deposit[r])
    BY <2>4
  <2>6. UsageGain(C, r, 0)
    BY <2>3, <2>4, <2>5, UsageSame
  <2> QED BY <2>2, <2>6
<1>2. ASSUME NEW q \in Roots, NEW k \in PayKeys, NEW n \in Nat,
             \/ RootBooks(q, k, n)
             \/ \E c \in Children : ChildBooks(q, c, k, n) \/ Releases(q, c, n) \/ Hires(q, c, n)
      PROVE  Goal
  <2>1. PICK D \in SUBSET Children : D = ChildrenOf(q)'
    BY DEF ChildrenOf
  <2>2. (r = q => C = D) /\ (r # q => C \cap D = {})
    BY <2>1, FamiliesApart
  <2>3. InRootStep(q, D)
    BY <1>2, <2>1, InRoot
  <2> QED BY <2>2, <2>3, InRootKeeps
<1>3. ASSUME NEW q \in Roots, NEW p \in Participants, NEW n \in Nat, Deposits(p, q, n)
      PROVE  Goal
  BY <1>3, DepositKeeps
<1>4. ASSUME NEW q \in Roots, NEW p \in Participants, NEW k \in PayKeys, Pays(p, q, k)
      PROVE  Goal
  <2>1. PICK D \in SUBSET Children : D = ChildrenOf(q)'
    BY DEF ChildrenOf
  <2>2. (r = q => C = D) /\ (r # q => C \cap D = {})
    BY <2>1, FamiliesApart
  <2>3. D = ChildrenOf(q)
    BY <1>4, <2>1 DEF Pays, ChildrenOf
  <2>4. /\ k \in Keys(D, q) /\ receipt[k] = 0
        /\ Move(BucketOf(k, q), Wallet(p), pay[k].amount)
        /\ receipt' = [receipt EXCEPT ![k] = pay[k].amount]
        /\ UNCHANGED deposit
    BY <1>4, <2>3 DEF Pays
  <2>5. ConservedAt(C, r) => ConservedAt(C, r)'
    BY <2>2, <2>4, PayConserves
  <2>6. /\ \A c \in Children : Usage'[c] = Usage[c]
        /\ bal'[Available(r)] = bal[Available(r)]
    BY <1>4, PayUsage
  <2>7. /\ deposit[r] \in Nat /\ deposit'[r] = deposit[r] /\ bal[Available(r)] \in Nat
    BY <2>4, MoneyTypes, AccountIds
  <2>8. bal'[Available(r)] = bal[Available(r)] + (deposit'[r] - deposit[r])
    BY <2>6, <2>7
  <2>9. UsageGain(C, r, 0)
    BY <2>6, <2>7, <2>8, UsageSame
  <2> QED BY <2>5, <2>9
<1> HIDE DEF Goal
<1>5. PayoutKey(r) \in PayKeys
  BY PayIds DEF Jobs
<1> QED BY <1>1, <1>2, <1>3, <1>4, <1>5 DEF MoneyStep

LEMMA PolicyTypes ==
  Policy.max_amount \in Nat /\ Policy.max_ratio_bps \in Nat /\ Policy.max_children \in Nat
BY PolicyAssumption

\* A deposit that grows never lowers the cap on a root's children.
LEMMA RatioMonotone ==
  ASSUME NEW x \in Nat, NEW y \in Nat, x <= y
  PROVE  /\ (Policy.max_ratio_bps * x) \div 10000 <= (Policy.max_ratio_bps * y) \div 10000
         /\ (Policy.max_ratio_bps * x) \div 10000 \in Nat
<1> DEFINE b == Policy.max_ratio_bps
<1>1. b \in Nat
  BY PolicyTypes
<1> HIDE DEF b
<1>2. b * x \in Nat /\ b * y \in Nat /\ b * x <= b * y
  BY <1>1
<1>3. \A m, n \in Nat : m <= n => m \div 10000 <= n \div 10000 /\ m \div 10000 \in Nat
  OBVIOUS
<1>4. (b * x) \div 10000 <= (b * y) \div 10000 /\ (b * x) \div 10000 \in Nat
  BY <1>2, <1>3
<1> QED BY <1>4 DEF b

\* The limits, and what is available, after a step with such a gain.
LEMMA LimitsStep ==
  ASSUME TypeOK, TypeOK', NEW r \in Roots, NEW C \in SUBSET Children, C = ChildrenOf(r)',
         InUse(r) = SumFunctionOnSet(Usage, C), NEW d \in Int, UsageGain(C, r, d),
         InUse(r) <= Policy.max_amount, InUse(r) <= RatioCap(r)
  PROVE  /\ InUse(r)' <= Policy.max_amount
         /\ InUse(r)' <= RatioCap(r)'
         /\ state'[r] \notin Terminal /\ bal[Available(r)] = deposit[r] - InUse(r) =>
              bal'[Available(r)] = deposit'[r] - InUse(r)'
<1>1. InUse(r)' = SumFunctionOnSet(Usage', C)
  BY DEF InUse
<1>2. InUse(r) \in Int
  <2>1. IsFiniteSet(C)
    BY OwnedFinite
  <2>2. \A c \in Children : Usage[c] \in Nat
    BY MoneyTypes
  <2>3. \A c \in C : Usage[c] \in Int
    BY <2>2
  <2> QED BY <2>1, <2>3, SumInt
<1>3. InUse(r)' = InUse(r) + d
  BY <1>1 DEF UsageGain
<1>4. /\ deposit[r] \in Nat /\ deposit'[r] \in Nat /\ deposit[r] <= deposit'[r]
      /\ bal[Available(r)] \in Nat
  BY MoneyTypes, AccountIds DEF UsageGain
<1>5. RatioCap(r) \in Nat /\ RatioCap(r)' \in Int /\ RatioCap(r) <= RatioCap(r)'
  <2>1. /\ RatioCap(r) = (Policy.max_ratio_bps * deposit[r]) \div 10000
        /\ RatioCap(r)' = (Policy.max_ratio_bps * deposit'[r]) \div 10000
    BY DEF RatioCap
  <2>2. deposit'[r] <= deposit'[r]
    BY <1>4
  <2>3. /\ RatioCap(r) <= RatioCap(r)' /\ RatioCap(r) \in Nat
    BY <1>4, <2>1, RatioMonotone
  <2>4. RatioCap(r)' \in Nat
    BY <1>4, <2>1, <2>2, RatioMonotone
  <2> QED BY <2>3, <2>4
<1>6. Policy.max_amount \in Nat
  BY PolicyTypes
<1>7. \/ d <= 0
      \/ InUse(r) + d <= Policy.max_amount /\ InUse(r) + d <= RatioCap(r)
  BY DEF UsageGain
<1>8. InUse(r) + d <= Policy.max_amount /\ InUse(r) + d <= RatioCap(r)'
  BY <1>2, <1>5, <1>6, <1>7
<1>9. ASSUME state'[r] \notin Terminal, bal[Available(r)] = deposit[r] - InUse(r)
      PROVE  bal'[Available(r)] = deposit'[r] - (InUse(r) + d)
  <2>1. bal'[Available(r)] + d = bal[Available(r)] + (deposit'[r] - deposit[r])
    BY <1>9 DEF UsageGain
  <2>2. bal'[Available(r)] \in Int
    BY MoneyTypesNext, AccountIds DEF Available
  <2>3. /\ InUse(r) \in Int /\ d \in Int /\ bal[Available(r)] \in Int
        /\ deposit[r] \in Int /\ deposit'[r] \in Int
    BY <1>2, <1>4
  <2>4. bal'[Available(r)] = (bal[Available(r)] - deposit[r]) + (deposit'[r] - d)
    BY <2>1, <2>2, <2>3
  <2>5. bal[Available(r)] - deposit[r] = - InUse(r)
    BY <1>9, <2>3
  <2>6. bal'[Available(r)] = (- InUse(r)) + (deposit'[r] - d)
    BY <2>4, <2>5
  <2> QED BY <2>3, <2>6
<1> QED BY <1>3, <1>8, <1>9

\* The number of children grows only by hiring, and then stays within the policy.
LEMMA CountStep ==
  ASSUME TypeOK, KnownChildren, MoneyStep, NEW r \in Roots,
         Cardinality(ChildrenOf(r)) <= Policy.max_children
  PROVE  Cardinality(ChildrenOf(r)') <= Policy.max_children
<1>1. CASE UNCHANGED parent
  <2>1. ChildrenOf(r)' = ChildrenOf(r)
    BY <1>1 DEF ChildrenOf
  <2> QED BY <2>1
<1>2. ASSUME NEW q \in Roots, NEW c \in Children, NEW n \in Nat, Hires(q, c, n)
      PROVE  Cardinality(ChildrenOf(r)') <= Policy.max_children
  <2>1. /\ parent' = [parent EXCEPT ![c] = q] /\ parent[c] \notin Roots
        /\ parent \in [Children -> Roots \cup {None}]
        /\ Cardinality(ChildrenOf(q)) + 1 <= Policy.max_children
    BY <1>2 DEF Hires, KnownChildren, TypeOK
  <2>2. CASE r # q
    <3>1. ChildrenOf(r)' = ChildrenOf(r)
      BY <2>1, <2>2 DEF ChildrenOf
    <3> QED BY <3>1
  <2>3. CASE r = q
    <3>1. ChildrenOf(r)' = ChildrenOf(r) \cup {c} /\ c \notin ChildrenOf(r)
      BY <2>1, <2>3 DEF ChildrenOf
    <3>2. ChildrenOf(r) \in SUBSET Children
      BY DEF ChildrenOf
    <3>3. IsFiniteSet(ChildrenOf(r))
      BY <3>2, OwnedFinite
    <3>4. Cardinality(ChildrenOf(r) \cup {c}) = Cardinality(ChildrenOf(r)) + 1
      BY <3>1, <3>3, FS_AddElement
    <3> QED BY <2>1, <2>3, <3>1, <3>4
  <2> QED BY <2>2, <2>3
<1> QED BY <1>1, <1>2 DEF MoneyStep, Quiet, RootBooks, ChildBooks, Books, Releases, Deposits, Pays

LEMMA KnownStep ==
  ASSUME TypeOK, KnownChildren, MoneyStep, \A i \in Jobs : state[i] # "NONE" => state'[i] # "NONE"
  PROVE  KnownChildren'
<1>1. CASE UNCHANGED parent
  BY <1>1 DEF KnownChildren, Jobs
<1>2. ASSUME NEW q \in Roots, NEW c \in Children, NEW n \in Nat, Hires(q, c, n)
      PROVE  KnownChildren'
  <2>1. /\ parent' = [parent EXCEPT ![c] = q] /\ state'[c] # "NONE"
        /\ parent \in [Children -> Roots \cup {None}]
    BY <1>2 DEF Hires, TypeOK
  <2> QED BY <2>1 DEF KnownChildren, Jobs
<1> QED BY <1>1, <1>2 DEF MoneyStep, Quiet, RootBooks, ChildBooks, Books, Releases, Deposits, Pays

-----------------------------------------------------------------------------
(***************************************************************************)
(* The invariant.                                                          *)
(***************************************************************************)

\* A terminal job stays terminal.
LEMMA TerminalStays ==
  ASSUME IInv, [Next]_vars, NEW i \in Jobs, state[i] \in Terminal
  PROVE  state'[i] \in Terminal
<1>1. CASE Next
  BY <1>1, JobTransitions
<1>2. CASE UNCHANGED vars
  BY <1>2 DEF vars, jobVars
<1> QED BY <1>1, <1>2

LEMMA NextKeepsMoneyInv ==
  ASSUME MoneyInv, [Next]_vars
  PROVE  MoneyInv'
<1>1. /\ OnceInv /\ IInv /\ TypeOK /\ DraftsPositive /\ KnownChildren /\ PayoutsFunded
      /\ Conservation /\ ReservationsFunded /\ PolicyLimits /\ UndecidedIsUnused
  BY DEF MoneyInv, OnceInv, IInv
<1>2. MoneyStep /\ \A i \in Jobs : state[i] # "NONE" => state'[i] # "NONE"
  BY <1>1, StepMoney
<1>3. OnceInv' /\ DraftsPositive'
  BY <1>1, NextKeepsIInv, DraftsStep, StepImplementsOnce DEF OnceInv
<1>4. TypeOK'
  BY <1>3 DEF OnceInv, IInv
<1>5. KnownChildren'
  BY <1>1, <1>2, KnownStep
<1>6. ASSUME NEW r \in Roots
      PROVE  /\ ConservedAt(ChildrenOf(r), r)' /\ FundedAt(ChildrenOf(r), r)' /\ PayoutsFunded'
             /\ (InUse(r) <= Policy.max_amount)' /\ (InUse(r) <= RatioCap(r))'
             /\ (state[r] \notin Terminal => bal[Available(r)] = deposit[r] - InUse(r))'
  <2>1. PICK C \in SUBSET Children : C = ChildrenOf(r)'
    BY DEF ChildrenOf
  <2>2. /\ ChildrenOf(r) \in SUBSET Children /\ ChildrenOf(r) \subseteq C
        /\ \A c \in C \ ChildrenOf(r) : Blank(c)
    BY <1>1, <1>2, <2>1, ParentsGrow DEF ChildrenOf
  <2>3. ConservedAt(ChildrenOf(r), r) /\ FundedAt(ChildrenOf(r), r)
    BY <1>1, RootByRoot
  <2>4. /\ ConservedAt(C, r) /\ FundedAt(C, r)
        /\ SumFunctionOnSet(Usage, ChildrenOf(r)) = SumFunctionOnSet(Usage, C)
    BY <1>1, <2>2, <2>3, Resized
  <2>5. FundedAt(C, r)' /\ PayoutsFunded'
    BY <1>1, <1>2, <2>1, <2>4, FundedStep
  <2>6. ConservedAt(C, r)' /\ \E d \in Int : UsageGain(C, r, d)
    BY <1>1, <1>2, <2>1, <2>4, ConservedStep
  <2>7. PICK d \in Int : UsageGain(C, r, d)
    BY <2>6
  <2>8. InUse(r) = SumFunctionOnSet(Usage, C)
    BY <2>4 DEF InUse
  <2>9. InUse(r) <= Policy.max_amount /\ InUse(r) <= RatioCap(r)
    BY <1>1 DEF PolicyLimits
  <2>10. /\ InUse(r)' <= Policy.max_amount /\ InUse(r)' <= RatioCap(r)'
         /\ state'[r] \notin Terminal /\ bal[Available(r)] = deposit[r] - InUse(r) =>
              bal'[Available(r)] = deposit'[r] - InUse(r)'
    BY <1>1, <1>4, <2>1, <2>7, <2>8, <2>9, LimitsStep
  <2>11. state'[r] \notin Terminal => bal[Available(r)] = deposit[r] - InUse(r)
    BY <1>1, TerminalStays DEF UndecidedIsUnused, Jobs
  <2>12. ConservedAt(ChildrenOf(r), r)'
    BY <2>1, <2>6 DEF ConservedAt, Locked, Keys, ParentPayout, Refund, ChildWork, ChildPayout,
                      PayoutKey, TerminalKey, ReturnKey
  <2>13. FundedAt(ChildrenOf(r), r)'
    BY <2>1, <2>5 DEF FundedAt, KeysOn, BucketOf, Locked, Keys, ParentPayout, Refund,
                      ChildWork, ChildPayout, PayoutKey, TerminalKey, ReturnKey
  <2> QED BY <2>5, <2>10, <2>11, <2>12, <2>13 DEF Available
<1>7. PayoutsFunded'
  <2>1. CASE Roots = {}
    <3>1. Quiet
      BY <1>2, <2>1 DEF MoneyStep
    <3> QED BY <1>1, <3>1, PayIds DEF Quiet, PayoutsFunded, Unpaid, ChildPayout, PayoutKey, Jobs
  <2> QED BY <1>6, <2>1
<1>8. Conservation' /\ ReservationsFunded'
  BY <1>6, RootByRootNext
<1>9. PolicyLimits'
  <2>1. ASSUME NEW r \in Roots PROVE Cardinality(ChildrenOf(r)') <= Policy.max_children
    BY <1>1, <1>2, CountStep DEF PolicyLimits
  <2> QED BY <1>6, <2>1 DEF PolicyLimits
<1>10. UndecidedIsUnused'
  BY <1>6 DEF UndecidedIsUnused
<1> QED BY <1>3, <1>5, <1>7, <1>8, <1>9, <1>10 DEF MoneyInv

LEMMA InitMoneyInv ==
  ASSUME Init
  PROVE  MoneyInv
<1>1. /\ OnceInv /\ DraftsPositive /\ TypeOK
  BY InitIInv, InitImplementsOnce DEF OnceInv, IInv
<1>2. /\ \A r \in Roots : bal[Available(r)] = 0 /\ bal[ParentPayout(r)] = 0 /\ bal[Refund(r)] = 0
      /\ \A c \in Children : bal[ChildPayout(c)] = 0
  BY AccountIds DEF Init, Available, ParentPayout, Refund, ChildPayout
<1>3. /\ \A k \in PayKeys : receipt[k] = 0 /\ Unpaid[k] = 0
      /\ \A r \in Roots : deposit[r] = 0 /\ ChildrenOf(r) = {}
  BY JobsAssumption DEF Init, Unpaid, NoPayment, ChildrenOf, Jobs
<1>4. KnownChildren
  BY JobsAssumption DEF Init, KnownChildren, Jobs
<1>5. PayoutsFunded
  BY <1>2, <1>3, PayIds DEF PayoutsFunded, Jobs
<1>6. ASSUME NEW r \in Roots
      PROVE  ConservedAt(ChildrenOf(r), r) /\ FundedAt(ChildrenOf(r), r) /\ InUse(r) = 0
  <2>1. ChildrenOf(r) = {} /\ ChildrenOf(r) \in SUBSET Children
    BY <1>3
  <2>2. /\ IsFiniteSet(Locked(ChildrenOf(r), r)) /\ IsFiniteSet(Keys(ChildrenOf(r), r))
        /\ Keys(ChildrenOf(r), r) \subseteq PayKeys
        /\ \A a : IsFiniteSet(KeysOn(ChildrenOf(r), r, a))
    BY <2>1, OwnedFinite
  <2>3. \A a \in Locked(ChildrenOf(r), r) : bal[a] = 0
    BY <1>2, <2>1 DEF Locked
  <2>4. SumFunctionOnSet(bal, Locked(ChildrenOf(r), r)) = 0
    BY <2>2, <2>3, SumZero
  <2>5. SumFunctionOnSet(receipt, Keys(ChildrenOf(r), r)) = 0
    BY <1>3, <2>2, SumZero
  <2>6. ASSUME NEW a PROVE SumFunctionOnSet(Unpaid, KeysOn(ChildrenOf(r), r, a)) = 0
    <3>1. \A k \in KeysOn(ChildrenOf(r), r, a) : Unpaid[k] = 0
      BY <1>3, <2>2 DEF KeysOn
    <3> QED BY <2>2, <3>1, SumZero
  <2>7. InUse(r) = 0
    BY <2>1, SumEmpty DEF InUse
  <2> QED BY <1>2, <1>3, <2>3, <2>4, <2>5, <2>6, <2>7 DEF ConservedAt, FundedAt
<1>7. Conservation /\ ReservationsFunded
  BY <1>6, RootByRoot
<1>8. PolicyLimits
  <2> SUFFICES ASSUME NEW r \in Roots
               PROVE  /\ InUse(r) <= Policy.max_amount /\ InUse(r) <= RatioCap(r)
                      /\ Cardinality(ChildrenOf(r)) <= Policy.max_children
    BY DEF PolicyLimits
  <2>1. Policy.max_amount \in Nat /\ Policy.max_children \in Nat
    BY PolicyTypes
  <2>2. RatioCap(r) \in Nat
    <3>1. deposit[r] \in Nat /\ deposit[r] <= deposit[r]
      BY <1>3
    <3> QED BY <3>1, RatioMonotone DEF RatioCap
  <2>3. Cardinality(ChildrenOf(r)) = 0
    BY <1>3, FS_EmptySet
  <2> QED BY <1>6, <2>1, <2>2, <2>3
<1>9. UndecidedIsUnused
  BY <1>2, <1>3, <1>6 DEF UndecidedIsUnused
<1> QED BY <1>1, <1>4, <1>5, <1>7, <1>8, <1>9 DEF MoneyInv

LEMMA MoneyInvariance == Spec => []MoneyInv
<1>1. Init => MoneyInv
  BY InitMoneyInv
<1>2. MoneyInv /\ [Next]_vars => MoneyInv'
  BY NextKeepsMoneyInv
<1> QED BY <1>1, <1>2, PTL DEF Spec

\* Section 9 of the plan: every unit of a root's deposit is available, locked, or
\* was handed over with a receipt, at all times and for any number of children.
THEOREM DepositsAreConserved == Spec => []Conservation
BY MoneyInvariance, PTL DEF MoneyInv

\* A locked bucket holds exactly what is still to be paid out of it, so transfer
\* (ledger.py) never finds a reservation too small.
THEOREM ReservationsAreFunded == Spec => []ReservationsFunded
BY MoneyInvariance, PTL DEF MoneyInv

\* The caps that create_child checks once hold for ever after, also while children
\* are paid, fail or return their part.
THEOREM PolicyIsKept == Spec => []PolicyLimits
BY MoneyInvariance, PTL DEF MoneyInv

\* The claim of the comment at service.py:2045: the available balance of a leased
\* root is its deposit minus the usage of its children.
THEOREM AvailableBalanceIsUnused == Spec => []AvailableIsUnused
<1>1. UndecidedIsUnused => AvailableIsUnused
  BY DEF UndecidedIsUnused, AvailableIsUnused, Terminal
<1> QED BY <1>1, MoneyInvariance, PTL DEF MoneyInv

=============================================================================
