\* One root and up to two children (a third identifier is there for a limit
\* that fails); the requester of the root may claim the children. The wallets
\* cannot pay the larger budget.
SPECIFICATION Spec
CONSTANTS
  None = None
  Roots = {r1}
  Children = {c1, c2, c3}
  Participants = {alice, bob}
  Tasks = {t1, t2}
  Requesters = {alice}
  Seeded = {alice, bob}
  InitialBalance = 3
  RootBudgets = {3, 4}
  ChildBudgets = {1, 2}
  RootDeadlines = {2}
  ChildDeadlines = {2}
  TaskCap <- MCTaskCap
  Policy <- MCPolicy
  LeaseTime = 2
  ReviewTime = 1
  DisputeTime = 1
  MaxTime = 3
INVARIANTS
  TypeOK
  Conservation
  ReservationsFunded
  ChildWorkProtected
  ParentGate
  NoStrandedFunds
  PolicyLimits
  AvailableIsUnused
  TaskExclusive
PROPERTIES
  ParentEndSparesChildren
  PaymentsAreFinal
  PaymentsOnce
SYMMETRY ChildSymmetry
CHECK_DEADLOCK FALSE
