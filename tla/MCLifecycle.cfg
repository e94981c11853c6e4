\* One root and one child over a longer time with a choice of deadlines, so that
\* every order of lease expiry, deadline, review window and dispute window comes
\* up; carol has no wallet.
SPECIFICATION Spec
CONSTANTS
  None = None
  Roots = {r1}
  Children = {c1}
  Participants = {alice, bob, carol}
  Tasks = {t1}
  Requesters = {alice}
  Seeded = {alice, bob}
  InitialBalance = 3
  RootBudgets = {3}
  ChildBudgets = {2}
  RootDeadlines = {2, 4}
  ChildDeadlines = {3, 4}
  TaskCap <- MCTaskCap
  Policy <- MCPolicy
  LeaseTime = 2
  ReviewTime = 2
  DisputeTime = 1
  MaxTime = 6
INVARIANTS
  MoneyFollowsVerdict
  LeaseMatchesState
PROPERTIES
  DecisionIsFinal
  SubmittedWorkProtected
CHECK_DEADLOCK FALSE
