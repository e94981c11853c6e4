\* One scheduler, a root and its child, on the test clock.
SPECIFICATION SchedFairSpec
CONSTANTS
  None = None
  Roots = {r1}
  Children = {c1}
  Participants = {alice, bob}
  Tasks = {t1}
  Requesters = {alice}
  Seeded = {alice, bob}
  InitialBalance = 2
  RootBudgets = {2}
  ChildBudgets = {1}
  RootDeadlines = {3}
  ChildDeadlines = {2}
  TaskCap <- MCTaskCap
  Policy <- MCPolicy
  LeaseTime = 2
  ReviewTime = 1
  DisputeTime = 1
  MaxTime = 4
  Schedulers = {s1}
  ClockMode = "test"
  MaxCrashes = 0
INVARIANTS
  RecordedExpiryEndsLease
PROPERTIES
  EveryJobDecided
CHECK_DEADLOCK FALSE
