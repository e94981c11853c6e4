\* Two schedulers on the real clock and one job.
SPECIFICATION SchedFairSpec
CONSTANTS
  None = None
  Roots = {r1}
  Children = {}
  Participants = {alice, bob}
  Tasks = {}
  Requesters = {alice}
  Seeded = {alice, bob}
  InitialBalance = 2
  RootBudgets = {2}
  ChildBudgets = {1}
  RootDeadlines = {2}
  ChildDeadlines = {2}
  TaskCap <- MCTaskCap
  Policy <- MCPolicy
  LeaseTime = 1
  ReviewTime = 1
  DisputeTime = 1
  MaxTime = 3
  Schedulers = {s1, s2}
  ClockMode = "realtime"
  MaxCrashes = 0
PROPERTIES
  EveryReviewDecided
CHECK_DEADLOCK FALSE
