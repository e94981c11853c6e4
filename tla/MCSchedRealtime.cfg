\* One scheduler and one job on the real clock; a lease that a heartbeat can extend.
SPECIFICATION SchedFairSpec
CONSTANTS
  None = None
  Roots = {r1}
  Children = {}
  Participants = {alice, bob}
  Tasks = {}
  Requesters = {alice}
  Seeded = {alice, bob}
  InitialBalance = 2
  RootBudgets = {2}
  ChildBudgets = {1}
  RootDeadlines = {3}
  ChildDeadlines = {2}
  TaskCap <- MCTaskCap
  Policy <- MCPolicy
  LeaseTime = 2
  ReviewTime = 1
  DisputeTime = 1
  MaxTime = 4
  Schedulers = {s1}
  ClockMode = "realtime"
  MaxCrashes = 0
PROPERTIES
  DeadlineEndsJob
CHECK_DEADLOCK FALSE
