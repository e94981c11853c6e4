\* Two ticks at once on the real clock, one of which may stop half-way.
SPECIFICATION SchedSpec
CONSTANTS
  None = None
  Roots = {r1}
  Children = {}
  Participants = {alice, bob}
  Tasks = {}
  Requesters = {alice}
  Seeded = {alice, bob}
  InitialBalance = 2
  RootBudgets = {2}
  ChildBudgets = {1}
  RootDeadlines = {3}
  ChildDeadlines = {2}
  TaskCap <- MCTaskCap
  Policy <- MCPolicy
  LeaseTime = 2
  ReviewTime = 1
  DisputeTime = 1
  MaxTime = 4
  Schedulers = {s1, s2}
  ClockMode = "realtime"
  MaxCrashes = 1
INVARIANTS
  SchedTypeOK
  RecordedMeansApplied
PROPERTIES
  CoreSpec
SYMMETRY SchedulerSymmetry
CHECK_DEADLOCK FALSE
