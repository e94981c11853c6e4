\* Two processes started in every way, on a new database or an old one.
SPECIFICATION FairSpec
CONSTANTS
  None = None
  Processes = {p1, p2}
  Migrations = 2
  OldSchemas = {1, 2}
  Starts = {"demo", "command", "scheduler", "initialize"}
  MaxTime = 2
  MaxCrashes = 1
INVARIANTS
  TypeOK
PROPERTIES
  ModeChosenOnce
  TestTimeMonotone
  InitializationCompletes
