\* The commands of the CLI only, on a new database; one crash.
SPECIFICATION FairSpec
CONSTANTS
  None = None
  Processes = {p1}
  Migrations = 4
  OldSchemas = {}
  Starts = {"demo", "command", "scheduler"}
  MaxTime = 1
  MaxCrashes = 1
PROPERTIES
  InitializationCompletes
