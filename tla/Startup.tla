------------------------------- MODULE Startup -------------------------------
(***************************************************************************)
(* Opening a database and its clock (ojp/clock.py, db.migrate, and the     *)
(* beginning of every command in cli.py, scheduler.py and mcp_server.py).  *)
(*                                                                         *)
(* Several processes, started with either clock mode, open the same        *)
(* database file at once: those that initialise it apply the migrations    *)
(* one transaction each, the first with the row of the clock; all compare  *)
(* their mode with that row. A process may die between two transactions,   *)
(* and the clock of the machine may step backwards.                        *)
(***************************************************************************)
EXTENDS Naturals

CONSTANTS
  Processes,
  Migrations,  \* how many migrations there are
  OldSchemas,  \* how many an old database without a clock row may have
  Starts,      \* "demo", "command", "scheduler", "initialize": how processes are started
  MaxTime, MaxCrashes,
  None

Modes == {"realtime", "test"}
Times == 0..MaxTime

ASSUME StartupAssumption ==
  /\ Migrations \in Nat \ {0}
  /\ OldSchemas \subseteq 0..Migrations
  /\ MaxTime \in Nat
  /\ MaxCrashes \in Nat
  /\ None \notin Modes /\ None \notin Times

VARIABLES
  file,     \* the database file exists
  applied,  \* how many migrations have been applied
  clock,    \* the row of runtime_clock
  proc,     \* the processes
  utc,      \* the clock of the machine
  stamp,    \* the last time a write transaction recorded
  crashes

vars == <<file, applied, clock, proc, utc, stamp, crashes>>

-----------------------------------------------------------------------------
NoRow  == [mode |-> None, now |-> None]
Down   == [at |-> "down", mode |-> None, now |-> None, step |-> 0]
At(p)  == proc[p].at
Go(p, place) == proc' = [proc EXCEPT ![p].at = place]

TypeOK ==
  /\ file \in BOOLEAN
  /\ applied \in 0..Migrations
  /\ clock \in {NoRow} \cup [mode : {"realtime"}, now : {None}] \cup [mode : {"test"}, now : Times]
  /\ proc \in [Processes ->
       [at : {"down", "open", "connect", "migrate", "ensure", "insert", "assert", "up", "refused"},
        mode : Modes \cup {None}, now : Times \cup {None}, step : 0..(Migrations + 1)]]
  /\ utc \in Times
  /\ stamp \in Times
  /\ crashes \in 0..MaxCrashes

Init ==
  /\ \/ file = FALSE /\ applied = 0
     \/ file = TRUE /\ applied \in OldSchemas
  /\ clock = NoRow
  /\ proc = [p \in Processes |-> Down]
  /\ utc \in Times
  /\ stamp = 0
  /\ crashes = 0

-----------------------------------------------------------------------------
Begin(p, place, mode) ==
  /\ At(p) = "down"
  /\ \E now \in Times : \* test_now is NULL in realtime mode
       proc' = [proc EXCEPT ![p] = [at |-> place, mode |-> mode, step |-> 1,
                                    now |-> IF mode = "test" THEN now ELSE None]]
  /\ UNCHANGED <<file, applied, clock, utc, stamp, crashes>>

\* "ojp demo init" initialises the database only when there is no file yet.
DemoInit(p, mode) ==
  /\ "demo" \in Starts
  /\ Begin(p, IF file THEN "assert" ELSE "connect", mode)

\* Every other command and the MCP server want an existing file.
Command(p, mode) ==
  /\ "command" \in Starts
  /\ Begin(p, IF file THEN "assert" ELSE "refused", mode)

\* The scheduler does not look: it opens the file, or creates an empty one.
StartScheduler(p, mode) ==
  /\ "scheduler" \in Starts
  /\ Begin(p, "open", mode)

\* clock.initialize_database itself, on any file.
Initialize(p, mode) ==
  /\ "initialize" \in Starts
  /\ Begin(p, "connect", mode)

Open(p) ==
  /\ At(p) = "open"
  /\ file' = TRUE
  /\ Go(p, "assert")
  /\ UNCHANGED <<applied, clock, utc, stamp, crashes>>

Connect(p) ==
  /\ At(p) = "connect"
  /\ file' = TRUE
  /\ Go(p, "migrate")
  /\ UNCHANGED <<applied, clock, utc, stamp, crashes>>

\* The row is inserted where there is none, under the write lock.
FirstRow(p) == IF clock = NoRow THEN [mode |-> proc[p].mode, now |-> proc[p].now] ELSE clock

MoreMigrations_Fault(p) == proc[p].step <= Migrations + 1
MoreMigrations(p) == proc[p].step <= Migrations

\* One migration and, when it is applied, the row of the clock: a transaction.
Migrate(p) ==
  /\ At(p) = "migrate"
  /\ MoreMigrations(p)
  /\ IF proc[p].step > applied
     THEN applied' = proc[p].step /\ clock' = FirstRow(p)
     ELSE UNCHANGED <<applied, clock>>
  /\ proc' = [proc EXCEPT ![p].step = @ + 1]
  /\ UNCHANGED <<file, utc, stamp, crashes>>

Migrated(p) ==
  /\ At(p) = "migrate"
  /\ ~MoreMigrations(p)
  /\ Go(p, "ensure")
  /\ UNCHANGED <<file, applied, clock, utc, stamp, crashes>>

\* _ensure_clock_row reads first and checks again inside its transaction.
Ensure_Fault(p) ==
  /\ At(p) = "ensure"
  /\ Go(p, "assert")
  /\ UNCHANGED <<file, applied, clock, utc, stamp, crashes>>

Ensure(p) ==
  /\ At(p) = "ensure"
  /\ Go(p, IF clock = NoRow THEN "insert" ELSE "assert")
  /\ UNCHANGED <<file, applied, clock, utc, stamp, crashes>>

Insert(p) ==
  /\ At(p) = "insert"
  /\ clock' = FirstRow(p)
  /\ Go(p, "assert")
  /\ UNCHANGED <<file, applied, utc, stamp, crashes>>

\* assert_mode; without the row, or its table, the process ends with an error.
SameMode_Fault(p) == clock # NoRow
SameMode(p) == clock # NoRow /\ clock.mode = proc[p].mode

AssertMode(p) ==
  /\ At(p) = "assert"
  /\ Go(p, IF SameMode(p) THEN "up" ELSE "refused")
  /\ UNCHANGED <<file, applied, clock, utc, stamp, crashes>>

-----------------------------------------------------------------------------
\* now_for_write_transaction reads the row anew in every transaction.
Write(p) ==
  /\ At(p) = "up"
  /\ stamp' = IF clock.mode = "test" THEN clock.now ELSE utc
  /\ UNCHANGED <<file, applied, clock, proc, utc, crashes>>

\* set_test_now: CLOCK_ERROR in realtime, CLOCK_BACKWARD for an earlier time.
MayAdvanceTo_Fault(now) == TRUE
MayAdvanceTo(now) == now > clock.now

SetTestNow(p, now) ==
  /\ At(p) = "up"
  /\ clock.mode = "test"
  /\ MayAdvanceTo(now)
  /\ clock' = [clock EXCEPT !.now = now]
  /\ UNCHANGED <<file, applied, proc, utc, stamp, crashes>>

Exit(p) ==
  /\ At(p) \in {"up", "refused"}
  /\ proc' = [proc EXCEPT ![p] = Down]
  /\ UNCHANGED <<file, applied, clock, utc, stamp, crashes>>

\* A process that dies loses nothing but its place: every step is a transaction.
Crash(p) ==
  /\ At(p) \notin {"down", "up", "refused"}
  /\ crashes < MaxCrashes
  /\ crashes' = crashes + 1
  /\ proc' = [proc EXCEPT ![p] = Down]
  /\ UNCHANGED <<file, applied, clock, utc, stamp>>

\* The clock of the machine goes forward, and back when it is corrected.
MachineClock ==
  /\ utc' \in Times \ {utc}
  /\ UNCHANGED <<file, applied, clock, proc, stamp, crashes>>

Opening(p) ==
  \/ Open(p) \/ Connect(p) \/ Migrate(p) \/ Migrated(p) \/ Ensure(p) \/ Insert(p)
  \/ AssertMode(p)
Starting(p) ==
  \E mode \in Modes : \/ DemoInit(p, mode) \/ Command(p, mode)
                      \/ StartScheduler(p, mode) \/ Initialize(p, mode)

Next ==
  \/ \E p \in Processes :
       \/ Starting(p) \/ Opening(p) \/ Write(p) \/ Exit(p) \/ Crash(p)
       \/ \E now \in Times : SetTestNow(p, now)
  \/ MachineClock

Spec == Init /\ [][Next]_vars

\* Someone keeps starting what initialises the database, initialize_database
\* itself where it is used, and no process that has started stops for ever.
FairSpec ==
  /\ Spec
  /\ \A p \in Processes :
       /\ WF_vars(Opening(p))
       /\ WF_vars(Exit(p))
       /\ WF_vars(\E mode \in Modes : DemoInit(p, mode))
       /\ SF_vars(\E mode \in Modes : Initialize(p, mode))

-----------------------------------------------------------------------------
\* The mode of a database is chosen once, whichever processes initialise it in
\* whatever order and wherever they die, and no process runs with another.
Running(p) == IF At(p) = "up" THEN proc[p].mode ELSE None
Mode == INSTANCE ChooseOnce
          WITH Values <- Modes, Actors <- Processes,
               chosen <- clock.mode, acting <- [p \in Processes |-> Running(p)]
ModeChosenOnce == Mode!Spec

\* On the test clock the times that write transactions record, in the order of
\* the transactions and over all processes, never go back.
TestTimeMonotone == [][clock.mode = "test" => stamp' >= stamp]_vars

\* A database whose initialisation was interrupted, anywhere and repeatedly, is
\* completed when the initialisation is tried again.
InitializationCompletes == <>[](applied = Migrations /\ clock # NoRow)
=============================================================================
