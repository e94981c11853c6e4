---------------------------- MODULE StartupProofs ----------------------------
(***************************************************************************)
(* The clock of a database, proved for any number of processes, migrations *)
(* and crashes: its mode is chosen once, and the times recorded on the test *)
(* clock never go back. The invariant: a process that runs has the mode of *)
(* the row, and no time is recorded that the test clock has not reached.   *)
(***************************************************************************)
EXTENDS Startup, TLAPS

ClockRows == [mode : {"realtime"}, now : {None}] \cup [mode : {"test"}, now : Times]
Procs ==
  [at : {"down", "open", "connect", "migrate", "ensure", "insert", "assert", "up", "refused"},
   mode : Modes \cup {None}, now : Times \cup {None}, step : 0..(Migrations + 1)]

\* A process on its way to the row carries a mode and the time that goes with it.
Carries(p) ==
  At(p) \in {"connect", "migrate", "ensure", "insert"} =>
    [mode |-> proc[p].mode, now |-> proc[p].now] \in ClockRows
Agrees(p) == At(p) = "up" => clock # NoRow /\ clock.mode = proc[p].mode

StartInv ==
  /\ TypeOK
  /\ \A p \in Processes : Carries(p) /\ Agrees(p)
  /\ clock = NoRow => stamp = 0
  /\ clock.mode = "test" => stamp <= clock.now

LEMMA Types ==
  /\ TypeOK <=> /\ file \in BOOLEAN /\ applied \in 0..Migrations
                /\ clock \in {NoRow} \cup ClockRows /\ proc \in [Processes -> Procs]
                /\ utc \in Times /\ stamp \in Times /\ crashes \in 0..MaxCrashes
  /\ Down \in Procs
BY StartupAssumption DEF TypeOK, ClockRows, Procs, Down

Places == {"down", "open", "connect", "migrate", "ensure", "insert", "assert", "up", "refused"}

\* Moving one process to another place of the program.
LEMMA GoFacts ==
  ASSUME TypeOK, NEW p \in Processes, NEW place \in Places, Go(p, place)
  PROVE  /\ proc' \in [Processes -> Procs]
         /\ proc'[p].at = place /\ proc'[p].mode = proc[p].mode /\ proc'[p].now = proc[p].now
         /\ \A q \in Processes \ {p} : proc'[q] = proc[q]
<1>1. proc \in [Processes -> Procs]
  BY Types
<1>2. PICK x \in Procs : x = proc[p]
  BY <1>1
<1>3. proc' = [proc EXCEPT ![p] = [x EXCEPT !.at = place]]
  BY <1>2 DEF Go
<1>4. [x EXCEPT !.at = place] \in Procs
  BY DEF Procs, Places
<1>5. proc'[p] = [x EXCEPT !.at = place] /\ \A q \in Processes \ {p} : proc'[q] = proc[q]
  BY <1>1, <1>3
<1> QED BY <1>1, <1>2, <1>3, <1>4, <1>5 DEF Procs

\* Steps that leave the row and the recorded time alone.
LEMMA RowStays ==
  ASSUME StartInv, UNCHANGED <<clock, stamp>>, TypeOK',
         \A p \in Processes : Carries(p)' /\ Agrees(p)'
  PROVE  StartInv'
BY DEF StartInv

LEMMA NoRowFacts ==
  /\ NoRow \notin ClockRows
  /\ \A r \in ClockRows : r.mode \in Modes /\ (r.mode = "test" => r.now \in Times)
BY StartupAssumption DEF NoRow, ClockRows, Modes

LEMMA BeginStep ==
  ASSUME StartInv, NEW p \in Processes, NEW mode \in Modes,
         NEW place \in {"open", "connect", "assert", "refused"}, Begin(p, place, mode)
  PROVE  StartInv'
<1> USE StartupAssumption
<1>1. PICK now \in Times : proc' = [proc EXCEPT ![p] =
        [at |-> place, mode |-> mode, step |-> 1, now |-> IF mode = "test" THEN now ELSE None]]
  BY DEF Begin
<1>2. PICK x : x = [at |-> place, mode |-> mode, step |-> 1,
                    now |-> IF mode = "test" THEN now ELSE None]
  OBVIOUS
<1>3. x \in Procs
  BY <1>2 DEF Procs, Modes
<1>4. proc \in [Processes -> Procs]
  BY Types DEF StartInv
<1>5. proc' \in [Processes -> Procs] /\ proc'[p] = x
      /\ \A q \in Processes \ {p} : proc'[q] = proc[q]
  BY <1>1, <1>2, <1>3, <1>4
<1>6. UNCHANGED <<file, applied, clock, utc, stamp, crashes>>
  BY DEF Begin
<1>7. TypeOK'
  BY <1>5, <1>6, Types DEF StartInv, TypeOK, Procs
<1>8. [mode |-> x.mode, now |-> x.now] \in ClockRows
  BY <1>2 DEF ClockRows, Modes
<1>9. \A q \in Processes : Carries(q)' /\ Agrees(q)'
  <2>1. Carries(p)' /\ Agrees(p)'
    BY <1>2, <1>5, <1>8 DEF Carries, Agrees, At
  <2>2. ASSUME NEW q \in Processes \ {p} PROVE Carries(q)' /\ Agrees(q)'
    BY <1>5, <1>6 DEF StartInv, Carries, Agrees, At
  <2> QED BY <2>1, <2>2
<1> QED BY <1>6, <1>7, <1>9, RowStays

\* Steps that only move a process, except to "up".
LEMMA MoveStep ==
  ASSUME StartInv, NEW p \in Processes, NEW place \in Places, Go(p, place),
         UNCHANGED <<applied, clock, utc, stamp, crashes>>, file' \in BOOLEAN,
         place \in {"migrate", "ensure", "insert"} =>
           At(p) \in {"connect", "migrate", "ensure", "insert"},
         place # "connect",
         place = "up" => SameMode(p)
  PROVE  StartInv'
<1>1. TypeOK
  BY DEF StartInv
<1>2. /\ proc' \in [Processes -> Procs]
      /\ proc'[p].at = place /\ proc'[p].mode = proc[p].mode /\ proc'[p].now = proc[p].now
      /\ \A q \in Processes \ {p} : proc'[q] = proc[q]
  BY <1>1, GoFacts
<1>3. TypeOK'
  BY <1>1, <1>2 DEF TypeOK, Procs
<1>4. Carries(p)'
  <2>1. Carries(p)
    BY DEF StartInv
  <2> QED BY <2>1, <1>2 DEF Carries, At, Places
<1>5. Agrees(p)'
  BY <1>2 DEF Agrees, At, SameMode
<1>6. ASSUME NEW q \in Processes \ {p} PROVE Carries(q)' /\ Agrees(q)'
  BY <1>2 DEF StartInv, Carries, Agrees, At
<1> QED BY <1>3, <1>4, <1>5, <1>6, RowStays

\* What a process would insert, under the write lock.
LEMMA FirstRowFacts ==
  ASSUME StartInv, NEW p \in Processes, At(p) \in {"migrate", "insert"}
  PROVE  /\ FirstRow(p) \in ClockRows
         /\ clock # NoRow => FirstRow(p) = clock
         /\ clock = NoRow => stamp = 0 /\ \A q \in Processes : At(q) # "up"
BY Types DEF StartInv, FirstRow, Carries, Agrees

LEMMA RowStep ==
  ASSUME StartInv, NEW p \in Processes, At(p) \in {"migrate", "insert"},
         clock' = FirstRow(p), UNCHANGED stamp, TypeOK',
         \A q \in Processes : Carries(q)',
         \A q \in Processes : At(q)' = "up" => At(q) = "up" /\ proc'[q] = proc[q]
  PROVE  StartInv'
<1> USE StartupAssumption
<1>1. clock' \in ClockRows /\ clock' # NoRow
  BY FirstRowFacts, NoRowFacts
<1>2. CASE clock = NoRow
  <2>1. stamp' = 0
    BY <1>2, FirstRowFacts
  <2>2. \A q \in Processes : Agrees(q)'
    BY <1>2, FirstRowFacts DEF Agrees
  <2>3. clock'.mode = "test" => stamp' <= clock'.now
    BY <1>1, <2>1, NoRowFacts DEF Times
  <2> QED BY <1>1, <2>2, <2>3 DEF StartInv
<1>3. CASE clock # NoRow
  <2>1. clock' = clock
    BY <1>3, FirstRowFacts
  <2>2. \A q \in Processes : Agrees(q)'
    BY <2>1 DEF StartInv, Agrees, At
  <2> QED BY <2>1, <2>2, <1>1 DEF StartInv
<1> QED BY <1>2, <1>3

LEMMA MigrateStep == ASSUME StartInv, NEW p \in Processes, Migrate(p) PROVE StartInv'
<1> USE StartupAssumption
<1>1. At(p) = "migrate" /\ MoreMigrations(p) /\ UNCHANGED <<file, utc, stamp, crashes>>
      /\ proc' = [proc EXCEPT ![p].step = @ + 1]
  BY DEF Migrate
<1>2. proc \in [Processes -> Procs]
  BY Types DEF StartInv
<1>3. PICK x \in Procs : x = proc[p]
  BY <1>2
<1>4. PICK y : y = [x EXCEPT !.step = x.step + 1]
  OBVIOUS
<1>5. x.step + 1 \in 0..(Migrations + 1) /\ x.step \in 0..Migrations
  BY <1>1, <1>3 DEF MoreMigrations, Procs
<1>6. y \in Procs /\ y.at = x.at /\ y.mode = x.mode /\ y.now = x.now
  BY <1>4, <1>5 DEF Procs
<1>7. proc' = [proc EXCEPT ![p] = y]
  BY <1>1, <1>3, <1>4
<1>8. proc' \in [Processes -> Procs] /\ proc'[p] = y
      /\ \A q \in Processes \ {p} : proc'[q] = proc[q]
  BY <1>2, <1>6, <1>7
<1>9. \A q \in Processes : /\ At(q)' = At(q)
                           /\ proc'[q].mode = proc[q].mode /\ proc'[q].now = proc[q].now
                           /\ At(q) = "up" => proc'[q] = proc[q]
  BY <1>1, <1>3, <1>6, <1>8 DEF At
<1>10. \A q \in Processes : Carries(q)'
  BY <1>9 DEF StartInv, Carries, At
<1>11. CASE proc[p].step > applied
  <2>1. clock' = FirstRow(p) /\ applied' = proc[p].step
    BY <1>11 DEF Migrate
  <2>2. TypeOK'
    BY <1>1, <1>3, <1>5, <1>8, <2>1, FirstRowFacts, Types DEF StartInv, TypeOK, Procs, ClockRows
  <2> QED BY <1>1, <1>9, <1>10, <2>1, <2>2, RowStep
<1>12. CASE ~(proc[p].step > applied)
  <2>1. UNCHANGED <<applied, clock>>
    BY <1>12 DEF Migrate
  <2>2. TypeOK'
    BY <1>1, <1>8, <2>1 DEF StartInv, TypeOK, Procs
  <2>3. \A q \in Processes : Agrees(q)'
    BY <1>9, <2>1 DEF StartInv, Agrees, At
  <2> QED BY <1>1, <1>10, <2>1, <2>2, <2>3, RowStays
<1> QED BY <1>11, <1>12

LEMMA InsertStep == ASSUME StartInv, NEW p \in Processes, Insert(p) PROVE StartInv'
<1>1. At(p) = "insert" /\ clock' = FirstRow(p) /\ Go(p, "assert")
      /\ UNCHANGED <<file, applied, utc, stamp, crashes>>
  BY DEF Insert
<1>2. /\ proc' \in [Processes -> Procs] /\ proc'[p].at = "assert"
      /\ \A q \in Processes \ {p} : proc'[q] = proc[q]
  BY <1>1, GoFacts DEF StartInv, Places
<1>3. TypeOK'
  BY <1>1, <1>2, FirstRowFacts DEF StartInv, TypeOK, Procs, ClockRows
<1>4. \A q \in Processes : Carries(q)'
  BY <1>2 DEF StartInv, Carries, At
<1>5. \A q \in Processes : At(q)' = "up" => At(q) = "up" /\ proc'[q] = proc[q]
  BY <1>2 DEF At
<1> QED BY <1>1, <1>3, <1>4, <1>5, RowStep

LEMMA OpeningStep == ASSUME StartInv, NEW p \in Processes, Opening(p) PROVE StartInv'
<1>1. ASSUME Connect(p) PROVE StartInv'
  <2>1. At(p) = "connect" /\ Go(p, "migrate") /\ file' = TRUE
        /\ UNCHANGED <<applied, clock, utc, stamp, crashes>>
    BY <1>1 DEF Connect
  <2> QED BY <2>1, MoveStep DEF Places
<1>0. ASSUME Open(p) PROVE StartInv'
  <2>1. At(p) = "open" /\ Go(p, "assert") /\ file' = TRUE
        /\ UNCHANGED <<applied, clock, utc, stamp, crashes>>
    BY <1>0 DEF Open
  <2> QED BY <2>1, MoveStep DEF Places
<1>2. ASSUME Migrated(p) PROVE StartInv'
  <2>1. At(p) = "migrate" /\ Go(p, "ensure") /\ UNCHANGED <<file, applied, clock, utc, stamp, crashes>>
    BY <1>2 DEF Migrated
  <2> QED BY <2>1, MoveStep DEF Places, StartInv, TypeOK
<1>3. ASSUME Ensure(p) PROVE StartInv'
  <2>1. /\ At(p) = "ensure" /\ (Go(p, "insert") \/ Go(p, "assert"))
        /\ UNCHANGED <<file, applied, clock, utc, stamp, crashes>>
    BY <1>3 DEF Ensure
  <2> QED BY <2>1, MoveStep DEF Places, StartInv, TypeOK
<1>4. ASSUME AssertMode(p) PROVE StartInv'
  <2>1. /\ (Go(p, "up") /\ SameMode(p)) \/ Go(p, "refused")
        /\ UNCHANGED <<file, applied, clock, utc, stamp, crashes>>
    BY <1>4 DEF AssertMode
  <2> QED BY <2>1, MoveStep DEF Places, StartInv, TypeOK
<1> QED BY <1>0, <1>1, <1>2, <1>3, <1>4, MigrateStep, InsertStep DEF Opening

LEMMA WriteStep == ASSUME StartInv, NEW p \in Processes, Write(p) PROVE StartInv'
<1> USE StartupAssumption
<1>1. At(p) = "up" /\ stamp' = (IF clock.mode = "test" THEN clock.now ELSE utc)
      /\ UNCHANGED <<file, applied, clock, proc, utc, crashes>>
  BY DEF Write
<1>2. clock \in ClockRows /\ utc \in Times
  BY <1>1, Types DEF StartInv, Agrees
<1>3. stamp' \in Times /\ (clock.mode = "test" => stamp' <= clock.now)
  BY <1>1, <1>2, NoRowFacts DEF Times
<1>4. TypeOK'
  BY <1>1, <1>3 DEF StartInv, TypeOK
<1>5. \A q \in Processes : Carries(q)' /\ Agrees(q)'
  BY <1>1 DEF StartInv, Carries, Agrees, At
<1>6. clock' # NoRow
  BY <1>1, <1>2, NoRowFacts
<1> QED BY <1>1, <1>3, <1>4, <1>5, <1>6 DEF StartInv

LEMMA SetTestNowStep ==
  ASSUME StartInv, NEW p \in Processes, NEW now \in Times, SetTestNow(p, now)
  PROVE  StartInv' /\ clock'.mode = clock.mode /\ clock # NoRow
<1> USE StartupAssumption
<1>1. At(p) = "up" /\ clock.mode = "test" /\ now > clock.now
      /\ clock' = [clock EXCEPT !.now = now]
      /\ UNCHANGED <<file, applied, proc, utc, stamp, crashes>>
  BY DEF SetTestNow, MayAdvanceTo
<1>2. clock \in [mode : {"test"}, now : Times] /\ clock # NoRow
  BY <1>1, Types DEF StartInv, Agrees, ClockRows
<1>3. clock' = [mode |-> "test", now |-> now]
  BY <1>1, <1>2
<1>4. stamp \in Times /\ stamp <= clock.now
  BY <1>1 DEF StartInv, TypeOK
<1>5. clock' \in ClockRows /\ clock' # NoRow /\ stamp' <= clock'.now
  BY <1>1, <1>2, <1>3, <1>4, NoRowFacts DEF ClockRows, Times
<1>6. TypeOK'
  BY <1>1, <1>3 DEF StartInv, TypeOK
<1>7. \A q \in Processes : Carries(q)' /\ Agrees(q)'
  BY <1>1, <1>3, <1>5 DEF StartInv, Carries, Agrees, At
<1> QED BY <1>1, <1>2, <1>3, <1>5, <1>6, <1>7 DEF StartInv

LEMMA EndStep == ASSUME StartInv, NEW p \in Processes, Exit(p) \/ Crash(p) PROVE StartInv'
<1> USE StartupAssumption
<1>1. proc' = [proc EXCEPT ![p] = Down] /\ UNCHANGED <<file, applied, clock, utc, stamp>>
      /\ crashes' \in 0..MaxCrashes
  BY DEF Exit, Crash, StartInv, TypeOK
<1>2. proc \in [Processes -> Procs]
  BY Types DEF StartInv
<1>3. proc' \in [Processes -> Procs] /\ proc'[p] = Down
      /\ \A q \in Processes \ {p} : proc'[q] = proc[q]
  BY <1>1, <1>2, Types
<1>4. TypeOK'
  BY <1>1, <1>3 DEF StartInv, TypeOK, Procs
<1>5. Carries(p)' /\ Agrees(p)'
  BY <1>3 DEF Carries, Agrees, At, Down
<1>6. ASSUME NEW q \in Processes \ {p} PROVE Carries(q)' /\ Agrees(q)'
  BY <1>1, <1>3 DEF StartInv, Carries, Agrees, At
<1> QED BY <1>1, <1>4, <1>5, <1>6, RowStays

LEMMA MachineClockStep == ASSUME StartInv, MachineClock PROVE StartInv'
<1>1. TypeOK'
  BY DEF MachineClock, StartInv, TypeOK
<1>2. \A q \in Processes : Carries(q)' /\ Agrees(q)'
  BY DEF MachineClock, StartInv, Carries, Agrees, At
<1> QED BY <1>1, <1>2, RowStays DEF MachineClock

LEMMA StartingStep == ASSUME StartInv, NEW p \in Processes, Starting(p) PROVE StartInv'
BY BeginStep DEF Starting, DemoInit, Command, StartScheduler, Initialize

-----------------------------------------------------------------------------
\* The invariant that carries the theorems below.
THEOREM StartInvHolds == Spec => []StartInv
<1> USE StartupAssumption
<1>1. Init => StartInv
  <2> SUFFICES ASSUME Init PROVE StartInv
    OBVIOUS
  <2>1. TypeOK
    <3>1. 0 \in 0..Migrations /\ 0 \in Times /\ (\A c \in Nat : 0 \in 0..c)
      BY DEF Times
    <3>2. applied \in 0..Migrations /\ file \in BOOLEAN
      BY <3>1 DEF Init
    <3>3. proc \in [Processes -> Procs]
      BY Types DEF Init
    <3>4. crashes \in 0..MaxCrashes
      BY DEF Init
    <3> QED BY <3>1, <3>2, <3>3, <3>4, Types DEF Init
  <2>2. \A p \in Processes : Carries(p) /\ Agrees(p)
    BY DEF Init, Carries, Agrees, At, Down
  <2>3. clock.mode # "test"
    BY DEF Init, NoRow, Modes
  <2> QED BY <2>1, <2>2, <2>3 DEF Init, StartInv
<1>2. StartInv /\ [Next]_vars => StartInv'
  <2> SUFFICES ASSUME StartInv, [Next]_vars PROVE StartInv'
    OBVIOUS
  <2>1. ASSUME NEW p \in Processes,
               \/ Starting(p) \/ Opening(p) \/ Write(p) \/ Exit(p) \/ Crash(p)
               \/ \E now \in Times : SetTestNow(p, now)
        PROVE  StartInv'
    BY <2>1, StartingStep, OpeningStep, WriteStep, EndStep, SetTestNowStep
  <2>2. CASE MachineClock
    BY <2>2, MachineClockStep
  <2>3. CASE UNCHANGED vars
    <3>1. TypeOK'
      BY <2>3 DEF vars, StartInv, TypeOK
    <3>2. \A q \in Processes : Carries(q)' /\ Agrees(q)'
      BY <2>3 DEF vars, StartInv, Carries, Agrees, At
    <3> QED BY <2>3, <3>1, <3>2, RowStays DEF vars
  <2> QED BY <2>1, <2>2, <2>3 DEF Next
<1> QED BY <1>1, <1>2, PTL DEF Spec

\* Every variable keeps its type: no migration beyond the last is applied, and
\* the row has a time exactly in test mode.
THEOREM StartTypeCorrect == Spec => []TypeOK
BY StartInvHolds, PTL DEF StartInv

\* The times recorded on the test clock never go back.
THEOREM TestTimesMonotone == Spec => TestTimeMonotone
<1> USE StartupAssumption
<1>1. StartInv /\ [Next]_vars => [clock.mode = "test" => stamp' >= stamp]_vars
  <2> SUFFICES ASSUME StartInv, Next, clock.mode = "test" PROVE stamp' >= stamp
    OBVIOUS
  <2>1. stamp \in Times /\ clock \in ClockRows
    BY Types, NoRowFacts DEF StartInv, NoRow, Modes
  <2>2. stamp <= clock.now /\ clock.now \in Times
    BY <2>1, NoRowFacts DEF StartInv
  <2>3. stamp' = clock.now \/ stamp' = stamp
    BY DEF Next, Starting, DemoInit, Command, StartScheduler, Initialize, Begin, Opening, Open, Connect, Migrate,
           Migrated, Ensure, Insert, AssertMode, Write, SetTestNow, Exit, Crash, MachineClock
  <2> QED BY <2>1, <2>2, <2>3 DEF Times
<1> QED BY <1>1, StartInvHolds, PTL DEF Spec, TestTimeMonotone

-----------------------------------------------------------------------------
\* A step of one process that leaves the mode alone: the process begins with the
\* mode of the row, ends, or does neither.
LEMMA OneMoves ==
  ASSUME NEW p \in Processes, \A q \in Processes \ {p} : proc'[q] = proc[q],
         clock'.mode = clock.mode,
         \/ Running(p)' \in {Running(p), None}
         \/ Running(p)' = clock.mode /\ clock.mode # None
  PROVE  [Mode!Next]_(Mode!chooseVars)
<1> DEFINE acting == [q \in Processes |-> Running(q)]
<1>1. \A q \in Processes \ {p} : Running(q)' = Running(q)
  BY DEF Running, At
<1>2. acting' = [acting EXCEPT ![p] = Running(p)']
  BY <1>1
<1>3. CASE Running(p)' = Running(p)
  <2>1. acting' = acting
    BY <1>1, <1>3
  <2> QED BY <2>1 DEF Mode!chooseVars
<1>4. CASE Running(p)' = None
  BY <1>2, <1>4 DEF Mode!Next, Mode!End
<1>5. CASE Running(p)' = clock.mode /\ clock.mode # None
  BY <1>2, <1>5 DEF Mode!Next, Mode!Begin
<1> QED BY <1>3, <1>4, <1>5

\* A step that may insert the row, on which nobody was running.
LEMMA RowChosen ==
  ASSUME StartInv, NEW p \in Processes, At(p) \in {"migrate", "insert"},
         clock' = FirstRow(p),
         \A q \in Processes : Running(q)' = Running(q)
  PROVE  [Mode!Next]_(Mode!chooseVars)
<1> DEFINE acting == [q \in Processes |-> Running(q)]
<1>1. acting' = acting
  OBVIOUS
<1>2. CASE clock = NoRow
  <2>1. clock'.mode \in Modes /\ clock.mode = None
    BY <1>2, FirstRowFacts, NoRowFacts DEF NoRow
  <2> QED BY <1>1, <2>1 DEF Mode!Next, Mode!Choose
<1>3. CASE clock # NoRow
  BY <1>1, <1>3, FirstRowFacts DEF Mode!chooseVars
<1> QED BY <1>2, <1>3

LEMMA GoRefines ==
  ASSUME StartInv, NEW p \in Processes, NEW place \in Places, Go(p, place),
         UNCHANGED clock, At(p) # "up", place = "up" => SameMode(p)
  PROVE  [Mode!Next]_(Mode!chooseVars)
<1>1. /\ proc'[p].at = place /\ proc'[p].mode = proc[p].mode
      /\ \A q \in Processes \ {p} : proc'[q] = proc[q]
  BY GoFacts DEF StartInv
<1>2. CASE place = "up"
  <2>1. Running(p)' = clock.mode /\ clock \in ClockRows
    BY <1>1, <1>2, Types DEF Running, At, SameMode, StartInv
  <2>2. clock.mode # None
    BY <2>1, NoRowFacts, StartupAssumption
  <2> QED BY <1>1, <2>1, <2>2, OneMoves
<1>3. CASE place # "up"
  BY <1>1, <1>3, OneMoves DEF Running, At
<1> QED BY <1>2, <1>3

LEMMA BeginRefines ==
  ASSUME StartInv, NEW p \in Processes, NEW mode \in Modes,
         NEW place \in {"open", "connect", "assert", "refused"}, Begin(p, place, mode)
  PROVE  [Mode!Next]_(Mode!chooseVars)
<1>1. PICK now \in Times : proc' = [proc EXCEPT ![p] =
        [at |-> place, mode |-> mode, step |-> 1, now |-> IF mode = "test" THEN now ELSE None]]
  BY DEF Begin
<1>2. proc \in [Processes -> Procs]
  BY Types DEF StartInv
<1>3. proc'[p].at = place /\ \A q \in Processes \ {p} : proc'[q] = proc[q]
  BY <1>1, <1>2
<1>4. Running(p)' = None /\ clock' = clock
  BY <1>3 DEF Running, At, Begin
<1> QED BY <1>3, <1>4, OneMoves

LEMMA OpeningRefines ==
  ASSUME StartInv, NEW p \in Processes, Opening(p)
  PROVE  [Mode!Next]_(Mode!chooseVars)
<1>1. CASE Open(p) \/ Connect(p) \/ Migrated(p) \/ Ensure(p) \/ AssertMode(p)
  <2>1. PICK place \in Places : Go(p, place) /\ UNCHANGED clock /\ (place = "up" => SameMode(p))
    BY <1>1 DEF Open, Connect, Migrated, Ensure, AssertMode, Places
  <2>2. At(p) # "up"
    BY <1>1 DEF Open, Connect, Migrated, Ensure, AssertMode
  <2> QED BY <2>1, <2>2, GoRefines
<1>2. CASE Migrate(p)
  <2>1. At(p) = "migrate" /\ proc' = [proc EXCEPT ![p].step = @ + 1]
        /\ (clock' = FirstRow(p) \/ clock' = clock)
    BY <1>2 DEF Migrate
  <2>2. proc \in [Processes -> Procs]
    BY Types DEF StartInv
  <2>3. PICK x \in Procs : x = proc[p]
    BY <2>2
  <2>4. PICK y : y = [x EXCEPT !.step = x.step + 1]
    OBVIOUS
  <2>5. y.at = x.at /\ y.mode = x.mode
    BY <2>4 DEF Procs
  <2>6. proc'[p] = y /\ \A q \in Processes \ {p} : proc'[q] = proc[q]
    BY <2>1, <2>2, <2>3, <2>4
  <2>7. \A q \in Processes : Running(q)' = Running(q)
    BY <2>3, <2>5, <2>6 DEF Running, At
  <2> QED BY <2>1, <2>6, <2>7, RowChosen, OneMoves
<1>3. CASE Insert(p)
  <2>1. At(p) = "insert" /\ Go(p, "assert") /\ clock' = FirstRow(p)
    BY <1>3 DEF Insert
  <2>2. proc'[p].at = "assert" /\ \A q \in Processes \ {p} : proc'[q] = proc[q]
    BY <2>1, GoFacts DEF StartInv, Places
  <2>3. \A q \in Processes : Running(q)' = Running(q)
    BY <2>1, <2>2 DEF Running, At
  <2> QED BY <2>1, <2>3, RowChosen
<1> QED BY <1>1, <1>2, <1>3 DEF Opening

LEMMA EndRefines ==
  ASSUME StartInv, NEW p \in Processes, Exit(p) \/ Crash(p)
  PROVE  [Mode!Next]_(Mode!chooseVars)
<1>1. proc' = [proc EXCEPT ![p] = Down] /\ clock' = clock
  BY DEF Exit, Crash
<1>2. proc'[p] = Down /\ \A q \in Processes \ {p} : proc'[q] = proc[q]
  BY <1>1, Types DEF StartInv
<1>3. Running(p)' = None
  BY <1>2 DEF Running, At, Down
<1> QED BY <1>1, <1>2, <1>3, OneMoves

\* The clock mode of a database implements a value chosen once for all the
\* processes: initialising chooses it, assert_mode makes a process begin with it.
THEOREM ClockModeChosenOnce == Spec => ModeChosenOnce
<1> USE StartupAssumption
<1>1. Init => Mode!Init
  BY DEF Init, Mode!Init, NoRow, Running, At, Down
<1>2. StartInv /\ [Next]_vars => [Mode!Next]_(Mode!chooseVars)
  <2> SUFFICES ASSUME StartInv, [Next]_vars PROVE [Mode!Next]_(Mode!chooseVars)
    OBVIOUS
  <2>1. ASSUME NEW p \in Processes, Starting(p) PROVE [Mode!Next]_(Mode!chooseVars)
    BY <2>1, BeginRefines DEF Starting, DemoInit, Command, StartScheduler, Initialize
  <2>2. ASSUME NEW p \in Processes, Write(p) PROVE [Mode!Next]_(Mode!chooseVars)
    BY <2>2 DEF Write, Mode!chooseVars, Running, At
  <2>3. ASSUME NEW p \in Processes, NEW now \in Times, SetTestNow(p, now)
        PROVE  [Mode!Next]_(Mode!chooseVars)
    BY <2>3, SetTestNowStep DEF SetTestNow, Mode!chooseVars, Running, At
  <2>4. CASE MachineClock
    BY <2>4 DEF MachineClock, Mode!chooseVars, Running, At
  <2>5. CASE UNCHANGED vars
    BY <2>5 DEF vars, Mode!chooseVars, Running, At
  <2> QED BY <2>1, <2>2, <2>3, <2>4, <2>5, OpeningRefines, EndRefines DEF Next
<1> QED BY <1>1, <1>2, StartInvHolds, PTL DEF Spec, ModeChosenOnce, Mode!Spec
=============================================================================
