----------------------------- MODULE Scheduler -----------------------------
(***************************************************************************)
(* The lifecycle half of one scheduler tick (ojp/scheduler.py, tick_once): *)
(* expire what is due, approve what was not reviewed in time, arbitrate    *)
(* disputes, reserve what is refundable. JobProtocol has each of these as  *)
(* one step on one job; here a tick is what the code makes of it: a list   *)
(* of targets read in one transaction, then one write transaction for each *)
(* target, under an operation id that is derived from the target, so that  *)
(* a later tick that finds the same id replays the recorded result instead *)
(* of running the effects again.                                           *)
(*                                                                         *)
(* Several ticks may run at once (a watch loop and a manual tick), users   *)
(* act between any two steps, and a tick may stop anywhere.                *)
(***************************************************************************)
EXTENDS JobProtocol

CONSTANTS
  Schedulers,  \* processes that run ticks
  ClockMode,   \* runtime_clock.mode, "test" or "realtime"
  MaxCrashes   \* how often a tick may stop half-way: bounds the model

ASSUME SchedulerAssumption ==
  /\ ClockMode \in {"test", "realtime"}
  /\ MaxCrashes \in Nat

VARIABLES
  tick,    \* where each scheduler is in its tick, and what it has read
  ops,     \* recorded lifecycle operations: expiry:, auto-approve:, resolve:
  crashes

schedVars == <<tick, ops, crashes>>
allVars   == <<vars, schedVars>>

\* expiry:job:{job}, expiry:{lease}, auto-approve:{submission}, resolve:{dispute};
\* a job has one lease, one submission and one dispute at most.
OperationIds == {"expiry-job", "expiry-lease", "auto-approve", "resolve"} \X Jobs

Phase == {"idle", "snapshot", "expire", "approve", "dispute", "reserve"}

\* What an arbitration says of the disputed condition. The second verification
\* passing, or failing on another condition, does not uphold the dispute.
Verdict == {"none", "not-upheld", "upheld", "unresponsive"}

\* What the expiry preview reads of the database.
NoSnapshot == [state |-> [j \in Jobs |-> "NONE"], expires |-> [j \in Jobs |-> 0],
               now |-> 0]
Idle == [phase |-> "idle", snapshot |-> NoSnapshot, todo |-> {}, current |-> None,
         verdict |-> "none"]

SchedTypeOK ==
  /\ tick \in [Schedulers -> [phase : Phase,
                              snapshot : [state : [Jobs -> JobState],
                                          expires : [Jobs -> Nat], now : Nat],
                              todo : SUBSET (OperationIds \cup ({"reserve"} \X Roots)),
                              current : Jobs \cup {None},
                              verdict : Verdict]]
  /\ ops \subseteq OperationIds
  /\ crashes \in 0..MaxCrashes

SchedInit ==
  /\ Init
  /\ tick = [s \in Schedulers |-> Idle]
  /\ ops = {}
  /\ crashes = 0

Goto(s, phase, todo) ==
  tick' = [tick EXCEPT ![s] = [Idle EXCEPT !.phase = phase, !.todo = todo]]

Done(s, x) == Goto(s, tick[s].phase, tick[s].todo \ {x})

\* An OjpError on one target ends its group: the targets that are left wait for
\* the next tick.
AbortGroup(s) == Goto(s, tick[s].phase, {})

-----------------------------------------------------------------------------
(***************************************************************************)
(* expire_due_leases                                                       *)
(***************************************************************************)

\* The deferred transaction of the preview gets its snapshot with its first
\* read, the runtime_clock row.
TakeSnapshot(s) ==
  /\ tick[s].phase = "idle"
  /\ tick' = [tick EXCEPT ![s].phase = "snapshot",
                          ![s].snapshot = [state |-> state,
                                           expires |-> [j \in Jobs |-> lease[j].expires],
                                           now |-> now]]
  /\ UNCHANGED <<vars, ops, crashes>>

PreviewNow_Fault(s) == now

\* now_for_read_snapshot: the test clock is part of the snapshot, the real one
\* is read afterwards.
PreviewNow(s) == IF ClockMode = "test" THEN tick[s].snapshot.now ELSE now

\* _collect_expiry_targets, on the snapshot. A job is named by its lease if it
\* has one, else by itself; a job with a submission has no open lease.
ExpiryTargets(s) ==
  LET old == tick[s].snapshot IN
  {<<"expiry-lease", j>> : j \in {i \in Jobs :
      /\ old.state[i] = "LEASED"
      /\ old.expires[i] <= PreviewNow(s) \/ deadline[i] <= PreviewNow(s)}}
  \cup {<<"expiry-job", j>> : j \in {i \in Jobs :
      old.state[i] = "OPEN" /\ deadline[i] <= PreviewNow(s)}}

CollectExpiries(s) ==
  /\ tick[s].phase = "snapshot"
  /\ Goto(s, "expire", ExpiryTargets(s))
  /\ UNCHANGED <<vars, ops, crashes>>

\* _run_idempotent: the operation id is known, its result is returned as is.
ReplayExpiry(s, x) ==
  /\ tick[s].phase = "expire" /\ x \in tick[s].todo
  /\ x \in ops
  /\ Done(s, x)
  /\ UNCHANGED <<vars, ops, crashes>>

ApplyExpiry_Fault(s, x) ==
  /\ tick[s].phase = "expire" /\ x \in tick[s].todo
  /\ x \notin ops
  /\ IF state[x[2]] \in {"OPEN", "LEASED"} THEN FailJob(x[2], "EXPIRED", "EXPIRED")
                                          ELSE UNCHANGED vars
  /\ ops' = ops \cup {x}
  /\ Done(s, x)
  /\ UNCHANGED crashes

\* The write transaction checks everything again. What is due is ended; what is
\* no longer due is recorded as skipped, under the same operation id.
ApplyExpiry(s, x) ==
  /\ tick[s].phase = "expire" /\ x \in tick[s].todo
  /\ x \notin ops
  /\ ~ (state[x[2]] = "LEASED" /\ x[1] = "expiry-job")
  /\ IF ExpiryDue(x[2]) THEN Expire(x[2]) ELSE UNCHANGED vars
  /\ ops' = ops \cup {x}
  /\ Done(s, x)
  /\ UNCHANGED crashes

\* The job was OPEN in the preview and has been claimed since: "leased job has
\* no lease row" is raised and rolled back.
AbortExpiry(s, x) ==
  /\ tick[s].phase = "expire" /\ x \in tick[s].todo
  /\ x \notin ops
  /\ state[x[2]] = "LEASED" /\ x[1] = "expiry-job"
  /\ AbortGroup(s)
  /\ UNCHANGED <<vars, ops, crashes>>

-----------------------------------------------------------------------------
(***************************************************************************)
(* approve_due_submissions                                                 *)
(***************************************************************************)

CollectSubmissions_Fault(s) ==
  /\ tick[s].phase = "expire" /\ tick[s].todo = {}
  /\ Goto(s, "approve", {j \in Jobs : state[j] = "SUBMITTED" /\ reviewDue[j] <= now})
  /\ UNCHANGED <<vars, ops, crashes>>

\* review_due_at_us never changes and the write transaction looks at the state
\* again, so snapshot and clock are read in one step.
CollectSubmissions(s) ==
  /\ tick[s].phase = "expire" /\ tick[s].todo = {}
  /\ Goto(s, "approve",
          {<<"auto-approve", j>> : j \in {i \in Jobs :
              /\ state[i] = "SUBMITTED"
              /\ reviewDue[i] <= now
              /\ dispute[i].status # "OPEN"}})
  /\ UNCHANGED <<vars, ops, crashes>>

\* _auto_approve_submission: skipped, and not recorded, when the job is no
\* longer SUBMITTED. The due time is not looked at again.
ApplyAutoApprove(s, x) ==
  /\ tick[s].phase = "approve" /\ x \in tick[s].todo
  /\ IF state[x[2]] # "SUBMITTED" \/ x \in ops
       THEN UNCHANGED <<vars, ops>>
       ELSE /\ ApproveEffects(x[2])
            /\ UNCHANGED dispute
            /\ ops' = ops \cup {x}
  /\ Done(s, x)
  /\ UNCHANGED crashes

-----------------------------------------------------------------------------
(***************************************************************************)
(* resolve_due_disputes                                                    *)
(***************************************************************************)

CollectDisputes(s) ==
  /\ tick[s].phase = "approve" /\ tick[s].todo = {}
  /\ Goto(s, "dispute", {<<"resolve", j>> : j \in {i \in Jobs :
                                                   dispute[i].status = "OPEN"}})
  /\ UNCHANGED <<vars, ops, crashes>>

\* A dispute whose resolve operation is recorded is answered from the record.
ReplayResolve(s, x) ==
  /\ tick[s].phase = "dispute" /\ tick[s].current = None /\ x \in tick[s].todo
  /\ x \in ops
  /\ Done(s, x)
  /\ UNCHANGED <<vars, ops, crashes>>

\* The arbiter runs the verifier again before the write transaction begins.
Arbitrate(s, x, v) ==
  /\ tick[s].phase = "dispute" /\ tick[s].current = None /\ x \in tick[s].todo
  /\ x \notin ops
  /\ tick' = [tick EXCEPT ![s].current = x[2], ![s].verdict = v]
  /\ UNCHANGED <<vars, ops, crashes>>

\* An arbiter that does not answer decides nothing before the dispute is due.
TooEarly(s, j) ==
  /\ dispute[j].status = "OPEN"
  /\ tick[s].verdict = "unresponsive"
  /\ now < dispute[j].due

\* Another tick resolved it during the arbitration: operation_id is UNIQUE.
ResolveConflict(s) ==
  /\ tick[s].current # None
  /\ <<"resolve", tick[s].current>> \in ops
  /\ AbortGroup(s)
  /\ UNCHANGED <<vars, ops, crashes>>

ResolvePending_Fault(s) ==
  LET x == <<"resolve", tick[s].current>> IN
  /\ tick[s].current # None
  /\ x \notin ops
  /\ TooEarly(s, tick[s].current)
  /\ Done(s, x)
  /\ ops' = ops \cup {x}
  /\ UNCHANGED <<vars, crashes>>

\* _ResolveSkipped: the transaction is rolled back with its operation, so that
\* a later tick arbitrates again.
ResolvePending(s) ==
  LET x == <<"resolve", tick[s].current>> IN
  /\ tick[s].current # None
  /\ x \notin ops
  /\ TooEarly(s, tick[s].current)
  /\ Done(s, x)
  /\ UNCHANGED <<vars, ops, crashes>>

ResolveWrite(s) ==
  LET j == tick[s].current
      x == <<"resolve", j>> IN
  /\ j # None
  /\ x \notin ops
  /\ ~ TooEarly(s, j)
  /\ IF dispute[j].status # "OPEN" \/ state[j] # "DISPUTED"
       THEN UNCHANGED vars
       ELSE CASE tick[s].verdict = "not-upheld" -> ResolveApprove(j)
              [] tick[s].verdict = "upheld" -> ResolveReject(j)
              [] tick[s].verdict = "unresponsive" -> ResolveUnresponsive(j)
  /\ ops' = ops \cup {x}
  /\ Done(s, x)
  /\ UNCHANGED crashes

-----------------------------------------------------------------------------
(***************************************************************************)
(* The end of the tick, and of the process.                                *)
(***************************************************************************)

\* _refundable_root_ids
CollectRefundable(s) ==
  /\ tick[s].phase = "dispute" /\ tick[s].todo = {} /\ tick[s].current = None
  /\ Goto(s, "reserve", {<<"reserve", r>> : r \in {i \in Roots :
                           state[i] \in Failed /\ bal[Available(i)] > 0}})
  /\ UNCHANGED <<vars, ops, crashes>>

\* One reservation per root; then the payments are processed (PaymentStep) and
\* the tick is over. The operation id is fresh each time.
ReserveOrFinish(s) ==
  /\ tick[s].phase = "reserve"
  /\ IF tick[s].todo = {}
       THEN Goto(s, "idle", {}) /\ UNCHANGED vars
       ELSE \E x \in tick[s].todo :
              /\ Done(s, x)
              /\ IF state[x[2]] \in Failed THEN ReserveRefundable(x[2]) ELSE UNCHANGED vars
  /\ UNCHANGED <<ops, crashes>>

\* The process dies, or the database stays locked, between two transactions.
TickStops(s) ==
  /\ tick[s].phase # "idle"
  /\ crashes < MaxCrashes
  /\ crashes' = crashes + 1
  /\ Goto(s, "idle", {})
  /\ UNCHANGED <<vars, ops>>

-----------------------------------------------------------------------------
TickProgress(s) ==
  \/ TakeSnapshot(s) \/ CollectExpiries(s)
  \/ \E x \in tick[s].todo : ReplayExpiry(s, x) \/ ApplyExpiry(s, x) \/ AbortExpiry(s, x)
  \/ CollectSubmissions(s)
  \/ \E x \in tick[s].todo : ApplyAutoApprove(s, x)
  \/ CollectDisputes(s)
  \/ \E x \in tick[s].todo : \/ ReplayResolve(s, x)
                             \/ \E v \in Verdict \ {"none"} : Arbitrate(s, x, v)
  \/ ResolveConflict(s) \/ ResolvePending(s) \/ ResolveWrite(s)
  \/ CollectRefundable(s) \/ ReserveOrFinish(s)

\* A late dispute approves through _auto_approve_submission too, which records
\* the same operation as the tick would.
LateDispute(p, j) ==
  /\ DisputeTooLate(p, j)
  /\ ops' = ops \cup {<<"auto-approve", j>>}
  /\ UNCHANGED <<tick, crashes>>

Review == \E p \in Participants, j \in Jobs : Approve(p, j) \/ Dispute(p, j)

Others == PublishStep \/ WorkStep \/ Review \/ PaymentStep

SchedNext ==
  \/ \E s \in Schedulers : TickProgress(s) \/ TickStops(s)
  \/ \E p \in Participants, j \in Jobs : LateDispute(p, j)
  \/ (Others \/ AdvanceTime) /\ UNCHANGED schedVars

SchedSpec == SchedInit /\ [][SchedNext]_allVars

\* watch repeats tick_once for ever and time passes; nothing makes a
\* participant act.
SchedFairSpec ==
  /\ SchedSpec
  /\ \A s \in Schedulers : WF_allVars(TickProgress(s))
  /\ WF_allVars(AdvanceTime /\ UNCHANGED schedVars)

-----------------------------------------------------------------------------
(***************************************************************************)
(* Properties                                                              *)
(***************************************************************************)

\* Stale previews, replays, aborted groups, dying ticks and two ticks at once
\* add no behaviour to the jobs and the money: what a tick does to a target is
\* always one step of JobProtocol, with its guards true at that moment.
CoreSpec == Spec

\* A recorded operation has had its effect: no auto-approval or resolution is
\* recorded as done, and so replayed for ever, for a job that still waits for it.
RecordedMeansApplied ==
  \A j \in Jobs :
    /\ <<"expiry-job", j>> \in ops => state[j] # "OPEN"
    /\ <<"auto-approve", j>> \in ops => acceptance[j] = "APPROVED"
    /\ <<"resolve", j>> \in ops => dispute[j].status = "RESOLVED"

\* The same of a lease: with the test clock, where the preview's time and rows
\* are one snapshot, a recorded expiry never leaves the job LEASED.
RecordedExpiryEndsLease ==
  \A j \in Jobs : <<"expiry-lease", j>> \in ops => state[j] # "LEASED"

\* Section 12 of the plan, no funds are frozen for ever: whoever stops acting,
\* a funded job is decided in the end.
EveryJobDecided == \A j \in Jobs : state[j] \in Live ~> state[j] \in Terminal

\* Whatever the clock, a submission is decided in the end, disputed or not,
\* with an arbiter that answers or does not.
EveryReviewDecided ==
  \A j \in Jobs : state[j] \in {"SUBMITTED", "DISPUTED"} ~> state[j] \in Terminal

\* Section 6 of the plan, LEASED and the deadline reached without a submission:
\* EXPIRED.
DeadlineEndsJob ==
  \A j \in Jobs : state[j] = "LEASED" /\ now >= deadline[j] ~> state[j] = "EXPIRED"

=============================================================================
