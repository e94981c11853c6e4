-------------------------- MODULE SchedulerProofs --------------------------
(***************************************************************************)
(* The scheduler implements the core: whatever ticks read, however many    *)
(* run at once and wherever they stop, what they do to jobs and money is a *)
(* step of JobProtocol.                                                    *)
(***************************************************************************)
EXTENDS Scheduler, JobProofs

Targets == OperationIds \cup ({"reserve"} \X Roots)

TickRecords ==
  [phase : Phase,
   snapshot : [state : [Jobs -> JobState], expires : [Jobs -> Nat], now : Nat],
   todo : SUBSET Targets,
   current : Jobs \cup {None},
   verdict : Verdict]

\* Three things that stay true of a job: it was funded, it was submitted, its
\* submission was disputed.
Funded(j) == state[j] \notin {"NONE", "DRAFT"}
Submitted(j) == state[j] \in {"SUBMITTED", "DISPUTED"} \cup Terminal
Disputed(j) == dispute[j].status # "NONE"

\* What a tick has read stays true of the database while others act: its
\* snapshot is from the past; a job to expire by itself is past its deadline; a
\* submission to approve is past its review time; a dispute to resolve exists,
\* and its arbitration has a verdict; only roots are reserved.
WellCollected(t) ==
  /\ t.phase = "snapshot" =>
       /\ t.snapshot.now <= now
       /\ \A j \in Jobs : t.snapshot.state[j] = "OPEN" => Funded(j)
  /\ t.phase = "expire" =>
       \A x \in t.todo : /\ x \in {"expiry-job", "expiry-lease"} \X Jobs
                         /\ x[1] = "expiry-job" =>
                              Funded(x[2]) /\ deadline[x[2]] <= now
  /\ t.phase = "approve" =>
       \A x \in t.todo : /\ x \in {"auto-approve"} \X Jobs
                         /\ Submitted(x[2])
                         /\ reviewDue[x[2]] <= now
  /\ t.phase = "dispute" =>
       \A x \in t.todo : x \in {"resolve"} \X Jobs /\ Disputed(x[2])
  /\ t.phase = "reserve" => t.todo \subseteq {"reserve"} \X Roots
  /\ t.current # None =>
       t.phase = "dispute" /\ t.verdict # "none" /\ Disputed(t.current)

SchedInv ==
  /\ IInv
  /\ tick \in [Schedulers -> TickRecords]
  /\ \A s \in Schedulers : WellCollected(tick[s])
  /\ ops \subseteq OperationIds
  /\ crashes \in 0..MaxCrashes
  /\ RecordedMeansApplied
  /\ \A j \in Jobs : <<"expiry-job", j>> \in ops => Funded(j)

LEMMA TargetJobs == \A x \in Targets : x[2] \in Jobs
BY DEF Targets, OperationIds, Jobs

LEMMA IdleTick == Idle \in TickRecords /\ WellCollected(Idle)
<1>1. NoSnapshot \in [state : [Jobs -> JobState], expires : [Jobs -> Nat], now : Nat]
  BY DEF NoSnapshot, JobState
<1> QED BY <1>1 DEF Idle, TickRecords, WellCollected, Phase, Verdict

LEMMA InitSchedInv == SchedInit => SchedInv
BY InitIInv, IdleTick, SchedulerAssumption DEF SchedInit, SchedInv, RecordedMeansApplied

\* A list that fits its phase.
WellListed(phase, todo) ==
  /\ phase # "snapshot"
  /\ phase = "expire" =>
       \A x \in todo : /\ x \in {"expiry-job", "expiry-lease"} \X Jobs
                       /\ x[1] = "expiry-job" => Funded(x[2]) /\ deadline[x[2]] <= now
  /\ phase = "approve" =>
       \A x \in todo : /\ x \in {"auto-approve"} \X Jobs
                       /\ Submitted(x[2])
                       /\ reviewDue[x[2]] <= now
  /\ phase = "dispute" =>
       \A x \in todo : x \in {"resolve"} \X Jobs /\ Disputed(x[2])
  /\ phase = "reserve" => todo \subseteq {"reserve"} \X Roots

LEMMA GotoKeeps ==
  ASSUME SchedInv, NEW s \in Schedulers, NEW phase \in Phase, NEW todo \in SUBSET Targets,
         Goto(s, phase, todo), WellListed(phase, todo)
  PROVE  \E t \in TickRecords : WellCollected(t) /\ tick' = [tick EXCEPT ![s] = t]
<1> DEFINE t == [Idle EXCEPT !.phase = phase, !.todo = todo]
<1>1. t \in TickRecords
  BY IdleTick DEF TickRecords
<1>2. t.phase = phase /\ t.todo = todo /\ t.current = None
  BY DEF Idle
<1>3. WellCollected(t)
  BY <1>2 DEF WellCollected, WellListed
<1> QED BY <1>1, <1>3 DEF Goto

\* Time does not run back.
LEMMA TimeMoves ==
  ASSUME IInv, [Next]_vars
  PROVE  now' >= now
BY DEF IInv, TypeOK, Next, vars, jobVars, stageVars, PublishStep, CreateRoot, FundRoot,
       WorkStep, Claim, Heartbeat, Abandon, FailJob, Submit, CreateChild, ReviewStep,
       Approve, Dispute, DisputeTooLate, ApproveEffects, TickStep, Expire, AutoApprove,
       ResolveApprove, ResolveUnresponsive, ResolveReject, ReserveRefundable,
       PaymentStep, TransferPayment, MarkSucceeded, PaymentFails, AdvanceTime

\* A published deadline and a review time are fixed, a
\* submitted job stays submitted or is decided, and a dispute is kept.
LEMMA RowStays ==
  ASSUME IInv, [Next]_vars, NEW i \in Jobs
  PROVE  /\ Funded(i) => Funded(i)' /\ deadline'[i] = deadline[i]
         /\ Submitted(i) => Submitted(i)' /\ reviewDue'[i] = reviewDue[i]
         /\ Disputed(i) => Disputed(i)'
         /\ dispute[i].status = "RESOLVED" => dispute'[i].status = "RESOLVED"
         /\ state[i] # "OPEN" /\ Funded(i) => state'[i] # "OPEN"
<1>1. TypeOK
  BY DEF IInv
<1>2. Submitted(i) => Submitted(i)'
  BY JobTransitions DEF Submitted, Terminal, vars, jobVars
<1> DEFINE Kept == /\ Funded(i) => Funded(i)' /\ deadline'[i] = deadline[i]
                   /\ Submitted(i) => reviewDue'[i] = reviewDue[i]
                   /\ Disputed(i) => Disputed(i)'
                   /\ dispute[i].status = "RESOLVED" => dispute'[i].status = "RESOLVED"
                   /\ state[i] # "OPEN" /\ Funded(i) => state'[i] # "OPEN"
<1>4. ASSUME NEW r \in Roots, NEW p \in Requesters, NEW b \in RootBudgets,
             NEW d \in RootDeadlines, CreateRoot(p, r, b, d)
      PROVE  Kept
  BY <1>1, <1>4 DEF CreateRoot, stageVars, TypeOK, Funded, Submitted, Disputed, Jobs
<1>5. ASSUME NEW r \in Roots, NEW p \in Participants, FundRoot(p, r)
      PROVE  Kept
  BY <1>1, <1>5 DEF FundRoot, stageVars, TypeOK, Funded, Submitted, Disputed, Jobs
<1>6. ASSUME NEW p \in Participants, NEW j \in Jobs,
             Claim(p, j) \/ Heartbeat(p, j) \/ Abandon(p, j) \/ Submit(p, j)
      PROVE  Kept
  BY <1>1, <1>6 DEF Claim, Heartbeat, Abandon, FailJob, Submit, jobVars, TypeOK,
                    Funded, Submitted, Disputed, Terminal
<1>7. ASSUME NEW p \in Participants, NEW r \in Roots, NEW c \in Children, NEW t \in Tasks,
             NEW b \in ChildBudgets, NEW d \in ChildDeadlines, CreateChild(p, r, c, t, b, d)
      PROVE  Kept
  BY <1>1, <1>7 DEF CreateChild, stageVars, TypeOK, Funded, Submitted, Disputed, Jobs
<1>8. ASSUME NEW j \in Jobs, state[j] \in {"SUBMITTED", "DISPUTED"}, ApproveEffects(j)
      PROVE  /\ state' = [state EXCEPT ![j] = "DONE"]
             /\ UNCHANGED <<deadline, reviewDue>>
  BY <1>8 DEF ApproveEffects
<1>9. ASSUME NEW j \in Jobs, ResolveDispute(j), dispute[j].status = "OPEN"
      PROVE  /\ dispute'[j].status = "RESOLVED"
             /\ \A k \in Jobs \ {j} : dispute'[k] = dispute[k]
  BY <1>1, <1>9 DEF ResolveDispute, TypeOK
<1>10. ASSUME NEW p \in Participants, NEW j \in Jobs,
              Approve(p, j) \/ Dispute(p, j) \/ DisputeTooLate(p, j)
       PROVE  Kept
  <2>1. CASE Dispute(p, j)
    BY <1>1, <2>1 DEF Dispute, TypeOK, Funded, Submitted, Disputed, Terminal
  <2>2. CASE Approve(p, j) \/ DisputeTooLate(p, j)
    BY <1>1, <1>8, <2>2 DEF Approve, DisputeTooLate, TypeOK, Funded, Submitted, Disputed
  <2> QED BY <1>10, <2>1, <2>2
<1>11. ASSUME TickStep PROVE Kept
  <2>1. ASSUME NEW j \in Jobs, Expire(j) PROVE Kept
    BY <1>1, <2>1 DEF Expire, ExpiryDue, FailJob, TypeOK, Funded, Submitted, Disputed
  <2>2. ASSUME NEW j \in Jobs, AutoApprove(j) PROVE Kept
    BY <1>1, <1>8, <2>2 DEF AutoApprove, TypeOK, Funded, Submitted, Disputed
  <2>3. ASSUME NEW j \in Jobs, ResolveApprove(j) \/ ResolveUnresponsive(j) PROVE Kept
    BY <1>1, <1>8, <1>9, <2>3
       DEF ResolveApprove, ResolveUnresponsive, TypeOK, Funded, Submitted, Disputed
  <2>4. ASSUME NEW j \in Jobs, ResolveReject(j) PROVE Kept
    BY <1>1, <1>9, <2>4 DEF ResolveReject, TypeOK, Funded, Submitted, Disputed
  <2>5. ASSUME NEW r \in Roots, ReserveRefundable(r) PROVE Kept
    BY <2>5 DEF ReserveRefundable, jobVars, stageVars, Funded, Disputed
  <2> QED BY <1>11, <2>1, <2>2, <2>3, <2>4, <2>5 DEF TickStep
<1>12. ASSUME PaymentStep \/ AdvanceTime \/ UNCHANGED vars PROVE Kept
  BY <1>12 DEF PaymentStep, TransferPayment, MarkSucceeded, PaymentFails,
               AdvanceTime, vars, jobVars, stageVars, Funded, Disputed
<1> HIDE DEF Kept
<1>13. Kept
  BY <1>4, <1>5, <1>6, <1>7, <1>10, <1>11, <1>12 DEF Next, PublishStep, WorkStep, ReviewStep
<1> QED BY <1>2, <1>13 DEF Kept

\* What was collected stays true whatever is done to jobs and money.
LEMMA CollectionStays ==
  ASSUME IInv, [Next]_vars, NEW t \in TickRecords, WellCollected(t)
  PROVE  WellCollected(t)'
<1>1. TypeOK /\ TypeOK'
  BY NextKeepsIInv DEF IInv
<1>2. now \in Nat /\ now' \in Nat /\ deadline \in [Jobs -> Nat] /\ reviewDue \in [Jobs -> Nat]
  BY <1>1 DEF TypeOK
<1>3. ASSUME NEW i \in Jobs
      PROVE  /\ Funded(i) => Funded(i)'
             /\ Funded(i) /\ deadline[i] <= now => deadline'[i] <= now'
             /\ Submitted(i) => Submitted(i)'
             /\ Submitted(i) /\ reviewDue[i] <= now => reviewDue'[i] <= now'
             /\ Disputed(i) => Disputed(i)'
  BY <1>2, RowStays, TimeMoves
<1>4. CASE t.phase = "snapshot"
  <2>1. t.snapshot.now \in Nat /\ t.snapshot.now <= now /\ t.current = None
    BY <1>4 DEF TickRecords, WellCollected
  <2>2. now' >= now
    BY TimeMoves
  <2> QED BY <1>2, <1>3, <1>4, <2>1, <2>2 DEF WellCollected
<1>5. ASSUME t.phase # "snapshot" PROVE WellCollected(t)'
  <2>1. \A x \in t.todo : x[2] \in Jobs
    BY TargetJobs DEF TickRecords
  <2>2. t.current # None => t.current \in Jobs
    BY DEF TickRecords
  <2> QED BY <1>3, <1>5, <2>1, <2>2 DEF WellCollected
<1> QED BY <1>4, <1>5

\* What was recorded stays applied.
RecordsHold(records) ==
  \A j \in Jobs :
    /\ <<"expiry-job", j>> \in records => state[j] # "OPEN" /\ Funded(j)
    /\ <<"auto-approve", j>> \in records => acceptance[j] = "APPROVED"
    /\ <<"resolve", j>> \in records => dispute[j].status = "RESOLVED"

LEMMA RecordsStay ==
  ASSUME SchedInv, [Next]_vars
  PROVE  \A j \in Jobs :
           /\ <<"expiry-job", j>> \in ops => state'[j] # "OPEN" /\ Funded(j)'
           /\ <<"auto-approve", j>> \in ops => acceptance'[j] = "APPROVED"
           /\ <<"resolve", j>> \in ops => dispute'[j].status = "RESOLVED"
<1> SUFFICES ASSUME NEW j \in Jobs
             PROVE  /\ <<"expiry-job", j>> \in ops => state'[j] # "OPEN" /\ Funded(j)'
                    /\ <<"auto-approve", j>> \in ops => acceptance'[j] = "APPROVED"
                    /\ <<"resolve", j>> \in ops => dispute'[j].status = "RESOLVED"
  OBVIOUS
<1>1. IInv /\ MoneyFollowsVerdict /\ RecordedMeansApplied
  BY DEF SchedInv, IInv
<1>2. acceptance[j] = "APPROVED" => acceptance'[j] = "APPROVED"
  BY <1>1, JobTransitions DEF MoneyFollowsVerdict, Terminal, vars, stageVars
<1>3. <<"expiry-job", j>> \in ops => state[j] # "OPEN" /\ Funded(j)
  BY <1>1 DEF SchedInv, RecordedMeansApplied
<1> QED BY <1>1, <1>2, <1>3, RowStays DEF RecordedMeansApplied

\* A step of one scheduler to a well-collected record.
LEMMA TickMoves ==
  ASSUME SchedInv, [Next]_vars, NEW s \in Schedulers, NEW t \in TickRecords,
         WellCollected(t), tick' = [tick EXCEPT ![s] = t],
         ops' \subseteq OperationIds, crashes' \in 0..MaxCrashes,
         RecordsHold(ops)'
  PROVE  SchedInv'
<1>1. IInv'
  BY NextKeepsIInv DEF SchedInv
<1>2. tick' \in [Schedulers -> TickRecords]
  BY DEF SchedInv
<1>3. ASSUME NEW z \in Schedulers PROVE WellCollected(tick[z])'
  <2>1. PICK u \in TickRecords : u = tick'[z] /\ WellCollected(u)
    BY <1>2 DEF SchedInv
  <2>2. WellCollected(u)'
    BY <2>1, CollectionStays DEF SchedInv
  <2> QED BY <2>1, <2>2 DEF WellCollected
<1>4. RecordedMeansApplied' /\ \A j \in Jobs : <<"expiry-job", j>> \in ops' => Funded(j)'
  BY DEF RecordsHold, RecordedMeansApplied
<1> QED BY <1>1, <1>2, <1>3, <1>4 DEF SchedInv

\* Where a tick goes on to the rest of its list, or drops it.
LEMMA DoneKeeps ==
  ASSUME SchedInv, NEW s \in Schedulers, NEW x, Done(s, x) \/ AbortGroup(s),
         tick[s].phase # "snapshot"
  PROVE  \E t \in TickRecords : WellCollected(t) /\ tick' = [tick EXCEPT ![s] = t]
<1>1. tick[s] \in TickRecords /\ WellCollected(tick[s])
  BY DEF SchedInv
<1>2. /\ tick[s].phase \in Phase
      /\ tick[s].todo \in SUBSET Targets
  BY <1>1 DEF TickRecords
<1>3. CASE Done(s, x)
  <2> DEFINE rest == tick[s].todo \ {x}
  <2>1. WellListed(tick[s].phase, rest)
    BY <1>1 DEF WellCollected, WellListed
  <2>2. rest \in SUBSET Targets /\ Goto(s, tick[s].phase, rest)
    BY <1>2, <1>3 DEF Done
  <2> HIDE DEF rest
  <2> QED BY <1>2, <2>1, <2>2, GotoKeeps
<1>4. CASE AbortGroup(s)
  <2>1. WellListed(tick[s].phase, {})
    BY DEF WellListed
  <2> QED BY <1>2, <1>4, <2>1, GotoKeeps DEF AbortGroup
<1> QED BY <1>3, <1>4

-----------------------------------------------------------------------------
(***************************************************************************)
(* Steps that read, and steps that write and record.                       *)
(***************************************************************************)

\* A step that only reads and moves its tick.
LEMMA ReadStep ==
  ASSUME SchedInv, NEW s \in Schedulers, UNCHANGED <<vars, ops>>,
         crashes' \in 0..MaxCrashes,
         \E t \in TickRecords : WellCollected(t) /\ tick' = [tick EXCEPT ![s] = t]
  PROVE  SchedInv' /\ [Next]_vars
<1>1. [Next]_vars
  OBVIOUS
<1>2. RecordsHold(ops)' /\ ops' \subseteq OperationIds
  BY <1>1, RecordsStay DEF RecordsHold, SchedInv
<1> QED BY <1>1, <1>2, TickMoves

\* A step of the core, with the operation it is recorded under.
LEMMA WriteStep ==
  ASSUME SchedInv, NEW s \in Schedulers, [Next]_vars, UNCHANGED crashes,
         \E t \in TickRecords : WellCollected(t) /\ tick' = [tick EXCEPT ![s] = t],
         NEW x \in OperationIds, ops' = ops \cup {x},
         x[1] = "expiry-job" => state'[x[2]] # "OPEN" /\ Funded(x[2])',
         x[1] = "auto-approve" => acceptance'[x[2]] = "APPROVED",
         x[1] = "resolve" => dispute'[x[2]].status = "RESOLVED"
  PROVE  SchedInv'
<1>1. \A k, j : x = <<k, j>> => x[1] = k /\ x[2] = j
  OBVIOUS
<1>2. RecordsHold(ops)'
  <2> SUFFICES ASSUME NEW j \in Jobs
               PROVE  /\ <<"expiry-job", j>> \in ops' => state'[j] # "OPEN" /\ Funded(j)'
                      /\ <<"auto-approve", j>> \in ops' => acceptance'[j] = "APPROVED"
                      /\ <<"resolve", j>> \in ops' => dispute'[j].status = "RESOLVED"
    BY DEF RecordsHold
  <2>1. /\ <<"expiry-job", j>> \in ops => state'[j] # "OPEN" /\ Funded(j)'
        /\ <<"auto-approve", j>> \in ops => acceptance'[j] = "APPROVED"
        /\ <<"resolve", j>> \in ops => dispute'[j].status = "RESOLVED"
    BY RecordsStay
  <2> QED BY <1>1, <2>1
<1>3. ops' \subseteq OperationIds /\ crashes' \in 0..MaxCrashes
  BY DEF SchedInv
<1> QED BY <1>2, <1>3, TickMoves

-----------------------------------------------------------------------------
(***************************************************************************)
(* The steps of a tick.                                                    *)
(***************************************************************************)

\* The preview of expire_due_leases reads a past that has stayed true.
LEMMA PreviewSteps ==
  ASSUME SchedInv, NEW s \in Schedulers, TakeSnapshot(s) \/ CollectExpiries(s)
  PROVE  SchedInv' /\ [Next]_vars
<1>1. TypeOK /\ tick[s] \in TickRecords /\ WellCollected(tick[s])
  BY DEF SchedInv, IInv
<1>2. UNCHANGED <<vars, ops>> /\ crashes' \in 0..MaxCrashes
  BY DEF TakeSnapshot, CollectExpiries, SchedInv
<1>3. CASE TakeSnapshot(s)
  <2> DEFINE snapshot == [state |-> state, expires |-> [j \in Jobs |-> lease[j].expires],
                          now |-> now]
             t == [tick[s] EXCEPT !.phase = "snapshot", !.snapshot = snapshot]
  <2>1. snapshot \in [state : [Jobs -> JobState], expires : [Jobs -> Nat], now : Nat]
    BY <1>1 DEF TypeOK
  <2>2. t \in TickRecords
    BY <1>1, <2>1 DEF TickRecords, Phase
  <2>3. t.phase = "snapshot" /\ t.snapshot = snapshot /\ t.current = tick[s].current
    BY <1>1 DEF TickRecords
  <2>4. tick[s].current = None
    BY <1>1, <1>3 DEF TakeSnapshot, WellCollected
  <2>5. \A j \in Jobs : snapshot.state[j] = "OPEN" => Funded(j)
    BY DEF Funded
  <2>6. snapshot.now <= now
    BY <1>1 DEF TypeOK
  <2> HIDE DEF snapshot
  <2>7. WellCollected(t)
    BY <2>3, <2>4, <2>5, <2>6 DEF WellCollected
  <2>8. tick' = [tick EXCEPT ![s] = t]
    BY <1>3 DEF TakeSnapshot, snapshot
  <2> HIDE DEF t
  <2> QED BY <1>2, <2>2, <2>7, <2>8, ReadStep
<1>4. CASE CollectExpiries(s)
  <2>1. /\ tick[s].phase = "snapshot"
        /\ Goto(s, "expire", ExpiryTargets(s))
    BY <1>4 DEF CollectExpiries
  <2>2. PreviewNow(s) \in Nat /\ PreviewNow(s) <= now
    BY <1>1, <2>1 DEF PreviewNow, WellCollected, TickRecords, TypeOK
  <2>3. \A j \in Jobs : tick[s].snapshot.state[j] = "OPEN" => Funded(j)
    BY <1>1, <2>1 DEF WellCollected
  <2>4. \A x \in ExpiryTargets(s) :
          /\ x \in {"expiry-job", "expiry-lease"} \X Jobs
          /\ x[1] = "expiry-job" => Funded(x[2]) /\ deadline[x[2]] <= PreviewNow(s)
    BY <2>3 DEF ExpiryTargets
  <2>5. \A j \in Jobs : deadline[j] \in Nat
    BY <1>1 DEF TypeOK
  <2>6. WellListed("expire", ExpiryTargets(s))
    BY <1>1, <2>2, <2>4, <2>5 DEF WellListed, TypeOK
  <2>7. ExpiryTargets(s) \in SUBSET Targets /\ "expire" \in Phase
    BY <2>4 DEF Targets, OperationIds, Phase
  <2> QED BY <1>2, <2>1, <2>6, <2>7, GotoKeeps, ReadStep
<1> QED BY <1>3, <1>4

\* The write transaction of expire_due_leases and what stands in for it.
LEMMA ExpirySteps ==
  ASSUME SchedInv, NEW s \in Schedulers, NEW x \in tick[s].todo,
         ReplayExpiry(s, x) \/ ApplyExpiry(s, x) \/ AbortExpiry(s, x)
  PROVE  SchedInv' /\ [Next]_vars
<1>1. TypeOK /\ MoneyFollowsVerdict /\ tick[s] \in TickRecords /\ WellCollected(tick[s])
  BY DEF SchedInv, IInv
<1>2. tick[s].phase = "expire" /\ (Done(s, x) \/ AbortGroup(s)) /\ UNCHANGED crashes
  BY DEF ReplayExpiry, ApplyExpiry, AbortExpiry
<1>3. \E t \in TickRecords : WellCollected(t) /\ tick' = [tick EXCEPT ![s] = t]
  BY <1>2, DoneKeeps
<1>4. CASE ReplayExpiry(s, x) \/ AbortExpiry(s, x)
  BY <1>2, <1>3, <1>4, ReadStep DEF ReplayExpiry, AbortExpiry, SchedInv
<1>5. CASE ApplyExpiry(s, x)
  <2>1. /\ x \in {"expiry-job", "expiry-lease"} \X Jobs
        /\ x[1] = "expiry-job" => Funded(x[2]) /\ deadline[x[2]] <= now
    BY <1>1, <1>2 DEF WellCollected
  <2>2. x[2] \in Jobs /\ x \in OperationIds
    BY <2>1 DEF OperationIds
  <2>3. [Next]_vars
    BY <1>5, <2>2 DEF ApplyExpiry, Next, TickStep
  <2>4. ASSUME x[1] = "expiry-job" PROVE state'[x[2]] # "OPEN" /\ Funded(x[2])'
    <3>1. CASE ExpiryDue(x[2])
      <4>1. state' = [state EXCEPT ![x[2]] = "EXPIRED"]
        BY <1>5, <3>1 DEF ApplyExpiry, Expire, FailJob
      <4> QED BY <1>1, <2>2, <4>1 DEF TypeOK, Funded
    <3>2. CASE ~ ExpiryDue(x[2])
      <4>1. state' = state
        BY <1>5, <3>2 DEF ApplyExpiry, vars, jobVars
      <4>2. state[x[2]] # "OPEN"
        BY <1>1, <2>1, <2>2, <2>4, <3>2 DEF ExpiryDue, TypeOK
      <4> QED BY <2>1, <2>4, <4>1, <4>2 DEF Funded
    <3> QED BY <3>1, <3>2
  <2>5. x[1] \in {"expiry-job", "expiry-lease"} /\ ops' = ops \cup {x}
    BY <1>5, <2>1 DEF ApplyExpiry
  <2> QED BY <1>2, <1>3, <2>2, <2>3, <2>4, <2>5, WriteStep
<1> QED BY <1>4, <1>5

\* approve_due_submissions: what was due is due, and if it is still SUBMITTED no
\* dispute is open.
LEMMA ApprovalSteps ==
  ASSUME SchedInv, NEW s \in Schedulers,
         \/ CollectSubmissions(s)
         \/ \E x \in tick[s].todo : ApplyAutoApprove(s, x)
  PROVE  SchedInv' /\ [Next]_vars
<1>1. /\ TypeOK /\ MoneyFollowsVerdict /\ RecordedMeansApplied
      /\ tick[s] \in TickRecords /\ WellCollected(tick[s])
  BY DEF SchedInv, IInv
<1>2. CASE CollectSubmissions(s)
  <2> DEFINE due == {<<"auto-approve", j>> : j \in {i \in Jobs :
                       /\ state[i] = "SUBMITTED"
                       /\ reviewDue[i] <= now
                       /\ dispute[i].status # "OPEN"}}
  <2>1. Goto(s, "approve", due) /\ UNCHANGED <<vars, ops, crashes>>
    BY <1>2 DEF CollectSubmissions
  <2>2. WellListed("approve", due)
    BY DEF WellListed, Submitted
  <2>3. due \in SUBSET Targets /\ "approve" \in Phase
    BY DEF Targets, OperationIds, Phase
  <2> HIDE DEF due
  <2>4. \E t \in TickRecords : WellCollected(t) /\ tick' = [tick EXCEPT ![s] = t]
    BY <2>1, <2>2, <2>3, GotoKeeps
  <2> QED BY <2>1, <2>4, ReadStep DEF SchedInv
<1>3. ASSUME NEW x \in tick[s].todo, ApplyAutoApprove(s, x) PROVE SchedInv' /\ [Next]_vars
  <2>1. tick[s].phase = "approve" /\ Done(s, x) /\ UNCHANGED crashes
    BY <1>3 DEF ApplyAutoApprove
  <2>2. \E t \in TickRecords : WellCollected(t) /\ tick' = [tick EXCEPT ![s] = t]
    BY <2>1, DoneKeeps
  <2>3. /\ x \in {"auto-approve"} \X Jobs
        /\ Submitted(x[2]) /\ reviewDue[x[2]] <= now
    BY <1>1, <2>1 DEF WellCollected
  <2>4. CASE state[x[2]] # "SUBMITTED" \/ x \in ops
    BY <1>3, <2>1, <2>2, <2>4, ReadStep DEF ApplyAutoApprove, SchedInv
  <2>5. CASE state[x[2]] = "SUBMITTED" /\ x \notin ops
    <3>1. ApproveEffects(x[2]) /\ UNCHANGED dispute /\ ops' = ops \cup {x}
      BY <1>3, <2>5 DEF ApplyAutoApprove
    <3>2. x[1] = "auto-approve" /\ x[2] \in Jobs /\ x \in OperationIds
      BY <2>3 DEF OperationIds
    <3>3. AutoApprove(x[2])
      BY <1>1, <2>3, <2>5, <3>1, <3>2 DEF AutoApprove, MoneyFollowsVerdict, TypeOK
    <3>4. [Next]_vars
      BY <3>2, <3>3 DEF Next, TickStep
    <3>5. acceptance'[x[2]] = "APPROVED"
      BY <1>1, <3>1, <3>2 DEF ApproveEffects, TypeOK
    <3> QED BY <2>1, <2>2, <3>1, <3>2, <3>4, <3>5, WriteStep
  <2> QED BY <2>4, <2>5
<1> QED BY <1>2, <1>3

\* resolve_due_disputes up to its write transaction.
LEMMA ArbitrationSteps ==
  ASSUME SchedInv, NEW s \in Schedulers,
         \/ CollectDisputes(s)
         \/ \E x \in tick[s].todo : \/ ReplayResolve(s, x)
                                    \/ \E v \in Verdict \ {"none"} : Arbitrate(s, x, v)
         \/ ResolveConflict(s) \/ ResolvePending(s)
  PROVE  SchedInv' /\ [Next]_vars
<1>1. tick[s] \in TickRecords /\ WellCollected(tick[s]) /\ crashes \in 0..MaxCrashes
  BY DEF SchedInv
<1>2. CASE CollectDisputes(s)
  <2> DEFINE open == {<<"resolve", j>> : j \in {i \in Jobs : dispute[i].status = "OPEN"}}
  <2>1. Goto(s, "dispute", open) /\ UNCHANGED <<vars, ops, crashes>>
    BY <1>2 DEF CollectDisputes
  <2>2. WellListed("dispute", open)
    BY DEF WellListed, Disputed
  <2>3. open \in SUBSET Targets /\ "dispute" \in Phase
    BY DEF Targets, OperationIds, Phase
  <2> HIDE DEF open
  <2>4. \E t \in TickRecords : WellCollected(t) /\ tick' = [tick EXCEPT ![s] = t]
    BY <2>1, <2>2, <2>3, GotoKeeps
  <2> QED BY <1>1, <2>1, <2>4, ReadStep
<1>3. ASSUME NEW x \in tick[s].todo, ReplayResolve(s, x) PROVE SchedInv' /\ [Next]_vars
  <2>1. tick[s].phase = "dispute" /\ Done(s, x) /\ UNCHANGED <<vars, ops, crashes>>
    BY <1>3 DEF ReplayResolve
  <2>2. \E t \in TickRecords : WellCollected(t) /\ tick' = [tick EXCEPT ![s] = t]
    BY <2>1, DoneKeeps
  <2> QED BY <1>1, <2>1, <2>2, ReadStep
<1>4. ASSUME NEW x \in tick[s].todo, NEW v \in Verdict \ {"none"}, Arbitrate(s, x, v)
      PROVE  SchedInv' /\ [Next]_vars
  <2> DEFINE t == [tick[s] EXCEPT !.current = x[2], !.verdict = v]
  <2>1. tick[s].phase = "dispute" /\ UNCHANGED <<vars, ops, crashes>>
    BY <1>4 DEF Arbitrate
  <2>2. x[2] \in Jobs /\ Disputed(x[2])
    BY <1>1, <2>1 DEF WellCollected
  <2>3. t \in TickRecords
    BY <1>1, <2>2 DEF TickRecords
  <2>4. t.phase = "dispute" /\ t.todo = tick[s].todo /\ t.current = x[2] /\ t.verdict = v
    BY <1>1, <2>1 DEF TickRecords
  <2>5. WellCollected(t)
    BY <1>1, <2>1, <2>2, <2>4 DEF WellCollected
  <2>6. tick' = [tick EXCEPT ![s] = t]
    BY <1>4 DEF Arbitrate
  <2> HIDE DEF t
  <2> QED BY <1>1, <2>1, <2>3, <2>5, <2>6, ReadStep
<1>5. CASE ResolveConflict(s) \/ ResolvePending(s)
  <2>1. /\ tick[s].current # None /\ UNCHANGED <<vars, ops, crashes>>
        /\ Done(s, <<"resolve", tick[s].current>>) \/ AbortGroup(s)
    BY <1>5 DEF ResolveConflict, ResolvePending
  <2>2. tick[s].phase = "dispute"
    BY <1>1, <2>1 DEF WellCollected
  <2>3. \E t \in TickRecords : WellCollected(t) /\ tick' = [tick EXCEPT ![s] = t]
    BY <2>1, <2>2, DoneKeeps
  <2> QED BY <1>1, <2>1, <2>3, ReadStep
<1> QED BY <1>2, <1>3, <1>4, <1>5

\* The write transaction of resolve_due_disputes.
LEMMA ResolveStep ==
  ASSUME SchedInv, NEW s \in Schedulers, ResolveWrite(s)
  PROVE  SchedInv' /\ [Next]_vars
<1> DEFINE j == tick[s].current
           x == <<"resolve", j>>
<1>1. /\ TypeOK /\ MoneyFollowsVerdict
      /\ tick[s] \in TickRecords /\ WellCollected(tick[s])
  BY DEF SchedInv, IInv
<1>2. j # None /\ Done(s, x) /\ ops' = ops \cup {x} /\ UNCHANGED crashes
  BY DEF ResolveWrite
<1>3. tick[s].phase = "dispute" /\ tick[s].verdict # "none" /\ Disputed(j) /\ j \in Jobs
  BY <1>1, <1>2 DEF WellCollected, TickRecords
<1>4. \E t \in TickRecords : WellCollected(t) /\ tick' = [tick EXCEPT ![s] = t]
  BY <1>2, <1>3, DoneKeeps
<1>5. x \in OperationIds /\ x[1] = "resolve" /\ x[2] = j
  BY <1>3 DEF OperationIds
<1>6. [Next]_vars /\ dispute'[j].status = "RESOLVED"
  <2>1. CASE dispute[j].status # "OPEN" \/ state[j] # "DISPUTED"
    <3>1. UNCHANGED vars
      BY <2>1 DEF ResolveWrite
    <3>2. dispute[j] \in [status : {"NONE", "OPEN", "RESOLVED"}, due : Nat]
      BY <1>1, <1>3 DEF TypeOK
    <3>3. dispute[j].status # "OPEN"
      BY <1>1, <1>3, <2>1 DEF MoneyFollowsVerdict
    <3>4. dispute[j].status = "RESOLVED"
      BY <1>3, <3>2, <3>3 DEF Disputed
    <3> QED BY <3>1, <3>4 DEF vars, stageVars
  <2>2. CASE dispute[j].status = "OPEN" /\ state[j] = "DISPUTED"
    <3>1. tick[s].verdict \in {"not-upheld", "upheld", "unresponsive"}
      BY <1>1, <1>3 DEF TickRecords, Verdict
    <3>2. ResolveApprove(j) \/ ResolveReject(j) \/ ResolveUnresponsive(j)
      BY <2>2, <3>1 DEF ResolveWrite
    <3>3. ResolveDispute(j)
      BY <3>2 DEF ResolveApprove, ResolveReject, ResolveUnresponsive
    <3>4. dispute'[j].status = "RESOLVED"
      BY <1>1, <1>3, <3>3 DEF ResolveDispute, TypeOK
    <3> QED BY <1>3, <3>2, <3>4 DEF Next, TickStep
  <2> QED BY <2>1, <2>2
<1> HIDE DEF x, j
<1>7. x[1] = "resolve" /\ dispute'[x[2]].status = "RESOLVED"
  BY <1>5, <1>6
<1> QED BY <1>2, <1>4, <1>5, <1>6, <1>7, WriteStep

\* The end of a tick.
LEMMA ReservationSteps ==
  ASSUME SchedInv, NEW s \in Schedulers, CollectRefundable(s) \/ ReserveOrFinish(s)
  PROVE  SchedInv' /\ [Next]_vars
<1>1. tick[s] \in TickRecords /\ WellCollected(tick[s]) /\ crashes \in 0..MaxCrashes
  BY DEF SchedInv
<1>2. CASE CollectRefundable(s)
  <2> DEFINE due == {<<"reserve", r>> : r \in {i \in Roots :
                       state[i] \in Failed /\ bal[Available(i)] > 0}}
  <2>1. Goto(s, "reserve", due) /\ UNCHANGED <<vars, ops, crashes>>
    BY <1>2 DEF CollectRefundable
  <2>2. WellListed("reserve", due)
    BY DEF WellListed
  <2>3. due \in SUBSET Targets /\ "reserve" \in Phase
    BY DEF Targets, Phase
  <2> HIDE DEF due
  <2>4. \E t \in TickRecords : WellCollected(t) /\ tick' = [tick EXCEPT ![s] = t]
    BY <2>1, <2>2, <2>3, GotoKeeps
  <2> QED BY <1>1, <2>1, <2>4, ReadStep
<1>3. CASE ReserveOrFinish(s)
  <2>1. tick[s].phase = "reserve" /\ UNCHANGED <<ops, crashes>>
    BY <1>3 DEF ReserveOrFinish
  <2>2. CASE tick[s].todo = {}
    <3>1. Goto(s, "idle", {}) /\ UNCHANGED vars
      BY <1>3, <2>2 DEF ReserveOrFinish
    <3>2. WellListed("idle", {}) /\ "idle" \in Phase
      BY DEF WellListed, Phase
    <3> QED BY <1>1, <2>1, <3>1, <3>2, GotoKeeps, ReadStep
  <2>3. CASE tick[s].todo # {}
    <3>1. PICK x \in tick[s].todo :
            /\ Done(s, x)
            /\ IF state[x[2]] \in Failed THEN ReserveRefundable(x[2]) ELSE UNCHANGED vars
      BY <1>3, <2>3 DEF ReserveOrFinish
    <3>2. x[2] \in Roots
      BY <1>1, <2>1 DEF WellCollected
    <3>3. \E t \in TickRecords : WellCollected(t) /\ tick' = [tick EXCEPT ![s] = t]
      BY <2>1, <3>1, DoneKeeps
    <3>4. [Next]_vars
      BY <3>1, <3>2 DEF Next, TickStep
    <3>5. RecordsHold(ops)' /\ ops' \subseteq OperationIds
      BY <2>1, <3>4, RecordsStay DEF RecordsHold, SchedInv
    <3> QED BY <1>1, <2>1, <3>3, <3>4, <3>5, TickMoves
  <2> QED BY <2>2, <2>3
<1> QED BY <1>2, <1>3

LEMMA StopStep ==
  ASSUME SchedInv, NEW s \in Schedulers, TickStops(s)
  PROVE  SchedInv' /\ [Next]_vars
<1>1. crashes' \in 0..MaxCrashes
  BY SchedulerAssumption DEF TickStops, SchedInv
<1>2. WellListed("idle", {}) /\ "idle" \in Phase
  BY DEF WellListed, Phase
<1> QED BY <1>1, <1>2, GotoKeeps, ReadStep DEF TickStops

\* Users, payments and time.
LEMMA OtherSteps ==
  ASSUME SchedInv,
         \/ (Others \/ AdvanceTime) /\ UNCHANGED schedVars
         \/ \E p \in Participants, j \in Jobs : LateDispute(p, j)
         \/ UNCHANGED allVars
  PROVE  SchedInv' /\ [Next]_vars
<1>1. [Next]_vars /\ UNCHANGED <<tick, crashes>>
  BY DEF Others, Review, LateDispute, Next, ReviewStep, schedVars, allVars
<1>2. IInv'
  BY <1>1, NextKeepsIInv DEF SchedInv
<1>3. \A s \in Schedulers : WellCollected(tick[s])'
  <2> TAKE s \in Schedulers
  <2>1. PICK t \in TickRecords : t = tick[s] /\ WellCollected(t)
    BY DEF SchedInv
  <2>2. WellCollected(t)'
    BY <1>1, <2>1, CollectionStays DEF SchedInv
  <2> QED BY <1>1, <2>1, <2>2 DEF WellCollected
<1>4. RecordsHold(ops)' /\ ops' \subseteq OperationIds
  <2>1. CASE UNCHANGED ops
    BY <1>1, <2>1, RecordsStay DEF RecordsHold, SchedInv
  <2>2. ASSUME NEW p \in Participants, NEW j \in Jobs, LateDispute(p, j)
        PROVE  RecordsHold(ops)' /\ ops' \subseteq OperationIds
    <3>1. acceptance'[j] = "APPROVED" /\ ops' = ops \cup {<<"auto-approve", j>>}
      BY <2>2 DEF LateDispute, DisputeTooLate, ApproveEffects, SchedInv, IInv, TypeOK
    <3>2. ops' \subseteq OperationIds
      BY <3>1 DEF SchedInv, OperationIds
    <3> QED BY <1>1, <3>1, <3>2, RecordsStay DEF RecordsHold
  <2> QED BY <2>1, <2>2 DEF schedVars, allVars
<1>5. RecordedMeansApplied' /\ \A j \in Jobs : <<"expiry-job", j>> \in ops' => Funded(j)'
  BY <1>4 DEF RecordsHold, RecordedMeansApplied
<1> QED BY <1>1, <1>2, <1>3, <1>4, <1>5 DEF SchedInv

LEMMA SchedNextKeeps == SchedInv /\ [SchedNext]_allVars => SchedInv' /\ [Next]_vars
<1> SUFFICES ASSUME SchedInv, [SchedNext]_allVars PROVE SchedInv' /\ [Next]_vars OBVIOUS
<1>1. ASSUME NEW s \in Schedulers, TickProgress(s) PROVE SchedInv' /\ [Next]_vars
  BY <1>1, PreviewSteps, ExpirySteps, ApprovalSteps, ArbitrationSteps, ResolveStep,
     ReservationSteps DEF TickProgress
<1>2. ASSUME NEW s \in Schedulers, TickStops(s) PROVE SchedInv' /\ [Next]_vars
  BY <1>2, StopStep
<1> QED BY <1>1, <1>2, OtherSteps DEF SchedNext

LEMMA SchedInvariance == SchedSpec => []SchedInv
BY InitSchedInv, SchedNextKeeps, PTL DEF SchedSpec

-----------------------------------------------------------------------------
(***************************************************************************)
(* The theorems.                                                           *)
(***************************************************************************)

\* Any number of schedulers with stale previews, aborted groups and ticks that
\* stop half-way implement the core: service.py checks all again when it writes.
THEOREM SchedulerImplementsCore == SchedSpec => CoreSpec
<1>1. SchedInit => Init
  BY DEF SchedInit
<1>2. SchedInv /\ [SchedNext]_allVars => [Next]_vars
  BY SchedNextKeeps
<1> QED BY <1>1, <1>2, SchedInvariance, PTL DEF SchedSpec, CoreSpec, Spec

\* The lists, snapshots and verdicts of ticks are of their types.
THEOREM SchedTypeCorrect == SchedSpec => []SchedTypeOK
<1>1. SchedInv => SchedTypeOK
  BY DEF SchedInv, SchedTypeOK, TickRecords, Targets
<1> QED BY <1>1, SchedInvariance, PTL

\* No operation id is used up for a job that still waits for its effect, the
\* expiry of a lease excepted.
THEOREM RecordsAreApplied == SchedSpec => []RecordedMeansApplied
BY SchedInvariance, PTL DEF SchedInv

\* What is proved of the core holds of the system with its schedulers, for
\* instance that what was decided of a job is final.
THEOREM SchedulerDecisionsAreFinal == SchedSpec => DecisionIsFinal
BY SchedulerImplementsCore, DecisionsAreFinal, PTL DEF CoreSpec

-----------------------------------------------------------------------------
(***************************************************************************)
(* On the test clock an expiry is never recorded as skipped for a job that *)
(* stays LEASED: the time of the preview is part of its snapshot, and what *)
(* had lapsed in the snapshot has lapsed for good, since a worker may only *)
(* extend a lease that is still active.                                    *)
(***************************************************************************)

\* Three things that stay true of a job: it was claimed; if it is still LEASED
\* its time is over; it is LEASED no more.
Claimed(j) == state[j] \notin {"NONE", "DRAFT", "OPEN"}
Lapsed(j) == /\ Claimed(j)
             /\ state[j] = "LEASED" => lease[j].expires <= now \/ deadline[j] <= now
Ended(j) == Claimed(j) /\ state[j] # "LEASED"

\* A job that is not submitted has no submission row.
Unsubmitted(j) == state[j] \in {"NONE", "DRAFT", "OPEN", "LEASED"} => reviewDue[j] = 0

\* What a snapshot saw as expired has lapsed, and so has every lease to expire.
SawExpired(old, j) == old.expires[j] <= old.now \/ deadline[j] <= old.now

ListsLapsed(t) ==
  /\ t.phase = "snapshot" =>
       \A j \in Jobs : t.snapshot.state[j] = "LEASED" =>
         Claimed(j) /\ (SawExpired(t.snapshot, j) => Lapsed(j))
  /\ t.phase = "expire" =>
       \A x \in t.todo : x[1] = "expiry-lease" => Lapsed(x[2])

LeaseRecordsHold == \A j \in Jobs : <<"expiry-lease", j>> \in ops => Ended(j)

ExpiryInv ==
  /\ \A j \in Jobs : Unsubmitted(j)
  /\ \A s \in Schedulers : ListsLapsed(tick[s])
  /\ LeaseRecordsHold

LEMMA InitExpiryInv == SchedInit => ExpiryInv
BY DEF SchedInit, Init, ExpiryInv, Unsubmitted, ListsLapsed, LeaseRecordsHold, Idle

\* A time-out is not undone: RequireActiveLease refuses the heartbeat of a lease
\* that has expired or whose job is past its deadline.
LEMMA LapseStays ==
  ASSUME IInv, [Next]_vars, NEW i \in Jobs, Unsubmitted(i)
  PROVE  /\ Claimed(i) => Claimed(i)'
         /\ Lapsed(i) => Lapsed(i)'
         /\ Ended(i) => Ended(i)'
         /\ Unsubmitted(i)'
<1>1. TypeOK
  BY DEF IInv
<1> DEFINE Kept == /\ Claimed(i) => Claimed(i)'
                   /\ Lapsed(i) => Lapsed(i)'
                   /\ Ended(i) => Ended(i)'
                   /\ Unsubmitted(i)'
<1>2. ASSUME UNCHANGED <<now, lease, deadline, reviewDue>>,
             \/ state'[i] = state[i]
             \/ state[i] \notin {"NONE", "DRAFT", "OPEN"} /\ state'[i] \in Terminal
             \/ state[i] = "DRAFT" /\ state'[i] = "OPEN"
      PROVE  Kept
  BY <1>2 DEF Claimed, Lapsed, Ended, Unsubmitted, Terminal
<1>3. ASSUME NEW r \in Roots, NEW p \in Requesters, NEW b \in RootBudgets,
             NEW d \in RootDeadlines, CreateRoot(p, r, b, d)
      PROVE  Kept
  BY <1>1, <1>3 DEF CreateRoot, stageVars, TypeOK, Claimed, Lapsed, Ended, Unsubmitted, Jobs
<1>4. ASSUME NEW r \in Roots, NEW p \in Participants, FundRoot(p, r)
      PROVE  Kept
  BY <1>1, <1>2, <1>4 DEF FundRoot, stageVars, TypeOK, Jobs
<1>5. ASSUME NEW p \in Participants, NEW r \in Roots, NEW c \in Children, NEW t \in Tasks,
             NEW b \in ChildBudgets, NEW d \in ChildDeadlines, CreateChild(p, r, c, t, b, d)
      PROVE  Kept
  BY <1>1, <1>5 DEF CreateChild, stageVars, TypeOK, Claimed, Lapsed, Ended, Unsubmitted, Jobs
<1>6. ASSUME NEW j \in Jobs, FailJob(j, "EXPIRED", "EXPIRED") \/ FailJob(j, "ABANDONED", "FAILED")
      PROVE  Kept
  <2>1. /\ state' = [state EXCEPT ![j] = "EXPIRED"] \/ state' = [state EXCEPT ![j] = "FAILED"]
        /\ UNCHANGED <<now, deadline, reviewDue>>
        /\ i # j => lease'[i] = lease[i]
    BY <1>1, <1>6 DEF FailJob, TypeOK
  <2> QED BY <1>1, <2>1 DEF TypeOK, Claimed, Lapsed, Ended, Unsubmitted
<1>7. ASSUME NEW p \in Participants, NEW j \in Jobs, Claim(p, j)
      PROVE  Kept
  <2>1. /\ state[j] = "OPEN" /\ state' = [state EXCEPT ![j] = "LEASED"]
        /\ UNCHANGED <<now, deadline, reviewDue>>
        /\ i # j => lease'[i] = lease[i]
    BY <1>1, <1>7 DEF Claim, TypeOK
  <2> QED BY <1>1, <2>1 DEF TypeOK, Claimed, Lapsed, Ended, Unsubmitted
<1>8. ASSUME NEW p \in Participants, NEW j \in Jobs, Heartbeat(p, j)
      PROVE  Kept
  <2>1. /\ now < lease[j].expires /\ now < deadline[j]
        /\ UNCHANGED <<now, state, deadline, reviewDue>>
        /\ i # j => lease'[i] = lease[i]
        /\ HasActiveLease(j)
    BY <1>1, <1>8 DEF Heartbeat, RequireActiveLease, jobVars, TypeOK
  <2>2. state[j] = "LEASED"
    BY <2>1 DEF IInv, LeaseMatchesState
  <2>3. ~ Lapsed(j)
    BY <1>1, <2>1, <2>2 DEF Lapsed, TypeOK
  <2> QED BY <2>1, <2>3 DEF Claimed, Lapsed, Ended, Unsubmitted
<1>9. ASSUME NEW p \in Participants, NEW j \in Jobs, Submit(p, j)
      PROVE  Kept
  <2>1. /\ state[j] = "LEASED" /\ state' = [state EXCEPT ![j] = "SUBMITTED"]
        /\ UNCHANGED <<now, deadline>>
        /\ i # j => lease'[i] = lease[i] /\ reviewDue'[i] = reviewDue[i]
    BY <1>1, <1>9 DEF Submit, TypeOK
  <2> QED BY <1>1, <2>1 DEF TypeOK, Claimed, Lapsed, Ended, Unsubmitted
<1>10. ASSUME NEW p \in Participants, NEW j \in Jobs, Abandon(p, j)
       PROVE  Kept
  BY <1>6, <1>10 DEF Abandon
<1>11. ASSUME NEW j \in Jobs, state[j] \in {"SUBMITTED", "DISPUTED"}, ApproveEffects(j)
       PROVE  Kept
  BY <1>1, <1>2, <1>11 DEF ApproveEffects, TypeOK, Terminal
<1>12. ASSUME NEW p \in Participants, NEW j \in Jobs,
              Approve(p, j) \/ Dispute(p, j) \/ DisputeTooLate(p, j)
       PROVE  Kept
  <2>1. CASE Dispute(p, j)
    BY <1>1, <2>1 DEF Dispute, TypeOK, Claimed, Lapsed, Ended, Unsubmitted
  <2>2. CASE Approve(p, j) \/ DisputeTooLate(p, j)
    BY <1>11, <2>2 DEF Approve, DisputeTooLate
  <2> QED BY <1>12, <2>1, <2>2
<1>13. ASSUME TickStep PROVE Kept
  <2>1. ASSUME NEW j \in Jobs, Expire(j) PROVE Kept
    BY <1>6, <2>1 DEF Expire
  <2>2. ASSUME NEW j \in Jobs, AutoApprove(j) \/ ResolveApprove(j) \/ ResolveUnresponsive(j)
        PROVE  Kept
    BY <1>11, <2>2 DEF AutoApprove, ResolveApprove, ResolveUnresponsive
  <2>3. ASSUME NEW j \in Jobs, ResolveReject(j) PROVE Kept
    BY <1>1, <1>2, <2>3 DEF ResolveReject, TypeOK, Terminal
  <2>4. ASSUME NEW r \in Roots, ReserveRefundable(r) PROVE Kept
    BY <1>2, <2>4 DEF ReserveRefundable, jobVars, stageVars
  <2> QED BY <1>13, <2>1, <2>2, <2>3, <2>4 DEF TickStep
<1>14. ASSUME PaymentStep \/ UNCHANGED vars PROVE Kept
  BY <1>2, <1>14 DEF PaymentStep, TransferPayment, MarkSucceeded, PaymentFails,
                     vars, jobVars, stageVars
<1>15. ASSUME AdvanceTime PROVE Kept
  <2>1. now' >= now /\ UNCHANGED <<state, lease, deadline, reviewDue>>
    BY <1>1, <1>15 DEF AdvanceTime, jobVars, stageVars, TypeOK
  <2>2. /\ now \in Nat /\ now' \in Nat
        /\ lease[i].expires \in Nat /\ deadline[i] \in Nat
    BY <1>1, <1>15 DEF AdvanceTime, TypeOK
  <2> QED BY <2>1, <2>2 DEF Claimed, Lapsed, Ended, Unsubmitted
<1> HIDE DEF Kept
<1>16. Kept
  BY <1>3, <1>4, <1>5, <1>7, <1>8, <1>9, <1>10, <1>12, <1>13, <1>14, <1>15
     DEF Next, PublishStep, WorkStep, ReviewStep
<1> QED BY <1>16 DEF Kept

\* What a tick has read of leases stays true whatever is done to the jobs.
LEMMA ListsStay ==
  ASSUME IInv, [Next]_vars, \A j \in Jobs : Unsubmitted(j),
         NEW t \in TickRecords, ListsLapsed(t)
  PROVE  ListsLapsed(t)'
<1>1. \A j \in Jobs : /\ Claimed(j) => Claimed(j)' /\ deadline'[j] = deadline[j]
                      /\ Lapsed(j) => Lapsed(j)'
  BY LapseStays, RowStays DEF Claimed, Funded
<1>2. \A x \in t.todo : x[2] \in Jobs
  BY TargetJobs DEF TickRecords
<1>3. \A j \in Jobs : Claimed(j) => (SawExpired(t.snapshot, j)' <=> SawExpired(t.snapshot, j))
  BY <1>1 DEF SawExpired
<1> QED BY <1>1, <1>2, <1>3 DEF ListsLapsed

\* A step in which a tick goes on to a list of lapsed leases, or to none, and no
\* expiry of a lease is recorded for a job that stays LEASED.
LEMMA ExpiryInvKept ==
  ASSUME SchedInv, ExpiryInv, [Next]_vars,
         \A z \in Schedulers : tick'[z] = tick[z] \/ ListsLapsed(tick[z])',
         \A j \in Jobs : <<"expiry-lease", j>> \in ops' =>
                           <<"expiry-lease", j>> \in ops \/ Ended(j)'
  PROVE  ExpiryInv'
<1>1. IInv /\ \A j \in Jobs : Unsubmitted(j)
  BY DEF SchedInv, ExpiryInv
<1>2. \A j \in Jobs : Unsubmitted(j)' /\ (Ended(j) => Ended(j)')
  BY <1>1, LapseStays
<1>3. ASSUME NEW z \in Schedulers PROVE ListsLapsed(tick[z])'
  <2>1. CASE tick'[z] = tick[z]
    <3>1. PICK t \in TickRecords : t = tick[z]
      BY DEF SchedInv
    <3>2. ListsLapsed(t)'
      BY <1>1, <3>1, ListsStay DEF ExpiryInv
    <3> QED BY <2>1, <3>1, <3>2 DEF ListsLapsed
  <2> QED BY <2>1
<1>4. LeaseRecordsHold'
  BY <1>2 DEF LeaseRecordsHold, ExpiryInv
<1> QED BY <1>2, <1>3, <1>4 DEF ExpiryInv

\* A step of one scheduler.
LEMMA OneTick ==
  ASSUME SchedInv, NEW s \in Schedulers, NEW phase, NEW todo, Goto(s, phase, todo),
         phase # "snapshot",
         phase = "expire" => \A x \in todo : x[1] = "expiry-lease" => Lapsed(x[2])'
  PROVE  \A z \in Schedulers : tick'[z] = tick[z] \/ ListsLapsed(tick[z])'
<1>1. tick'[s].phase = phase /\ tick'[s].todo = todo
  BY DEF Goto, Idle, SchedInv
<1>2. ListsLapsed(tick[s])'
  BY <1>1 DEF ListsLapsed
<1> QED BY <1>2 DEF Goto, SchedInv

\* The preview: on the test clock its time is the time of its snapshot.
LEMMA PreviewLapses ==
  ASSUME SchedInv, ExpiryInv, ClockMode = "test", NEW s \in Schedulers,
         TakeSnapshot(s) \/ CollectExpiries(s)
  PROVE  ExpiryInv'
<1>1. TypeOK /\ tick \in [Schedulers -> TickRecords] /\ ListsLapsed(tick[s])
  BY DEF SchedInv, IInv, ExpiryInv
<1>2. UNCHANGED <<vars, ops>>
  BY DEF TakeSnapshot, CollectExpiries
<1>3. \A j \in Jobs : (Lapsed(j)' <=> Lapsed(j)) /\ (Claimed(j)' <=> Claimed(j))
  BY <1>2 DEF Lapsed, Claimed, vars, jobVars, stageVars
<1>4. CASE TakeSnapshot(s)
  <2>1. /\ \A z \in Schedulers \ {s} : tick'[z] = tick[z]
        /\ tick'[s].phase = "snapshot"
        /\ tick'[s].snapshot = [state |-> state,
                                expires |-> [j \in Jobs |-> lease[j].expires],
                                now |-> now]
    BY <1>1, <1>4 DEF TakeSnapshot, TickRecords
  <2>2. ASSUME NEW j \in Jobs, state[j] = "LEASED"
        PROVE  Claimed(j)' /\ (SawExpired(tick[s].snapshot, j)' => Lapsed(j)')
    BY <1>2, <1>3, <2>1, <2>2 DEF SawExpired, Lapsed, Claimed, vars, jobVars
  <2>3. ListsLapsed(tick[s])'
    BY <2>1, <2>2 DEF ListsLapsed
  <2> QED BY <1>2, <2>1, <2>3, ExpiryInvKept
<1>5. CASE CollectExpiries(s)
  <2>1. tick[s].phase = "snapshot" /\ Goto(s, "expire", ExpiryTargets(s))
    BY <1>5 DEF CollectExpiries
  <2>2. PreviewNow(s) = tick[s].snapshot.now
    BY DEF PreviewNow
  <2>3. \A x \in ExpiryTargets(s) : x[1] = "expiry-lease" =>
          /\ x[2] \in Jobs
          /\ tick[s].snapshot.state[x[2]] = "LEASED"
          /\ SawExpired(tick[s].snapshot, x[2])
    BY <2>2 DEF ExpiryTargets, SawExpired
  <2>4. \A x \in ExpiryTargets(s) : x[1] = "expiry-lease" => Lapsed(x[2])'
    BY <1>1, <1>3, <2>1, <2>3 DEF ListsLapsed
  <2>5. \A z \in Schedulers : tick'[z] = tick[z] \/ ListsLapsed(tick[z])'
    BY <2>1, <2>4, OneTick
  <2> QED BY <1>2, <2>5, ExpiryInvKept
<1> QED BY <1>4, <1>5

\* The write transaction: what has lapsed is expired, unless it has ended.
LEMMA ExpiryEndsLease ==
  ASSUME SchedInv, ExpiryInv, [Next]_vars, NEW s \in Schedulers, NEW x \in tick[s].todo,
         ReplayExpiry(s, x) \/ ApplyExpiry(s, x) \/ AbortExpiry(s, x)
  PROVE  ExpiryInv'
<1>1. /\ TypeOK /\ LeaseMatchesState /\ tick[s] \in TickRecords
      /\ ListsLapsed(tick[s]) /\ WellCollected(tick[s])
      /\ \A j \in Jobs : Unsubmitted(j)
  BY DEF SchedInv, IInv, ExpiryInv
<1>2. tick[s].phase = "expire" /\ (Done(s, x) \/ AbortGroup(s))
  BY DEF ReplayExpiry, ApplyExpiry, AbortExpiry
<1>3. x \in {"expiry-job", "expiry-lease"} \X Jobs /\ (x[1] = "expiry-lease" => Lapsed(x[2]))
  BY <1>1, <1>2 DEF WellCollected, ListsLapsed
<1>4. \A y \in tick[s].todo : y[2] \in Jobs /\ (y[1] = "expiry-lease" => Lapsed(y[2])')
  <2>1. \A y \in tick[s].todo : y[2] \in Jobs
    BY <1>1, TargetJobs DEF TickRecords
  <2>2. \A j \in Jobs : Lapsed(j) => Lapsed(j)'
    BY <1>1, LapseStays DEF SchedInv
  <2> QED BY <1>1, <1>2, <2>1, <2>2 DEF ListsLapsed
<1>5. \A z \in Schedulers : tick'[z] = tick[z] \/ ListsLapsed(tick[z])'
  <2>1. CASE Done(s, x)
    BY <1>2, <1>4, <2>1, OneTick DEF Done
  <2>2. CASE AbortGroup(s)
    BY <1>2, <2>2, OneTick DEF AbortGroup
  <2> QED BY <1>2, <2>1, <2>2
<1>6. CASE ReplayExpiry(s, x) \/ AbortExpiry(s, x)
  <2>1. ops' = ops
    BY <1>6 DEF ReplayExpiry, AbortExpiry
  <2> QED BY <1>5, <2>1, ExpiryInvKept
<1>7. CASE ApplyExpiry(s, x)
  <2>1. ops' = ops \cup {x}
    BY <1>7 DEF ApplyExpiry
  <2>2. ASSUME NEW j \in Jobs, x = <<"expiry-lease", j>> PROVE Ended(j)'
    <3>1. Lapsed(j) /\ x[2] = j
      BY <1>3, <2>2
    <3>2. CASE state[j] = "LEASED"
      <4>1. ExpiryDue(j)
        BY <1>1, <3>1, <3>2 DEF ExpiryDue, Lapsed, LeaseMatchesState, Unsubmitted, TypeOK
      <4>2. state' = [state EXCEPT ![j] = "EXPIRED"]
        BY <1>7, <3>1, <4>1 DEF ApplyExpiry, Expire, FailJob
      <4> QED BY <1>1, <4>2 DEF Ended, Claimed, TypeOK
    <3>3. CASE state[j] # "LEASED"
      BY <1>1, <3>1, <3>3, LapseStays DEF Ended, Lapsed, SchedInv
    <3> QED BY <3>2, <3>3
  <2> QED BY <1>5, <2>1, <2>2, ExpiryInvKept
<1> QED BY <1>6, <1>7

\* Everything else records no expiry and moves no tick to leases.
LEMMA OtherTickSteps ==
  ASSUME SchedInv, ExpiryInv, [Next]_vars, NEW s \in Schedulers,
         \/ CollectSubmissions(s)
         \/ \E x \in tick[s].todo : ApplyAutoApprove(s, x)
         \/ CollectDisputes(s)
         \/ \E x \in tick[s].todo : \/ ReplayResolve(s, x)
                                    \/ \E v \in Verdict \ {"none"} : Arbitrate(s, x, v)
         \/ ResolveConflict(s) \/ ResolvePending(s) \/ ResolveWrite(s)
         \/ CollectRefundable(s) \/ ReserveOrFinish(s) \/ TickStops(s)
  PROVE  ExpiryInv'
<1>1. tick \in [Schedulers -> TickRecords] /\ WellCollected(tick[s])
  BY DEF SchedInv
<1> DEFINE Moved == \A z \in Schedulers : tick'[z] = tick[z] \/ ListsLapsed(tick[z])'
           Recorded == \A j \in Jobs : <<"expiry-lease", j>> \in ops' =>
                                         <<"expiry-lease", j>> \in ops
<1>2. ASSUME NEW phase \in {"idle", "approve", "dispute", "reserve"}, NEW todo,
             Goto(s, phase, todo)
      PROVE  Moved
  BY <1>2, OneTick
<1>3. ASSUME NEW x, Done(s, x) \/ AbortGroup(s),
             tick[s].phase \in {"approve", "dispute", "reserve"}
      PROVE  Moved
  BY <1>2, <1>3 DEF Done, AbortGroup
<1> HIDE DEF Moved
<1>4. CASE CollectSubmissions(s) \/ CollectDisputes(s) \/ CollectRefundable(s) \/ TickStops(s)
  <2>1. Moved /\ Recorded
    BY <1>2, <1>4 DEF CollectSubmissions, CollectDisputes, CollectRefundable, TickStops
  <2> QED BY <2>1, ExpiryInvKept DEF Moved
<1>5. ASSUME NEW x \in tick[s].todo, ApplyAutoApprove(s, x) PROVE ExpiryInv'
  <2>1. tick[s].phase = "approve" /\ Done(s, x) /\ (ops' = ops \/ ops' = ops \cup {x})
    BY <1>5 DEF ApplyAutoApprove
  <2>2. x \in {"auto-approve"} \X Jobs
    BY <1>1, <2>1 DEF WellCollected
  <2>3. Moved /\ Recorded
    BY <1>3, <2>1, <2>2
  <2> QED BY <2>3, ExpiryInvKept DEF Moved
<1>6. ASSUME NEW x \in tick[s].todo, ReplayResolve(s, x) PROVE ExpiryInv'
  <2>1. Moved /\ Recorded
    BY <1>3, <1>6 DEF ReplayResolve
  <2> QED BY <2>1, ExpiryInvKept DEF Moved
<1>7. ASSUME NEW x \in tick[s].todo, NEW v \in Verdict \ {"none"}, Arbitrate(s, x, v)
      PROVE  ExpiryInv'
  <2>1. tick'[s].phase = "dispute" /\ \A z \in Schedulers \ {s} : tick'[z] = tick[z]
    BY <1>1, <1>7 DEF Arbitrate, TickRecords
  <2>2. Moved /\ Recorded
    BY <1>7, <2>1 DEF Moved, ListsLapsed, Arbitrate
  <2> QED BY <2>2, ExpiryInvKept DEF Moved
<1>8. CASE ResolveConflict(s) \/ ResolvePending(s) \/ ResolveWrite(s)
  <2>1. PICK x : x = <<"resolve", tick[s].current>>
    OBVIOUS
  <2>2. /\ tick[s].current # None
        /\ Done(s, x) \/ AbortGroup(s)
        /\ ops' = ops \/ ops' = ops \cup {x}
    BY <1>8, <2>1 DEF ResolveConflict, ResolvePending, ResolveWrite
  <2>3. tick[s].phase = "dispute"
    BY <1>1, <2>2 DEF WellCollected
  <2>4. Moved /\ Recorded
    BY <1>3, <2>1, <2>2, <2>3
  <2> QED BY <2>4, ExpiryInvKept DEF Moved
<1>9. CASE ReserveOrFinish(s)
  <2>1. tick[s].phase = "reserve" /\ ops' = ops
        /\ (Goto(s, "idle", {}) \/ \E x \in tick[s].todo : Done(s, x))
    BY <1>9 DEF ReserveOrFinish
  <2>2. Moved /\ Recorded
    BY <1>2, <1>3, <2>1
  <2> QED BY <2>2, ExpiryInvKept DEF Moved
<1> QED BY <1>4, <1>5, <1>6, <1>7, <1>8, <1>9

LEMMA ExpiryNextKeeps ==
  ASSUME ClockMode = "test", SchedInv, ExpiryInv, [SchedNext]_allVars
  PROVE  ExpiryInv'
<1>1. [Next]_vars
  BY SchedNextKeeps
<1>2. ASSUME NEW s \in Schedulers, TickProgress(s) \/ TickStops(s) PROVE ExpiryInv'
  <2>1. CASE TakeSnapshot(s) \/ CollectExpiries(s)
    BY <2>1, PreviewLapses
  <2>2. ASSUME NEW x \in tick[s].todo,
               ReplayExpiry(s, x) \/ ApplyExpiry(s, x) \/ AbortExpiry(s, x)
        PROVE  ExpiryInv'
    BY <1>1, <2>2, ExpiryEndsLease
  <2> QED BY <1>1, <1>2, <2>1, <2>2, OtherTickSteps DEF TickProgress
<1>3. ASSUME UNCHANGED tick,
             \A j \in Jobs : <<"expiry-lease", j>> \in ops' => <<"expiry-lease", j>> \in ops
      PROVE  ExpiryInv'
  BY <1>1, <1>3, ExpiryInvKept
<1>4. CASE (Others \/ AdvanceTime) /\ UNCHANGED schedVars
  BY <1>3, <1>4 DEF schedVars
<1>5. ASSUME NEW p \in Participants, NEW j \in Jobs, LateDispute(p, j) PROVE ExpiryInv'
  BY <1>3, <1>5 DEF LateDispute
<1>6. CASE UNCHANGED allVars
  BY <1>3, <1>6 DEF allVars, schedVars
<1> QED BY <1>2, <1>4, <1>5, <1>6 DEF SchedNext

\* On the test clock the expiry of a lease is never used up for nothing: what
\* expire_due_leases records under expiry:{lease} has ended the lease.
THEOREM RecordedExpiriesEndLeases ==
  ASSUME ClockMode = "test"
  PROVE  SchedSpec => []RecordedExpiryEndsLease
<1>1. SchedInv /\ ExpiryInv /\ [SchedNext]_allVars => ExpiryInv'
  BY ExpiryNextKeeps
<1>2. ExpiryInv => RecordedExpiryEndsLease
  BY DEF ExpiryInv, LeaseRecordsHold, Ended, RecordedExpiryEndsLease
<1> QED BY <1>1, <1>2, InitExpiryInv, SchedInvariance, PTL DEF SchedSpec

=============================================================================
