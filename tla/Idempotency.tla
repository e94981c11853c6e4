----------------------------- MODULE Idempotency -----------------------------
(***************************************************************************)
(* Commands and their operation ids (ojp/service.py: _run_idempotent, the  *)
(* precheck of approve, _approve_effects and _auto_approve_submission as   *)
(* far as they touch operations and payment_operations).                   *)
(*                                                                         *)
(* Several processes serve calls at once. A call names a command (actor,   *)
(* kind and payload) and an operation id, or leaves the id to the service. *)
(* It may find the database busy, or die before or after its transaction   *)
(* commits; the client does not know which and may send the call again, or *)
(* send another command under an id it has already used.                   *)
(***************************************************************************)
EXTENDS Naturals

CONSTANTS
  Commands,   \* actor, kind and payload of the calls
  Targets,    \* the jobs they decide
  Target,     \* the job of each command
  Reusing,    \* commands with reuse_existing_payment: approve
  Allowed,    \* commands whose actor has the right
  Empty,      \* jobs whose payout is zero
  Kind,       \* kind of each command; the prefix of each id a client makes up
  ClientIds, GeneratedIds, \* ids of calls
  AutoId,     \* auto-approve:<submission> of each job
  PaymentId,  \* <operation id>:payment of each id
  Processes,
  MaxAttempts,  \* DB_BUSY_MAX_ATTEMPTS
  None

AutoIds == {AutoId[t] : t \in Targets}
CallIds == ClientIds \cup GeneratedIds
Ids     == CallIds \cup AutoIds \cup {PaymentId[i] : i \in CallIds \cup AutoIds}

\* A client may make up an id that ends in :payment; uuids and the ids of the
\* auto-approval are out of its reach.
ASSUME IdempotencyAssumption ==
  /\ Target \in [Commands -> Targets]
  /\ Reusing \subseteq Commands
  /\ Allowed \subseteq Commands
  /\ Empty \subseteq Targets
  /\ \A s, t \in Targets : AutoId[s] = AutoId[t] => s = t
  /\ \A i, j \in CallIds \cup AutoIds : PaymentId[i] = PaymentId[j] => i = j
  /\ \A i \in CallIds \cup AutoIds : PaymentId[i] # i
  /\ ClientIds \cap GeneratedIds = {}
  /\ AutoIds \cap CallIds = {}
  /\ \A i \in CallIds \cup AutoIds : PaymentId[i] \notin GeneratedIds \cup AutoIds
  /\ \A t \in Targets : PaymentId[AutoId[t]] \notin CallIds
  /\ None \notin Ids \cup Commands \cup Targets
  /\ {"auto", "payment", None} \cap Commands = {}
  /\ None \notin {"auto", "payment", "APPLIED", "REPLAYED", "DB_BUSY",
                  "INVALID_STATE", "FORBIDDEN", "IDEMPOTENCY_CONFLICT"}
  /\ MaxAttempts \in Nat \ {0}

VARIABLES
  job,         \* leased, open for a decision on submitted work, or decided
  operations,  \* the rows of operations
  payment,     \* the operation id of the payment of each job
  issued,      \* uuids that were handed out
  call,        \* the call each process serves
  answers      \* the acceptances clients were told

vars == <<job, operations, payment, issued, call, answers>>

-----------------------------------------------------------------------------
\* A result, or answer, tells which operation took the decision and which pays.
NoResult == [decision |-> None, payment |-> None]
NoRow    == [command |-> None, key |-> None, result |-> NoResult]
Results  == [decision : Ids \cup {None}, payment : Ids \cup {None}]
Rows     == [command : Commands \cup {None, "auto", "payment"},
             key : Targets \cup {None}, result : Results]
Exists(i) == operations[i] # NoRow

Accepted == {"APPLIED", "REPLAYED"}
Refused  == {"INVALID_STATE", "FORBIDDEN", "IDEMPOTENCY_CONFLICT"}
Idle     == [at |-> "idle", command |-> None, id |-> None, attempt |-> 0,
             verdict |-> None, data |-> NoResult]
Called(c, i) == [Idle EXCEPT !.at = IF c \in Reusing THEN "precheck" ELSE "running",
                             !.command = c, !.id = i]
Reply(p, verdict, data) ==
  call' = [call EXCEPT ![p].at = "answered", ![p].verdict = verdict, ![p].data = data]

Calls ==
  [at : {"idle", "precheck", "running", "answered"}, command : Commands \cup {None},
   id : CallIds \cup {None}, attempt : 0..(MaxAttempts - 1),
   verdict : Accepted \cup Refused \cup {"DB_BUSY", None}, data : Results]
TypeOK ==
  /\ job \in [Targets -> {"leased", "open", "approved", "closed"}]
  /\ operations \in [Ids -> Rows]
  /\ payment \in [Targets -> Ids \cup {None}]
  /\ issued \subseteq GeneratedIds
  /\ call \in [Processes -> Calls]
  /\ answers \subseteq [command : Commands, id : CallIds, data : Results]

Init ==
  /\ job = [t \in Targets |-> "leased"]
  /\ operations = [i \in Ids |-> NoRow]
  /\ payment = [t \in Targets |-> None]
  /\ issued = {}
  /\ call = [p \in Processes |-> Idle]
  /\ answers = {}

-----------------------------------------------------------------------------
\* A client sends an id of its own, one it was told, or none. _validate_operation_id
\* lets an id pass that has the prefix of the command's kind.
Send(p, c, i) ==
  /\ call[p].at = "idle"
  /\ i \in ClientIds \cup issued
  /\ Kind[c] = Kind[i]
  /\ call' = [call EXCEPT ![p] = Called(c, i)]
  /\ UNCHANGED <<job, operations, payment, issued, answers>>

SendWithoutId(p, c, i) ==
  /\ call[p].at = "idle"
  /\ i \in GeneratedIds \ issued
  /\ Kind[c] = Kind[i]
  /\ issued' = issued \cup {i}
  /\ call' = [call EXCEPT ![p] = Called(c, i)]
  /\ UNCHANGED <<job, operations, payment, answers>>

\* The read transaction of approve, which the write transaction does not repeat.
Conflict(c, i) == Exists(i) /\ operations[i].command # c
MayReuse_Fault(t) == job[t] = "open"
MayReuse(t)    == job[t] \in {"open", "approved"}

Precheck(p) ==
  LET c == call[p].command IN
  /\ call[p].at = "precheck"
  /\ IF Conflict(c, call[p].id) THEN Reply(p, "IDEMPOTENCY_CONFLICT", NoResult)
     ELSE IF c \notin Allowed THEN Reply(p, "FORBIDDEN", NoResult)
     ELSE IF ~MayReuse(Target[c]) THEN Reply(p, "INVALID_STATE", NoResult)
     ELSE call' = [call EXCEPT ![p].at = "running"]
  /\ UNCHANGED <<job, operations, payment, issued, answers>>

\* The rows a command inserts, and the result it stores when it is done; the row
\* of the payment keeps no result.
Pays(c)      == c \in Reusing /\ Target[c] \notin Empty
KeyOf(c)     == IF c \in Reusing THEN Target[c] ELSE None
ResultOf(c, i) ==
  [decision |-> i, payment |-> IF Pays(c) THEN PaymentId[i] ELSE None]
PaymentRow   == [command |-> "payment", key |-> None, result |-> NoResult]
Insert_Fault(ops, c, i) ==
  [j \in Ids |->
     IF j = i THEN [command |-> c, key |-> KeyOf(c), result |-> NoResult]
     ELSE IF c \in Reusing /\ j = PaymentId[i] THEN PaymentRow ELSE ops[j]]
Insert(ops, c, i) ==
  [j \in Ids |->
     IF j = i THEN [command |-> c, key |-> KeyOf(c), result |-> ResultOf(c, i)]
     ELSE IF c \in Reusing /\ j = PaymentId[i] THEN PaymentRow ELSE ops[j]]

\* UNIQUE(business_key) and the primary key of the derived row.
Unique(c, i) ==
  c \in Reusing => /\ \A j \in Ids : operations[j].key # Target[c]
                   /\ ~Exists(PaymentId[i])

\* approve wants submitted work; abandon, the other command, a job whose work is
\* not submitted yet.
RequiredState(c) == IF c \in Reusing THEN "open" ELSE "leased"

\* What the effects of the command check; nothing is left when they refuse.
Effective_Fault(c) == c \in Allowed /\ (c \in Reusing => job[Target[c]] = "open")
Effective(c) == c \in Allowed /\ job[Target[c]] = RequiredState(c)

\* _existing_payment_result
ReusedResult_Fault(t) == operations[payment[t]].result
ReusedResult(t) == [operations[payment[t]].result EXCEPT !.payment = payment[t]]

Reuses(c, i) == ~Exists(i) /\ c \in Reusing /\ payment[Target[c]] # None

Reuse(p) ==
  LET c == call[p].command IN
  /\ call[p].at = "running"
  /\ Reuses(c, call[p].id)
  /\ Reply(p, "REPLAYED", ReusedResult(Target[c]))
  /\ UNCHANGED <<job, operations, payment, issued, answers>>

\* The row exists: a replay, or another command. Every row has status SUCCEEDED.
Replay(p) ==
  LET row == operations[call[p].id] IN
  /\ call[p].at = "running"
  /\ Exists(call[p].id)
  /\ IF row.command = call[p].command THEN Reply(p, "REPLAYED", row.result)
     ELSE Reply(p, "IDEMPOTENCY_CONFLICT", NoResult)
  /\ UNCHANGED <<job, operations, payment, issued, answers>>

\* The row, the derived row, the effects and the result commit together.
Apply(p) ==
  LET c == call[p].command
      i == call[p].id
  IN
  /\ call[p].at = "running"
  /\ ~Exists(i) /\ ~Reuses(c, i)
  /\ Unique(c, i) /\ Effective(c)
  /\ operations' = Insert(operations, c, i)
  /\ job' = [job EXCEPT ![Target[c]] = IF c \in Reusing THEN "approved" ELSE "closed"]
  /\ payment' = IF Pays(c) THEN [payment EXCEPT ![Target[c]] = PaymentId[i]] ELSE payment
  /\ Reply(p, "APPLIED", ResultOf(c, i))
  /\ UNCHANGED <<issued, answers>>

Refuse(p) ==
  LET c == call[p].command
      i == call[p].id
  IN
  /\ call[p].at = "running"
  /\ ~Exists(i) /\ ~Reuses(c, i)
  /\ ~(Unique(c, i) /\ Effective(c))
  /\ Reply(p, "INVALID_STATE", NoResult)
  /\ UNCHANGED <<job, operations, payment, issued, answers>>

TriesAgain_Fault(p) == call[p].attempt <= MaxAttempts - 1
TriesAgain(p) == call[p].attempt < MaxAttempts - 1

Busy(p) ==
  /\ call[p].at = "running"
  /\ IF TriesAgain(p)
     THEN call' = [call EXCEPT ![p].attempt = @ + 1]
     ELSE Reply(p, "DB_BUSY", NoResult)
  /\ UNCHANGED <<job, operations, payment, issued, answers>>

Answer(p) ==
  /\ call[p].at = "answered"
  /\ answers' = IF call[p].verdict \in Accepted
                THEN answers \cup {[command |-> call[p].command, id |-> call[p].id,
                                    data |-> call[p].data]}
                ELSE answers
  /\ call' = [call EXCEPT ![p] = Idle]
  /\ UNCHANGED <<job, operations, payment, issued>>

\* The process dies, or its answer is lost: the client learns nothing.
Die(p) ==
  /\ call[p].at # "idle"
  /\ call' = [call EXCEPT ![p] = Idle]
  /\ UNCHANGED <<job, operations, payment, issued, answers>>

Step(p) == Precheck(p) \/ Reuse(p) \/ Replay(p) \/ Apply(p) \/ Refuse(p) \/ Busy(p) \/ Answer(p)

\* The work is submitted, so that the job can be decided.
Submitted(t) ==
  /\ job[t] = "leased"
  /\ job' = [job EXCEPT ![t] = "open"]
  /\ UNCHANGED <<operations, payment, issued, call, answers>>

\* _auto_approve_submission, in a tick's transaction or a late dispute's.
AutoApprove(t) ==
  LET i == AutoId[t]
      pays == t \notin Empty
  IN
  /\ job[t] = "open"
  /\ ~Exists(i)
  /\ job' = [job EXCEPT ![t] = "approved"]
  /\ payment' = IF pays THEN [payment EXCEPT ![t] = PaymentId[i]] ELSE payment
  /\ operations' =
       [operations EXCEPT
          ![i] = [command |-> "auto", key |-> None,
                  result |-> [decision |-> i,
                              payment |-> IF pays THEN PaymentId[i] ELSE None]],
          ![PaymentId[i]] = PaymentRow]
  /\ UNCHANGED <<issued, call, answers>>

Next ==
  \/ \E p \in Processes, c \in Commands, i \in CallIds :
       Send(p, c, i) \/ SendWithoutId(p, c, i)
  \/ \E p \in Processes : Step(p) \/ Die(p)
  \/ \E t \in Targets : Submitted(t) \/ AutoApprove(t)

Spec == Init /\ [][Next]_vars

-----------------------------------------------------------------------------
\* A job is decided once, whoever asks, under whatever id and however often:
\* one operation holds its decision, and its payment is that operation's.
Decisions(t) ==
  {i \in Ids : \/ operations[i].command \in Commands /\ Target[operations[i].command] = t
               \/ operations[i].command = "auto" /\ AutoId[t] = i}
OneDecision ==
  \A t \in Targets : \A i \in Decisions(t) :
    /\ Decisions(t) = {i}
    /\ payment[t] \in {None, PaymentId[i]}

\* A call that is sent again, after a lost answer, a busy database or for no
\* reason, is told what it was told the first time.
AnswersAgree ==
  \A a, b \in answers :
    a.id = b.id /\ a.command = b.command => a.data = b.data

\* Everyone whose approval was accepted, under any id, is told the one payment.
SamePayment ==
  \A a \in answers :
    a.command \in Reusing => a.data.payment = payment[Target[a.command]]

\* Once a command has taken effect under an id, that call is never refused: a
\* client that lost the answer is not told that nothing happened.
TakenNotRefused ==
  [][\A p \in Processes :
       /\ call[p].at \in {"precheck", "running"}
       /\ call'[p].at = "answered" /\ call'[p].verdict \in Refused
       => operations[call[p].id].command # call[p].command]_vars

\* The documents promise that an id is good for one command: another payload or
\* actor under the same id is refused.
OneCommandPerId ==
  \A a, b \in answers :
    a.id = b.id => a.command = b.command
=============================================================================
