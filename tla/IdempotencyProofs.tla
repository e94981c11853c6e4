-------------------------- MODULE IdempotencyProofs --------------------------
(***************************************************************************)
(* What Idempotency promises, proved for any commands, jobs, ids and number *)
(* of processes. The argument: a decision leaves its job neither early nor  *)
(* open, and rows and payments never change once they exist; so the row of  *)
(* a call, or the payment its answer was taken from, is what every later    *)
(* answer to the same call is taken from.                                   *)
(***************************************************************************)
EXTENDS Idempotency, TLAPS

USE DEF AutoIds, CallIds

\* What the row of a client's call says of the job and its payment.
CallRow(i) ==
  LET c == operations[i].command IN
  c \in Commands =>
    /\ i \in CallIds
    /\ c \in Allowed
    /\ operations[i].result = ResultOf(c, i)
    /\ job[Target[c]] \in {"approved", "closed"}
    /\ c \in Reusing => job[Target[c]] = "approved"
    /\ Pays(c) => payment[Target[c]] = PaymentId[i]

\* The same of the row of an auto-approval; only the auto-approval inserts the
\* row of its payment.
AutoRow(t) ==
  /\ operations[AutoId[t]].command = "auto" => job[t] = "approved"
  /\ operations[PaymentId[AutoId[t]]] \in {NoRow, PaymentRow}

\* A payment belongs to an approved job that has something to pay; its row
\* holds no result, and it is named after the operation that decided.
PaymentOf(t) ==
  payment[t] # None =>
    /\ job[t] = "approved"
    /\ t \notin Empty
    /\ payment[t] \in Ids
    /\ operations[payment[t]] = PaymentRow

\* The answer d is what a new call with the same command and id would get.
Told(c, i, d) ==
  \/ operations[i].command = c /\ d = operations[i].result
  \/ /\ operations[i].command # c
     /\ c \in Reusing
     /\ payment[Target[c]] # None
     /\ d = [decision |-> None, payment |-> payment[Target[c]]]

CallOk(p) ==
  call[p].at # "idle" =>
    /\ call[p].command \in Commands /\ call[p].id \in CallIds
    /\ call[p].at = "precheck" => call[p].command \in Reusing
    /\ call[p].at = "answered" => call[p].verdict # None
    /\ call[p].at = "answered" /\ call[p].verdict \in Accepted
         => Told(call[p].command, call[p].id, call[p].data)

IdemInv ==
  /\ TypeOK
  /\ \A i \in Ids : CallRow(i)
  /\ \A t \in Targets : AutoRow(t)
  /\ \A t \in Targets : PaymentOf(t)
  /\ OneDecision
  /\ \A p \in Processes : CallOk(p)
  /\ \A a \in answers : Told(a.command, a.id, a.data)

-----------------------------------------------------------------------------
LEMMA IdsOfCalls ==
  /\ CallIds \subseteq Ids
  /\ \A t \in Targets : AutoId[t] \in Ids /\ PaymentId[AutoId[t]] \in Ids
  /\ \A i \in CallIds : PaymentId[i] \in Ids
BY DEF Ids

LEMMA CallTypes ==
  /\ Idle \in Calls
  /\ \A c \in Commands, i \in CallIds : Called(c, i) \in Calls
<1>1. 0 \in 0..(MaxAttempts - 1)
  BY IdempotencyAssumption
<1>2. NoResult \in Results
  BY DEF NoResult, Results
<1>3. Idle \in Calls
  BY <1>1, <1>2 DEF Idle, Calls
<1>4. ASSUME NEW c \in Commands, NEW i \in CallIds PROVE Called(c, i) \in Calls
  BY <1>1, <1>2 DEF Called, Idle, Calls
<1> QED BY <1>3, <1>4

LEMMA RowTypes ==
  /\ NoResult \in Results /\ NoRow \in Rows /\ PaymentRow \in Rows
  /\ \A c \in Commands, i \in CallIds :
       /\ ResultOf(c, i) \in Results
       /\ [command |-> c, key |-> KeyOf(c), result |-> ResultOf(c, i)] \in Rows
BY IdsOfCalls, IdempotencyAssumption
   DEF NoResult, NoRow, PaymentRow, Results, Rows, ResultOf, KeyOf

\* The initial state.
LEMMA IdemInit == Init => IdemInv
<1> SUFFICES ASSUME Init PROVE IdemInv
  OBVIOUS
<1> USE IdempotencyAssumption, IdsOfCalls, RowTypes
<1>1. TypeOK
  BY CallTypes DEF Init, TypeOK
<1>2. \A i \in Ids : operations[i].command = None
  BY DEF Init, NoRow
<1>3. \A i \in Ids : operations[i].command \notin Commands /\ operations[i].command # "auto"
  BY <1>2
<1>4. \A i \in Ids : CallRow(i)
  BY <1>3 DEF CallRow
<1>5. \A t \in Targets : AutoRow(t) /\ PaymentOf(t)
  BY <1>3 DEF AutoRow, PaymentOf, Init, NoRow
<1>6. OneDecision
  BY <1>3 DEF OneDecision, Decisions
<1>7. \A p \in Processes : CallOk(p)
  BY DEF CallOk, Init, Idle
<1>8. \A a \in answers : Told(a.command, a.id, a.data)
  BY DEF Init
<1> QED BY <1>1, <1>4, <1>5, <1>6, <1>7, <1>8 DEF IdemInv

-----------------------------------------------------------------------------
\* Rows, payments and decisions stay, and a row for a command that reuses
\* payments only comes while its job has none.
Grows ==
  /\ \A i \in Ids : Exists(i) => operations'[i] = operations[i]
  /\ \A t \in Targets : payment[t] # None => payment'[t] = payment[t]
  /\ \A i \in Ids : \A c \in Reusing :
       operations[i].command # c /\ payment[Target[c]] # None => operations'[i].command # c

\* What was told stays what a new call would be told.
LEMMA ToldStays ==
  ASSUME Grows, NEW c \in Commands, NEW i \in Ids, NEW d, Told(c, i, d)
  PROVE  Told(c, i, d)'
<1> USE IdempotencyAssumption
<1>1. ASSUME operations[i].command = c, d = operations[i].result PROVE Told(c, i, d)'
  <2>1. Exists(i)
    BY <1>1 DEF Exists, NoRow
  <2> QED BY <1>1, <2>1 DEF Grows, Told
<1>2. ASSUME operations[i].command # c, c \in Reusing, payment[Target[c]] # None,
             d = [decision |-> None, payment |-> payment[Target[c]]]
      PROVE  Told(c, i, d)'
  <2>1. Target[c] \in Targets
    OBVIOUS
  <2> QED BY <1>2, <2>1 DEF Grows, Told
<1> QED BY <1>1, <1>2 DEF Told

\* The calls of the other processes and the answers keep their promise when the
\* tables grow and one process moves on.
LEMMA OthersStay ==
  ASSUME IdemInv, Grows, NEW Q \in SUBSET Processes, \A q \in Q : call'[q] = call[q],
         answers' = answers
  PROVE  /\ \A q \in Q : CallOk(q)'
         /\ \A a \in answers' : Told(a.command, a.id, a.data)'
<1> USE IdempotencyAssumption, IdsOfCalls
<1>1. ASSUME NEW q \in Q PROVE CallOk(q)'
  <2>1. CallOk(q) /\ call'[q] = call[q]
    BY <1>1 DEF IdemInv
  <2>2. PICK c, i, d : c = call[q].command /\ i = call[q].id /\ d = call[q].data
    OBVIOUS
  <2>3. ASSUME call[q].at # "idle" PROVE c \in Commands /\ i \in CallIds
    BY <2>1, <2>2, <2>3 DEF CallOk
  <2>4. ASSUME call[q].at = "answered", call[q].verdict \in Accepted PROVE Told(c, i, d)'
    <3>1. c \in Commands /\ i \in Ids /\ Told(c, i, d)
      BY <2>1, <2>2, <2>3, <2>4 DEF CallOk
    <3> QED BY <3>1, ToldStays
  <2>5. c = call'[q].command /\ i = call'[q].id /\ d = call'[q].data
    BY <2>1, <2>2
  <2> QED BY <2>1, <2>2, <2>3, <2>4, <2>5 DEF CallOk, Told
<1>2. ASSUME NEW CONSTANT a \in answers PROVE Told(a.command, a.id, a.data)'
  <2>1. PICK c \in Commands, i \in Ids, d \in Results : a = [command |-> c, id |-> i, data |-> d]
    BY DEF IdemInv, TypeOK
  <2>2. Told(c, i, d)
    BY <2>1 DEF IdemInv
  <2> QED BY <2>1, <2>2, ToldStays
<1> QED BY <1>1, <1>2

\* A step that leaves the tables alone.
Tables == <<job, operations, payment>>
LEMMA TablesStay ==
  ASSUME IdemInv, UNCHANGED Tables
  PROVE  /\ Grows
         /\ \A i \in Ids : CallRow(i)'
         /\ \A t \in Targets : AutoRow(t)' /\ PaymentOf(t)'
         /\ OneDecision'
<1>1. Grows
  BY DEF Grows, Tables
<1>2. \A i \in Ids : CallRow(i)'
  BY DEF IdemInv, CallRow, Tables, ResultOf, Pays
<1>3. \A t \in Targets : AutoRow(t)' /\ PaymentOf(t)'
  BY DEF IdemInv, AutoRow, PaymentOf, Tables
<1>4. OneDecision'
  BY DEF IdemInv, OneDecision, Decisions, Tables
<1> QED BY <1>1, <1>2, <1>3, <1>4

\* It is enough to look at the process that moved.
LEMMA OneMoves ==
  ASSUME IdemInv, UNCHANGED Tables, NEW p \in Processes,
         \A q \in Processes \ {p} : call'[q] = call[q], answers' = answers,
         TypeOK', CallOk(p)'
  PROVE  IdemInv'
<1>1. Grows
  BY TablesStay
<1>2. /\ \A q \in Processes \ {p} : CallOk(q)'
      /\ \A a \in answers' : Told(a.command, a.id, a.data)'
  BY <1>1, OthersStay
<1>3. \A q \in Processes : CallOk(q)'
  BY <1>2
<1>4. /\ \A i \in Ids : CallRow(i)'
      /\ \A t \in Targets : AutoRow(t)' /\ PaymentOf(t)'
      /\ OneDecision'
  BY TablesStay
<1> QED BY <1>2, <1>3, <1>4 DEF IdemInv

LEMMA SendStep ==
  ASSUME IdemInv, NEW p \in Processes, NEW c \in Commands, NEW i \in CallIds,
         Send(p, c, i) \/ SendWithoutId(p, c, i)
  PROVE  IdemInv'
<1> USE IdempotencyAssumption, IdsOfCalls, RowTypes
<1>1. /\ UNCHANGED Tables /\ answers' = answers
      /\ call' = [call EXCEPT ![p] = Called(c, i)]
      /\ issued' \subseteq GeneratedIds
  BY DEF Send, SendWithoutId, Tables, IdemInv, TypeOK
<1>2. TypeOK'
  <2>1. Called(c, i) \in Calls
    BY CallTypes
  <2> QED BY <1>1, <2>1 DEF IdemInv, TypeOK, Tables
<1>3. call'[p] = Called(c, i)
  BY <1>1 DEF IdemInv, TypeOK
<1>4. CallOk(p)'
  BY <1>3 DEF CallOk, Called, Idle
<1>5. \A q \in Processes \ {p} : call'[q] = call[q]
  BY <1>1 DEF IdemInv, TypeOK
<1> QED BY <1>1, <1>2, <1>4, <1>5, OneMoves

\* A call that is answered with what it would be told.
LEMMA ReplyStep ==
  ASSUME IdemInv, NEW p \in Processes, call[p].at \in {"precheck", "running"},
         NEW v \in Accepted \cup Refused \cup {"DB_BUSY"}, NEW d \in Results,
         v \in Accepted => Told(call[p].command, call[p].id, d),
         Reply(p, v, d), UNCHANGED <<Tables, issued, answers>>
  PROVE  IdemInv'
<1> USE IdempotencyAssumption
<1>1. call \in [Processes -> Calls] /\ call[p] \in Calls
  BY DEF IdemInv, TypeOK
<1>2. call'[p] = [call[p] EXCEPT !.at = "answered", !.verdict = v, !.data = d]
  BY <1>1 DEF Reply
<1>3. \A q \in Processes \ {p} : call'[q] = call[q]
  BY <1>1 DEF Reply
<1>4. TypeOK'
  <2>1. call'[p] \in Calls
    <3>1. /\ DOMAIN call'[p] = DOMAIN call[p]
          /\ call'[p].at = "answered" /\ call'[p].verdict = v /\ call'[p].data = d
          /\ call'[p].command = call[p].command /\ call'[p].id = call[p].id
          /\ call'[p].attempt = call[p].attempt
      BY <1>1, <1>2 DEF Calls
    <3> QED BY <1>1, <1>2, <3>1 DEF Calls
  <2>2. call' = [call EXCEPT ![p] = call'[p]]
    BY <1>1, <1>2 DEF Reply
  <2>3. call' \in [Processes -> Calls]
    BY <1>1, <2>1, <2>2
  <2> QED BY <2>3 DEF IdemInv, TypeOK, Tables
<1>5. call'[p].at = "answered" /\ call'[p].verdict = v /\ call'[p].data = d
      /\ call'[p].command = call[p].command /\ call'[p].id = call[p].id
  BY <1>1, <1>2 DEF Calls
<1>6. v # None
  BY DEF Accepted, Refused
<1>7. call[p].command \in Commands /\ call[p].id \in CallIds
  BY DEF IdemInv, CallOk
<1>8. PICK c, i : c = call[p].command /\ i = call[p].id
  OBVIOUS
<1>9. v \in Accepted => Told(c, i, d)
  BY <1>8
<1>10. v \in Accepted => Told(c, i, d)'
  BY <1>9, <1>7, <1>8 DEF Told, Tables
<1>11. CallOk(p)'
  BY <1>5, <1>6, <1>7, <1>8, <1>10 DEF CallOk, Told
<1> QED BY <1>3, <1>4, <1>11, OneMoves

\* The steps of a call that change no table.
LEMMA PrecheckStep == ASSUME IdemInv, NEW p \in Processes, Precheck(p) PROVE IdemInv'
<1> USE IdempotencyAssumption, RowTypes
<1>1. UNCHANGED <<Tables, issued, answers>> /\ call[p].at = "precheck"
  BY DEF Precheck, Tables
<1>2. ASSUME NEW v \in Refused, Reply(p, v, NoResult) PROVE IdemInv'
  <2>1. v \notin Accepted
    BY DEF Accepted, Refused
  <2> QED BY <1>1, <1>2, <2>1, ReplyStep
<1>3. ASSUME call' = [call EXCEPT ![p].at = "running"] PROVE IdemInv'
  <2>1. call \in [Processes -> Calls] /\ call[p] \in Calls
    BY DEF IdemInv, TypeOK
  <2>2. call'[p] = [call[p] EXCEPT !.at = "running"]
    BY <2>1, <1>3
  <2>3. call'[p] \in Calls
    BY <2>1, <2>2 DEF Calls
  <2>4. TypeOK'
    <3>1. call' = [call EXCEPT ![p] = call'[p]]
      BY <2>1, <2>2, <1>3
    <3>2. call' \in [Processes -> Calls]
      BY <2>1, <2>3, <3>1
    <3> QED BY <1>1, <3>2 DEF IdemInv, TypeOK, Tables
  <2>5. CallOk(p)
    BY DEF IdemInv
  <2>6. CallOk(p)'
    BY <1>1, <2>1, <2>2, <2>5 DEF CallOk, Calls
  <2>7. \A q \in Processes \ {p} : call'[q] = call[q]
    BY <2>1, <1>3
  <2> QED BY <1>1, <2>4, <2>6, <2>7, OneMoves
<1>4. {"IDEMPOTENCY_CONFLICT", "FORBIDDEN", "INVALID_STATE"} \subseteq Refused
  BY DEF Refused
<1> QED BY <1>2, <1>3, <1>4 DEF Precheck

LEMMA ReuseStep == ASSUME IdemInv, NEW p \in Processes, Reuse(p) PROVE IdemInv'
<1> USE IdempotencyAssumption
<1> DEFINE c == call[p].command
           i == call[p].id
           t == Target[c]
<1>1. c \in Commands /\ i \in CallIds /\ i \in Ids /\ t \in Targets
  BY IdsOfCalls DEF IdemInv, CallOk, Reuse
<1>2. ~Exists(i) /\ c \in Reusing /\ payment[t] # None
  BY DEF Reuse, Reuses
<1>3. payment[t] \in Ids /\ operations[payment[t]] = PaymentRow
  BY <1>1, <1>2 DEF IdemInv, PaymentOf
<1>4. ReusedResult(t) = [decision |-> None, payment |-> payment[t]]
  BY <1>3 DEF ReusedResult, PaymentRow, NoResult
<1>5. ReusedResult(t) \in Results
  BY <1>3, <1>4 DEF Results
<1>6. operations[i].command # c
  BY <1>1, <1>2 DEF Exists, NoRow
<1>7. Told(c, i, ReusedResult(t))
  BY <1>2, <1>4, <1>6 DEF Told
<1>8. "REPLAYED" \in Accepted /\ Reply(p, "REPLAYED", ReusedResult(t))
      /\ UNCHANGED <<Tables, issued, answers>> /\ call[p].at = "running"
  BY DEF Accepted, Reuse, Tables
<1> QED BY <1>5, <1>7, <1>8, ReplyStep

LEMMA ReplayStep == ASSUME IdemInv, NEW p \in Processes, Replay(p) PROVE IdemInv'
<1> USE IdempotencyAssumption, RowTypes
<1>1. UNCHANGED <<Tables, issued, answers>> /\ call[p].at = "running"
  BY DEF Replay, Tables
<1>2. call[p].command \in Commands /\ call[p].id \in Ids
  BY <1>1, IdsOfCalls DEF IdemInv, CallOk
<1>3. ASSUME operations[call[p].id].command = call[p].command,
             Reply(p, "REPLAYED", operations[call[p].id].result)
      PROVE  IdemInv'
  <2>1. operations[call[p].id].result \in Results
    BY <1>2 DEF IdemInv, TypeOK, Rows
  <2>2. Told(call[p].command, call[p].id, operations[call[p].id].result)
    BY <1>3 DEF Told
  <2>3. "REPLAYED" \in Accepted
    BY DEF Accepted
  <2> QED BY <1>1, <1>3, <2>1, <2>2, <2>3, ReplyStep
<1>4. ASSUME Reply(p, "IDEMPOTENCY_CONFLICT", NoResult) PROVE IdemInv'
  <2>1. "IDEMPOTENCY_CONFLICT" \in Refused /\ "IDEMPOTENCY_CONFLICT" \notin Accepted
    BY DEF Accepted, Refused
  <2> QED BY <1>1, <1>4, <2>1, ReplyStep
<1> QED BY <1>3, <1>4 DEF Replay

LEMMA RefuseStep == ASSUME IdemInv, NEW p \in Processes, Refuse(p) PROVE IdemInv'
<1>1. "INVALID_STATE" \in Refused /\ "INVALID_STATE" \notin Accepted
  BY DEF Accepted, Refused
<1>2. UNCHANGED <<Tables, issued, answers>> /\ call[p].at = "running"
      /\ Reply(p, "INVALID_STATE", NoResult)
  BY DEF Refuse, Tables
<1> QED BY <1>1, <1>2, RowTypes, ReplyStep

LEMMA BusyStep == ASSUME IdemInv, NEW p \in Processes, Busy(p) PROVE IdemInv'
<1> USE IdempotencyAssumption
<1>1. UNCHANGED <<Tables, issued, answers>> /\ call[p].at = "running"
  BY DEF Busy, Tables
<1>2. ASSUME Reply(p, "DB_BUSY", NoResult) PROVE IdemInv'
  <2>1. "DB_BUSY" \notin Accepted
    BY DEF Accepted
  <2> QED BY <1>1, <1>2, <2>1, RowTypes, ReplyStep
<1>3. ASSUME TriesAgain(p), call' = [call EXCEPT ![p].attempt = @ + 1] PROVE IdemInv'
  <2>1. call \in [Processes -> Calls] /\ call[p] \in Calls
    BY DEF IdemInv, TypeOK
  <2>2. call'[p] = [call[p] EXCEPT !.attempt = call[p].attempt + 1]
    BY <2>1, <1>3
  <2>3. call[p].attempt + 1 \in 0..(MaxAttempts - 1)
    BY <2>1, <1>3 DEF Calls, TriesAgain
  <2>4. call'[p] \in Calls
    BY <2>1, <2>2, <2>3 DEF Calls
  <2>5. TypeOK'
    <3>1. call' = [call EXCEPT ![p] = call'[p]]
      BY <2>1, <2>2, <1>3
    <3>2. call' \in [Processes -> Calls]
      BY <2>1, <2>4, <3>1
    <3> QED BY <1>1, <3>2 DEF IdemInv, TypeOK, Tables
  <2>6. CallOk(p)
    BY DEF IdemInv
  <2>7. CallOk(p)'
    BY <1>1, <2>1, <2>2, <2>6 DEF CallOk, Calls
  <2>8. \A q \in Processes \ {p} : call'[q] = call[q]
    BY <2>1, <1>3
  <2> QED BY <1>1, <2>5, <2>7, <2>8, OneMoves
<1> QED BY <1>2, <1>3 DEF Busy

LEMMA EndStep == ASSUME IdemInv, NEW p \in Processes, Answer(p) \/ Die(p) PROVE IdemInv'
<1> USE IdempotencyAssumption
<1>1. UNCHANGED <<Tables, issued>> /\ call' = [call EXCEPT ![p] = Idle] /\ call[p].at # "idle"
  BY DEF Answer, Die, Tables
<1>2. call \in [Processes -> Calls] /\ call[p] \in Calls
  BY DEF IdemInv, TypeOK
<1>3. call'[p] = Idle /\ call' \in [Processes -> Calls]
      /\ \A q \in Processes \ {p} : call'[q] = call[q]
  BY <1>1, <1>2, CallTypes
<1>4. CallOk(p)'
  BY <1>3 DEF CallOk, Idle
<1> DEFINE new == [command |-> call[p].command, id |-> call[p].id, data |-> call[p].data]
<1>5. \/ answers' = answers
      \/ /\ call[p].at = "answered" /\ call[p].verdict \in Accepted
         /\ answers' = answers \cup {new}
  BY DEF Answer, Die
<1>6. ASSUME call[p].at = "answered", call[p].verdict \in Accepted
      PROVE  /\ new \in [command : Commands, id : CallIds, data : Results]
             /\ Told(new.command, new.id, new.data)
  BY <1>2, <1>6 DEF IdemInv, CallOk, Calls
<1>7. TypeOK'
  BY <1>1, <1>3, <1>5, <1>6 DEF IdemInv, TypeOK, Tables
<1>8. \A a \in answers' : Told(a.command, a.id, a.data)
  BY <1>5, <1>6 DEF IdemInv
<1>9. \A a \in answers' : Told(a.command, a.id, a.data)'
  BY <1>1, <1>8 DEF Told, Tables
<1>10. /\ \A i \in Ids : CallRow(i)'
       /\ \A t \in Targets : AutoRow(t)' /\ PaymentOf(t)'
       /\ OneDecision'
  BY <1>1, TablesStay
<1>11. \A q \in Processes \ {p} : CallOk(q)'
  BY <1>1, <1>3 DEF IdemInv, CallOk, Told, Tables
<1> QED BY <1>4, <1>7, <1>9, <1>10, <1>11 DEF IdemInv

-----------------------------------------------------------------------------
LEMMA SubmittedStep == ASSUME IdemInv, NEW t \in Targets, Submitted(t) PROVE IdemInv'
<1> USE IdempotencyAssumption
<1>1. /\ job[t] = "leased" /\ job' = [job EXCEPT ![t] = "open"]
      /\ UNCHANGED <<operations, payment, issued, call, answers>>
  BY DEF Submitted
<1>2. job \in [Targets -> {"leased", "open", "approved", "closed"}]
  BY DEF IdemInv, TypeOK
<1>3. TypeOK'
  BY <1>1, <1>2 DEF IdemInv, TypeOK
<1>4. \A s \in Targets : job[s] \in {"approved", "closed"} => job'[s] = job[s]
  BY <1>1, <1>2
<1>5. ASSUME NEW i \in Ids PROVE CallRow(i)'
  <2>1. CallRow(i)
    BY DEF IdemInv
  <2> QED BY <2>1, <1>1, <1>4 DEF CallRow, ResultOf, Pays
<1>6. ASSUME NEW s \in Targets PROVE AutoRow(s)' /\ PaymentOf(s)'
  <2>1. AutoRow(s) /\ PaymentOf(s)
    BY DEF IdemInv
  <2> QED BY <2>1, <1>1, <1>4 DEF AutoRow, PaymentOf
<1>7. OneDecision'
  BY <1>1 DEF IdemInv, OneDecision, Decisions
<1>8. \A p \in Processes : CallOk(p)'
  BY <1>1 DEF IdemInv, CallOk, Told
<1>9. \A a \in answers' : Told(a.command, a.id, a.data)'
  BY <1>1 DEF IdemInv, Told
<1> QED BY <1>3, <1>5, <1>6, <1>7, <1>8, <1>9 DEF IdemInv

\* A job that is leased or open has neither a decision nor a payment.
LEMMA OpenIsUndecided ==
  ASSUME IdemInv, NEW t \in Targets, job[t] \in {"leased", "open"}
  PROVE  /\ payment[t] = None
         /\ Decisions(t) = {}
<1>1. payment[t] = None
  BY DEF IdemInv, PaymentOf
<1>2. ASSUME NEW i \in Decisions(t) PROVE FALSE
  <2>1. i \in Ids
    BY <1>2 DEF Decisions
  <2>2. CASE operations[i].command \in Commands /\ Target[operations[i].command] = t
    BY <2>1, <2>2 DEF IdemInv, CallRow
  <2>3. CASE operations[i].command = "auto" /\ AutoId[t] = i
    BY <2>3 DEF IdemInv, AutoRow
  <2> QED BY <1>2, <2>2, <2>3 DEF Decisions
<1> QED BY <1>1, <1>2

LEMMA ApplyStep == ASSUME IdemInv, NEW p \in Processes, Apply(p) PROVE IdemInv'
<1> USE IdempotencyAssumption
<1>1. PICK c, i, t : c = call[p].command /\ i = call[p].id /\ t = Target[c]
  OBVIOUS
<1>2. c \in Commands /\ i \in CallIds /\ i \in Ids /\ t \in Targets /\ PaymentId[i] \in Ids
  BY <1>1, IdsOfCalls DEF IdemInv, CallOk, Apply
<1>3. /\ ~Exists(i) /\ c \in Allowed /\ job[t] \in {"leased", "open"}
      /\ c \in Reusing => ~Exists(PaymentId[i])
  BY <1>1 DEF Apply, Effective, RequiredState, Unique
<1> DEFINE row == [command |-> c, key |-> KeyOf(c), result |-> ResultOf(c, i)]
<1>4. /\ operations' = Insert(operations, c, i)
      /\ job' = [job EXCEPT ![t] = IF c \in Reusing THEN "approved" ELSE "closed"]
      /\ payment' = IF Pays(c) THEN [payment EXCEPT ![t] = PaymentId[i]] ELSE payment
      /\ Reply(p, "APPLIED", ResultOf(c, i))
      /\ UNCHANGED <<issued, answers>>
  BY <1>1 DEF Apply
<1>5. /\ operations \in [Ids -> Rows] /\ payment \in [Targets -> Ids \cup {None}]
      /\ job \in [Targets -> {"leased", "open", "approved", "closed"}]
      /\ call \in [Processes -> Calls] /\ call[p] \in Calls
  BY DEF IdemInv, TypeOK
<1>6. /\ operations'[i] = row
      /\ c \in Reusing => operations'[PaymentId[i]] = PaymentRow
      /\ \A j \in Ids : j # i /\ ~(c \in Reusing /\ j = PaymentId[i])
                          => operations'[j] = operations[j]
  BY <1>2, <1>4 DEF Insert
<1>7. /\ job'[t] = IF c \in Reusing THEN "approved" ELSE "closed"
      /\ \A s \in Targets \ {t} : job'[s] = job[s]
  BY <1>2, <1>4, <1>5
<1>8. /\ Pays(c) => payment'[t] = PaymentId[i]
      /\ ~Pays(c) => payment'[t] = payment[t]
      /\ \A s \in Targets \ {t} : payment'[s] = payment[s]
  BY <1>2, <1>4, <1>5
<1>9. payment[t] = None /\ Decisions(t) = {}
  BY <1>2, <1>3, OpenIsUndecided
<1>10. \A j \in Ids : Exists(j) => operations'[j] = operations[j]
  BY <1>3, <1>6
<1>11. Grows
  <2>1. ASSUME NEW j \in Ids, NEW d \in Reusing, operations[j].command # d,
               payment[Target[d]] # None
        PROVE  operations'[j].command # d
    <3>1. CASE j = i
      BY <3>1, <1>1, <1>6, <1>9, <2>1
    <3>2. CASE j # i /\ c \in Reusing /\ j = PaymentId[i]
      BY <3>2, <1>6 DEF PaymentRow
    <3>3. CASE j # i /\ ~(c \in Reusing /\ j = PaymentId[i])
      BY <3>3, <1>6, <2>1
    <3> QED BY <3>1, <3>2, <3>3
  <2>2. \A s \in Targets : payment[s] # None => payment'[s] = payment[s]
    BY <1>8, <1>9
  <2> QED BY <1>10, <2>1, <2>2 DEF Grows
<1> HIDE DEF row
<1>12. ASSUME NEW j \in Ids PROVE CallRow(j)'
  <2>1. CASE j = i
    <3>1. operations'[j].command = c /\ operations'[j].result = ResultOf(c, i)
      BY <2>1, <1>6 DEF row
    <3> QED BY <3>1, <2>1, <1>1, <1>2, <1>3, <1>7, <1>8 DEF CallRow, ResultOf, Pays
  <2>2. CASE j # i /\ c \in Reusing /\ j = PaymentId[i]
    BY <2>2, <1>6 DEF CallRow, PaymentRow
  <2>3. CASE j # i /\ ~(c \in Reusing /\ j = PaymentId[i])
    <3>1. operations'[j] = operations[j] /\ CallRow(j)
      BY <2>3, <1>6 DEF IdemInv
    <3>2. ASSUME operations[j].command \in Commands PROVE Target[operations[j].command] # t
      BY <3>1, <3>2, <1>3 DEF CallRow
    <3> QED BY <3>1, <3>2, <1>7, <1>8 DEF CallRow, ResultOf, Pays
  <2> QED BY <2>1, <2>2, <2>3
<1>13. ASSUME NEW s \in Targets PROVE AutoRow(s)'
  <2>1. /\ AutoId[s] # i /\ AutoId[s] # PaymentId[i]
        /\ PaymentId[AutoId[s]] # i /\ PaymentId[AutoId[s]] # PaymentId[i]
    BY <1>2
  <2>2. /\ operations'[AutoId[s]] = operations[AutoId[s]]
        /\ operations'[PaymentId[AutoId[s]]] = operations[PaymentId[AutoId[s]]]
    BY <2>1, <1>6, IdsOfCalls
  <2>3. AutoRow(s)
    BY DEF IdemInv
  <2> QED BY <2>2, <2>3, <1>3, <1>7 DEF AutoRow
<1>14. ASSUME NEW s \in Targets PROVE PaymentOf(s)'
  <2>1. CASE s = t
    BY <2>1, <1>1, <1>2, <1>6, <1>7, <1>8, <1>9 DEF PaymentOf, Pays
  <2>2. CASE s # t
    <3>1. PaymentOf(s) /\ payment'[s] = payment[s] /\ job'[s] = job[s]
      BY <2>2, <1>7, <1>8 DEF IdemInv
    <3>2. ASSUME payment[s] # None PROVE operations'[payment[s]] = PaymentRow
      BY <3>1, <3>2, <1>10 DEF PaymentOf, Exists, PaymentRow, NoRow
    <3> QED BY <3>1, <3>2 DEF PaymentOf
  <2> QED BY <2>1, <2>2
<1>15. OneDecision'
  <2>1. ASSUME NEW s \in Targets \ {t} PROVE Decisions(s)' = Decisions(s)
    <3>1. ASSUME NEW j \in Ids PROVE (j \in Decisions(s)) <=> (j \in Decisions(s)')
      <4>1. CASE j = i
        BY <4>1, <1>1, <1>2, <1>3, <1>6, <2>1 DEF Decisions, row, Exists, NoRow
      <4>2. CASE j # i /\ c \in Reusing /\ j = PaymentId[i]
        BY <4>2, <1>3, <1>6 DEF Decisions, PaymentRow, Exists, NoRow
      <4>3. CASE j # i /\ ~(c \in Reusing /\ j = PaymentId[i])
        BY <4>3, <1>6 DEF Decisions
      <4> QED BY <4>1, <4>2, <4>3
    <3> QED BY <3>1 DEF Decisions
  <2>2. Decisions(t)' = {i}
    <3>1. i \in Decisions(t)'
      BY <1>1, <1>2, <1>6 DEF Decisions, row
    <3>2. ASSUME NEW j \in Ids, j # i PROVE j \notin Decisions(t)'
      <4>1. CASE c \in Reusing /\ j = PaymentId[i]
        BY <4>1, <1>6 DEF Decisions, PaymentRow
      <4>2. CASE ~(c \in Reusing /\ j = PaymentId[i])
        BY <4>2, <3>2, <1>6, <1>9 DEF Decisions
      <4> QED BY <4>1, <4>2
    <3> QED BY <3>1, <3>2 DEF Decisions
  <2>3. payment'[t] \in {None, PaymentId[i]}
    BY <1>8, <1>9
  <2> QED BY <2>1, <2>2, <2>3, <1>8 DEF OneDecision, IdemInv
<1>16. ResultOf(c, i) \in Results /\ row \in Rows
  BY <1>2, RowTypes DEF row
<1>17. call'[p] = [call[p] EXCEPT !.at = "answered", !.verdict = "APPLIED", !.data = ResultOf(c, i)]
  BY <1>4, <1>5 DEF Reply
<1>18. \A q \in Processes \ {p} : call'[q] = call[q]
  BY <1>4, <1>5 DEF Reply
<1>19. TypeOK'
  <2>1. call'[p] \in Calls
    <3>1. "APPLIED" \in Accepted
      BY DEF Accepted
    <3>2. PICK x \in Calls : x = call[p]
      BY <1>5
    <3>3. call'[p] = [x EXCEPT !.at = "answered", !.verdict = "APPLIED", !.data = ResultOf(c, i)]
      BY <1>17, <3>2
    <3> QED BY <1>16, <3>1, <3>2, <3>3 DEF Calls
  <2>2. call' \in [Processes -> Calls]
    <3>1. call' = [call EXCEPT ![p] = call'[p]]
      BY <1>4, <1>5, <1>17 DEF Reply
    <3> QED BY <2>1, <3>1, <1>5
  <2>3. operations' \in [Ids -> Rows]
    BY <1>4, <1>5, <1>16, RowTypes DEF Insert, row
  <2>4. payment' \in [Targets -> Ids \cup {None}]
    BY <1>2, <1>4, <1>5
  <2>5. job' \in [Targets -> {"leased", "open", "approved", "closed"}]
    BY <1>4, <1>5
  <2> QED BY <1>4, <2>2, <2>3, <2>4, <2>5 DEF IdemInv, TypeOK
<1>20. CallOk(p)'
  <2>1. /\ call'[p].command = c /\ call'[p].id = i /\ call'[p].at = "answered"
        /\ call'[p].verdict = "APPLIED" /\ call'[p].data = ResultOf(c, i)
    BY <1>1, <1>5, <1>17 DEF Calls
  <2>2. operations'[i].command = c /\ operations'[i].result = ResultOf(c, i)
    BY <1>6 DEF row
  <2> QED BY <2>1, <2>2, <1>2 DEF CallOk, Told
<1>21. /\ \A q \in Processes \ {p} : CallOk(q)'
       /\ \A a \in answers' : Told(a.command, a.id, a.data)'
  BY <1>4, <1>11, <1>18, OthersStay
<1>22. \A q \in Processes : CallOk(q)'
  BY <1>20, <1>21
<1> QED BY <1>12, <1>13, <1>14, <1>15, <1>19, <1>21, <1>22 DEF IdemInv

LEMMA AutoApproveStep == ASSUME IdemInv, NEW t \in Targets, AutoApprove(t) PROVE IdemInv'
<1> USE IdempotencyAssumption, IdsOfCalls
<1>1. PICK i : i = AutoId[t]
  OBVIOUS
<1>2. PICK k : k = PaymentId[i]
  OBVIOUS
<1>3. i \in Ids /\ i \in AutoIds /\ i \notin CallIds /\ k \in Ids /\ k # i
      /\ k \notin CallIds /\ k \notin AutoIds
  BY <1>1, <1>2
<1>4. PICK row : row = [command |-> "auto", key |-> None,
                        result |-> [decision |-> i,
                                    payment |-> IF t \notin Empty THEN k ELSE None]]
  OBVIOUS
<1>5. /\ job[t] = "open" /\ ~Exists(i)
      /\ job' = [job EXCEPT ![t] = "approved"]
      /\ payment' = IF t \notin Empty THEN [payment EXCEPT ![t] = k] ELSE payment
      /\ operations' = [operations EXCEPT ![i] = row, ![k] = PaymentRow]
      /\ UNCHANGED <<issued, call, answers>>
  BY <1>1, <1>2, <1>4 DEF AutoApprove
<1>6. /\ operations \in [Ids -> Rows] /\ payment \in [Targets -> Ids \cup {None}]
      /\ job \in [Targets -> {"leased", "open", "approved", "closed"}]
  BY DEF IdemInv, TypeOK
<1>7. /\ operations'[i] = row /\ operations'[k] = PaymentRow
      /\ \A j \in Ids : j # i /\ j # k => operations'[j] = operations[j]
  BY <1>3, <1>5, <1>6
<1>8. job'[t] = "approved" /\ \A s \in Targets \ {t} : job'[s] = job[s]
  BY <1>5, <1>6
<1>9. /\ payment'[t] = IF t \notin Empty THEN k ELSE payment[t]
      /\ \A s \in Targets \ {t} : payment'[s] = payment[s]
  BY <1>5, <1>6
<1>10. payment[t] = None /\ Decisions(t) = {}
  BY <1>5, OpenIsUndecided
<1>11. row.command = "auto" /\ row \in Rows
  BY <1>3, <1>4 DEF Rows, Results
<1>12. operations[k] \in {NoRow, PaymentRow}
  BY <1>1, <1>2 DEF IdemInv, AutoRow
<1>13. operations[k].command \notin Commands
  BY <1>12 DEF NoRow, PaymentRow
<1>14. \A j \in Ids : Exists(j) => operations'[j] = operations[j]
  BY <1>5, <1>7, <1>12 DEF Exists
<1>15. Grows
  <2>1. \A j \in Ids, d \in Reusing : operations[j].command # d => operations'[j].command # d
    BY <1>7, <1>11 DEF PaymentRow
  <2>2. \A s \in Targets : payment[s] # None => payment'[s] = payment[s]
    BY <1>9, <1>10
  <2> QED BY <1>14, <2>1, <2>2 DEF Grows
<1>16. ASSUME NEW j \in Ids PROVE CallRow(j)'
  <2>1. CASE j = i
    BY <2>1, <1>7, <1>11 DEF CallRow
  <2>2. CASE j = k
    BY <2>2, <1>7 DEF CallRow, PaymentRow
  <2>3. CASE j # i /\ j # k
    <3>1. operations'[j] = operations[j] /\ CallRow(j)
      BY <2>3, <1>7 DEF IdemInv
    <3>2. ASSUME operations[j].command \in Commands PROVE Target[operations[j].command] # t
      BY <3>1, <3>2, <1>5 DEF CallRow
    <3> QED BY <3>1, <3>2, <1>8, <1>9 DEF CallRow, ResultOf, Pays
  <2> QED BY <2>1, <2>2, <2>3
<1>17. ASSUME NEW s \in Targets PROVE AutoRow(s)'
  <2>1. AutoRow(s) /\ AutoId[s] \in Ids /\ PaymentId[AutoId[s]] \in Ids
    BY DEF IdemInv
  <2>2. CASE s = t
    BY <2>2, <1>1, <1>2, <1>7, <1>8 DEF AutoRow
  <2>3. CASE s # t
    <3>1. AutoId[s] # i /\ AutoId[s] # k /\ PaymentId[AutoId[s]] # i /\ PaymentId[AutoId[s]] # k
      BY <2>3, <1>1, <1>2, <1>3
    <3>2. /\ operations'[AutoId[s]] = operations[AutoId[s]]
          /\ operations'[PaymentId[AutoId[s]]] = operations[PaymentId[AutoId[s]]]
      BY <2>1, <3>1, <1>7
    <3> QED BY <2>1, <2>3, <3>2, <1>8 DEF AutoRow
  <2> QED BY <2>2, <2>3
<1>18. ASSUME NEW s \in Targets PROVE PaymentOf(s)'
  <2>1. CASE s = t
    BY <2>1, <1>3, <1>7, <1>8, <1>9, <1>10 DEF PaymentOf
  <2>2. CASE s # t
    <3>1. PaymentOf(s) /\ payment'[s] = payment[s] /\ job'[s] = job[s]
      BY <2>2, <1>8, <1>9 DEF IdemInv
    <3>2. ASSUME payment[s] # None PROVE operations'[payment[s]] = PaymentRow
      BY <3>1, <3>2, <1>14 DEF PaymentOf, Exists, PaymentRow, NoRow
    <3> QED BY <3>1, <3>2 DEF PaymentOf
  <2> QED BY <2>1, <2>2
<1>19. OneDecision'
  <2>1. ASSUME NEW s \in Targets \ {t} PROVE Decisions(s)' = Decisions(s)
    <3>1. ASSUME NEW j \in Ids PROVE (j \in Decisions(s)) <=> (j \in Decisions(s)')
      <4>1. CASE j = i
        <5>1. operations[j].command = None /\ operations'[j].command = "auto"
          BY <4>1, <1>5, <1>7, <1>11 DEF Exists, NoRow
        <5>2. AutoId[s] # j
          BY <4>1, <2>1, <1>1
        <5> QED BY <5>1, <5>2 DEF Decisions
      <4>2. CASE j = k
        BY <4>2, <1>3, <1>7, <1>13 DEF Decisions, PaymentRow
      <4>3. CASE j # i /\ j # k
        BY <4>3, <1>7 DEF Decisions
      <4> QED BY <4>1, <4>2, <4>3
    <3> QED BY <3>1 DEF Decisions
  <2>2. Decisions(t)' = {i}
    <3>1. i \in Decisions(t)'
      BY <1>1, <1>3, <1>7, <1>11 DEF Decisions
    <3>2. ASSUME NEW j \in Ids, j # i PROVE j \notin Decisions(t)'
      <4>1. CASE j = k
        BY <4>1, <1>7 DEF Decisions, PaymentRow
      <4>2. CASE j # k
        BY <4>2, <3>2, <1>7, <1>10 DEF Decisions
      <4> QED BY <4>1, <4>2
    <3> QED BY <3>1, <3>2 DEF Decisions
  <2>3. payment'[t] \in {None, PaymentId[i]}
    BY <1>2, <1>9, <1>10
  <2> QED BY <2>1, <2>2, <2>3, <1>9 DEF OneDecision, IdemInv
<1>20. TypeOK'
  <2>1. operations' \in [Ids -> Rows]
    BY <1>5, <1>6, <1>11, RowTypes
  <2>2. payment' \in [Targets -> Ids \cup {None}]
    BY <1>3, <1>5, <1>6
  <2>3. job' \in [Targets -> {"leased", "open", "approved", "closed"}]
    BY <1>5, <1>6
  <2> QED BY <1>5, <2>1, <2>2, <2>3 DEF IdemInv, TypeOK
<1>21. /\ \A q \in Processes : CallOk(q)'
       /\ \A a \in answers' : Told(a.command, a.id, a.data)'
  <2>1. \A q \in Processes : call'[q] = call[q]
    BY <1>5
  <2> QED BY <1>5, <1>15, <2>1, OthersStay
<1> QED BY <1>16, <1>17, <1>18, <1>19, <1>20, <1>21 DEF IdemInv

-----------------------------------------------------------------------------
\* The invariant that carries everything below.
THEOREM IdemInvHolds == Spec => []IdemInv
<1>1. Init => IdemInv
  BY IdemInit
<1>2. IdemInv /\ [Next]_vars => IdemInv'
  <2> SUFFICES ASSUME IdemInv, [Next]_vars PROVE IdemInv'
    OBVIOUS
  <2>1. CASE \E p \in Processes, c \in Commands, i \in CallIds :
               Send(p, c, i) \/ SendWithoutId(p, c, i)
    BY <2>1, SendStep
  <2>2. ASSUME NEW p \in Processes, Step(p) \/ Die(p) PROVE IdemInv'
    BY <2>2, PrecheckStep, ReuseStep, ReplayStep, ApplyStep, RefuseStep, BusyStep, EndStep
       DEF Step
  <2>3. ASSUME NEW t \in Targets, Submitted(t) \/ AutoApprove(t) PROVE IdemInv'
    BY <2>3, SubmittedStep, AutoApproveStep
  <2>4. CASE UNCHANGED vars
    <3>1. \A c, i, d : Told(c, i, d)' <=> Told(c, i, d)
      BY <2>4 DEF vars, Told
    <3>2. TypeOK' /\ UNCHANGED Tables /\ call' = call /\ answers' = answers
      BY <2>4 DEF vars, IdemInv, TypeOK, Tables
    <3>3. \A p \in Processes : CallOk(p)'
      BY <2>4 DEF vars, IdemInv, CallOk, Told
    <3>4. \A a \in answers' : Told(a.command, a.id, a.data)'
      BY <2>4 DEF vars, IdemInv, Told
    <3> QED BY <3>2, <3>3, <3>4, TablesStay DEF IdemInv
  <2> QED BY <2>1, <2>2, <2>3, <2>4 DEF Next
<1> QED BY <1>1, <1>2, PTL DEF Spec

\* Every variable keeps its type, the attempts of a call their limit.
THEOREM IdemTypeCorrect == Spec => []TypeOK
BY IdemInvHolds, PTL DEF IdemInv

\* However often, by whomever and under whatever ids a job is approved, it is
\* decided once and its payment is named after that decision.
THEOREM JobsDecidedOnce == Spec => []OneDecision
BY IdemInvHolds, PTL DEF IdemInv

\* A call that is sent again is told what it was told the first time.
THEOREM ResendsAgree == Spec => []AnswersAgree
<1>1. IdemInv => AnswersAgree
  <2> SUFFICES ASSUME IdemInv, NEW a \in answers, NEW b \in answers,
                      a.id = b.id, a.command = b.command
               PROVE  a.data = b.data
    BY DEF AnswersAgree
  <2>1. Told(a.command, a.id, a.data) /\ Told(a.command, a.id, b.data)
    BY DEF IdemInv
  <2> QED BY <2>1 DEF Told
<1> QED BY <1>1, IdemInvHolds, PTL

\* Everyone whose approval is accepted is told the one payment of the job.
THEOREM OnePaymentTold == Spec => []SamePayment
<1> USE IdempotencyAssumption
<1>1. IdemInv => SamePayment
  <2> SUFFICES ASSUME IdemInv, NEW a \in answers, a.command \in Reusing
               PROVE  a.data.payment = payment[Target[a.command]]
    BY DEF SamePayment
  <2>1. Told(a.command, a.id, a.data) /\ a.command \in Commands /\ a.id \in Ids
    BY IdsOfCalls DEF IdemInv, TypeOK
  <2>2. CASE operations[a.id].command = a.command /\ a.data = operations[a.id].result
    <3>1. CallRow(a.id) /\ PaymentOf(Target[a.command])
      BY <2>1 DEF IdemInv
    <3> QED BY <2>1, <2>2, <3>1 DEF CallRow, PaymentOf, ResultOf, Pays
  <2>3. CASE a.data = [decision |-> None, payment |-> payment[Target[a.command]]]
    BY <2>3
  <2> QED BY <2>1, <2>2, <2>3 DEF Told
<1> QED BY <1>1, IdemInvHolds, PTL

\* A call whose command has taken effect under its id is never refused.
THEOREM EffectNeverRefused == Spec => TakenNotRefused
<1> USE IdempotencyAssumption
<1> DEFINE Kept == \A p \in Processes :
             /\ call[p].at \in {"precheck", "running"}
             /\ call'[p].at = "answered" /\ call'[p].verdict \in Refused
             => operations[call[p].id].command # call[p].command
<1>1. IdemInv /\ [Next]_vars => [Kept]_vars
  <2> SUFFICES ASSUME IdemInv, Next, NEW q \in Processes,
                      call[q].at \in {"precheck", "running"},
                      call'[q].at = "answered", call'[q].verdict \in Refused,
                      operations[call[q].id].command = call[q].command
               PROVE  FALSE
    BY DEF vars
  <2>1. call \in [Processes -> Calls]
    BY DEF IdemInv, TypeOK
  <2>2. PICK c, i : c = call[q].command /\ i = call[q].id
    OBVIOUS
  <2>3. c \in Commands /\ i \in CallIds /\ i \in Ids /\ operations[i].command = c
        /\ (call[q].at = "precheck" => c \in Reusing)
    BY <2>2, IdsOfCalls DEF IdemInv, CallOk
  <2>4. Exists(i) /\ c \in Allowed /\ job[Target[c]] \in {"approved", "closed"}
        /\ (c \in Reusing => job[Target[c]] = "approved")
    BY <2>3 DEF IdemInv, CallRow, Exists, NoRow
  <2>5. "APPLIED" \notin Refused /\ "REPLAYED" \notin Refused /\ "DB_BUSY" \notin Refused
    BY DEF Refused
  <2>6. ASSUME NEW v, NEW d, call' = [call EXCEPT ![q].at = "answered", ![q].verdict = v, ![q].data = d]
        PROVE  call'[q].verdict = v
    <3>1. PICK x \in Calls : x = call[q]
      BY <2>1
    <3>2. call'[q] = [x EXCEPT !.at = "answered", !.verdict = v, !.data = d]
      BY <2>1, <2>6, <3>1
    <3> QED BY <3>1, <3>2 DEF Calls
  <2>7. ASSUME Precheck(q) PROVE FALSE
    <3>1. call[q].at = "precheck" /\ c \in Reusing
      BY <2>7, <2>3 DEF Precheck
    <3>2. ~Conflict(c, i) /\ c \in Allowed /\ MayReuse(Target[c])
      BY <2>3, <2>4, <3>1 DEF Conflict, MayReuse
    <3>3. call' = [call EXCEPT ![q].at = "running"]
      BY <2>2, <2>7, <3>2 DEF Precheck
    <3>4. call'[q].at = "running"
      BY <2>1, <3>3 DEF Calls
    <3> QED BY <3>4
  <2>8. ASSUME Reuse(q) \/ Apply(q) \/ Refuse(q) PROVE FALSE
    BY <2>2, <2>4, <2>8 DEF Reuse, Reuses, Apply, Refuse
  <2>9. ASSUME Replay(q) PROVE FALSE
    <3>1. Reply(q, "REPLAYED", operations[i].result)
      BY <2>2, <2>3, <2>9 DEF Replay
    <3> QED BY <3>1, <2>5, <2>6 DEF Reply
  <2>10. ASSUME Busy(q) PROVE FALSE
    <3>1. CASE Reply(q, "DB_BUSY", NoResult)
      BY <3>1, <2>5, <2>6 DEF Reply
    <3>2. CASE call' = [call EXCEPT ![q].attempt = @ + 1]
      <4>1. call'[q].at = call[q].at
        BY <2>1, <3>2 DEF Calls
      <4> QED BY <4>1
    <3> QED BY <2>10, <3>1, <3>2 DEF Busy
  <2>11. ASSUME Answer(q) \/ Die(q) PROVE FALSE
    <3>1. call'[q] = Idle
      BY <2>1, <2>11 DEF Answer, Die
    <3> QED BY <3>1 DEF Idle
  <2>12. ASSUME NEW p \in Processes, p # q, Step(p) \/ Die(p) PROVE FALSE
    <3>1. call'[q] = call[q]
      BY <2>1, <2>12 DEF Step, Die, Precheck, Reuse, Replay, Apply, Refuse, Busy, Answer, Reply
    <3> QED BY <3>1
  <2>13. ASSUME NEW p \in Processes, NEW d \in Commands, NEW j \in CallIds,
                Send(p, d, j) \/ SendWithoutId(p, d, j)
         PROVE  FALSE
    <3>1. CASE p = q
      BY <3>1, <2>13 DEF Send, SendWithoutId
    <3>2. CASE p # q
      BY <3>2, <2>1, <2>13 DEF Send, SendWithoutId
    <3> QED BY <3>1, <3>2
  <2>14. ASSUME NEW t \in Targets, Submitted(t) \/ AutoApprove(t) PROVE FALSE
    BY <2>14 DEF Submitted, AutoApprove
  <2> QED BY <2>7, <2>8, <2>9, <2>10, <2>11, <2>12, <2>13, <2>14 DEF Next, Step
<1> QED BY <1>1, IdemInvHolds, PTL DEF Spec, TakenNotRefused
=============================================================================
