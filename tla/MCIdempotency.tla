---------------------------- MODULE MCIdempotency ----------------------------
(* Instances of Idempotency for TLC: two approvals of one job by two actors, *)
(* the approval of another job, and a command without a business key.        *)
EXTENDS Idempotency, TLC

CONSTANTS t1, t2, ok, foreign, other, abandon, i1, i1p, i2, g1

MCTarget == ok :> t1 @@ foreign :> t1 @@ other :> t2 @@ abandon :> t1
MCKind == [x \in Commands \cup CallIds |-> IF x \in {abandon, i2} THEN "abandon" ELSE "approve"]
MCAutoId == [t \in Targets |-> <<"auto", t>>]
MCPaymentId ==
  [i \in ClientIds \cup GeneratedIds \cup {<<"auto", t>> : t \in Targets} |->
     IF i = i1 THEN i1p ELSE <<"payment", i>>]
ProcessSymmetry == Permutations(Processes)
=============================================================================
