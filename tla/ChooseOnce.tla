----------------------------- MODULE ChooseOnce -----------------------------
(***************************************************************************)
(* A value that is chosen once for all processes and never changes, and    *)
(* that nobody acts on before it is chosen or with another value in mind.  *)
(* Module Startup implements it: the value is the clock mode of a database.*)
(***************************************************************************)
CONSTANTS Values, Actors, None

VARIABLES
  chosen,  \* the value, or None
  acting   \* what each actor acts on, or None

chooseVars == <<chosen, acting>>

Init ==
  /\ chosen = None
  /\ acting = [a \in Actors |-> None]

Choose(v) ==
  /\ chosen = None
  /\ chosen' = v
  /\ UNCHANGED acting

Begin(a) ==
  /\ chosen # None
  /\ acting' = [acting EXCEPT ![a] = chosen]
  /\ UNCHANGED chosen

End(a) ==
  /\ acting' = [acting EXCEPT ![a] = None]
  /\ UNCHANGED chosen

Next ==
  \/ \E v \in Values : Choose(v)
  \/ \E a \in Actors : Begin(a) \/ End(a)

Spec == Init /\ [][Next]_chooseVars
=============================================================================
