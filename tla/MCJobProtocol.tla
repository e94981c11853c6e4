--------------------------- MODULE MCJobProtocol ---------------------------
(* Instances of JobProtocol for TLC. *)
EXTENDS JobProperties, TLC

MCTaskCap == [t \in Tasks |-> 2]
MCPolicy == [enabled |-> TRUE, max_amount |-> 3, max_ratio_bps |-> 7000,
             max_children |-> 2, max_depth |-> 1]

ChildSymmetry == Permutations(Children)

=============================================================================
