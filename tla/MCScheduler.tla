---------------------------- MODULE MCScheduler ----------------------------
(* Instances of Scheduler for TLC. *)
EXTENDS Scheduler, TLC

MCTaskCap == [t \in Tasks |-> 1]
MCPolicy == [enabled |-> TRUE, max_amount |-> 1, max_ratio_bps |-> 5000,
             max_children |-> 1, max_depth |-> 1]

SchedulerSymmetry == Permutations(Schedulers)

=============================================================================
