------------------------------ MODULE MCStartup ------------------------------
(* Instances of Startup for TLC; no symmetry, since the runs check liveness. *)
EXTENDS Startup
=============================================================================
