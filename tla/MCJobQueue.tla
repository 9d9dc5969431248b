----------------------------- MODULE MCJobQueue -----------------------------
(* Instances of JobQueue for TLC: the configurations give the constants. *)
EXTENDS JobQueue
=============================================================================
