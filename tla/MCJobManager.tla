---------------------------- MODULE MCJobManager ----------------------------
(* Instances of JobManager for TLC: jobs and threads are interchangeable. *)
EXTENDS JobManager, TLC

Symmetry == Permutations(Job) \cup Permutations(Thread)
=============================================================================
