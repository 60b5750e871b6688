---------------------------- MODULE MCScheduler ----------------------------
(* The instances of Scheduler that TLC checks.                            *)
EXTENDS Scheduler, TLC

\* The threads of the pool are interchangeable.
ThreadSymmetry == Permutations(Threads)
=============================================================================
