---------------------------- MODULE MCO1Scheduler ----------------------------
(* O1Scheduler for TLC: two CPUs. *)
EXTENDS O1Scheduler, TLC

CONSTANTS c1, c2

MCTwoCpus == <<c1, c2>>
MCSymmetry == Permutations(Task)
=============================================================================
