---------------------------- MODULE MCIncrSystem ----------------------------
(* IncrSystem with processes that are interchangeable. *)
EXTENDS IncrSystem, TLC

ProcSymmetry == Permutations(Procs)
=============================================================================
