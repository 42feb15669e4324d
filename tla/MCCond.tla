------------------------------- MODULE MCCond -------------------------------
(***************************************************************************)
(* Instances of Cond for TLC.                                              *)
(***************************************************************************)
EXTENDS Cond, TLC

\* Fibers are interchangeable, and so are mutexes and condition variables.
Symmetry == Permutations(Fibers) \cup Permutations(Mutexes) \cup Permutations(Conds)
=============================================================================
