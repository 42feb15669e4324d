---------------------------- MODULE MCEventLoop ----------------------------
(***************************************************************************)
(* Instances of EventLoop for TLC.                                         *)
(***************************************************************************)
EXTENDS EventLoop, TLC

\* Fibers are interchangeable, and so are descriptors.
Symmetry == Permutations(Fibers) \cup Permutations(Fds)
=============================================================================
