---------------------------- MODULE MCTcpServer ----------------------------
(***************************************************************************)
(* Instances of TcpServer for TLC.                                         *)
(***************************************************************************)
EXTENDS TcpServer, TLC

\* Fibers are interchangeable, and so are servers.
Symmetry == Permutations(Fibers) \cup Permutations(Servers)
=============================================================================
