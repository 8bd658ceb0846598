---------------------------- MODULE MCTcpServer -----------------------------
(***************************************************************************)
(* Instances of TcpServer for TLC.  The clients are interchangeable.       *)
(***************************************************************************)
EXTENDS TcpServer, TLC

Symmetry == Permutations(Client)
=============================================================================
