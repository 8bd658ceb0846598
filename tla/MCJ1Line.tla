------------------------------ MODULE MCJ1Line ------------------------------
(***************************************************************************)
(* Instances of J1Line for TLC.  Threads are interchangeable.              *)
(***************************************************************************)
EXTENDS J1Line, TLC

Symmetry == Permutations(Thread)
=============================================================================
