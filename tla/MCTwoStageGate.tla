--------------------------- MODULE MCTwoStageGate ---------------------------
(***************************************************************************)
(* An instance of TwoStageGate for TLC.                                    *)
(***************************************************************************)
EXTENDS TwoStageGate, TLC
=============================================================================
