---------------------------- MODULE MCGotoBridge ----------------------------
(***************************************************************************)
(* Instances of GotoBridge for TLC.                                        *)
(***************************************************************************)
EXTENDS GotoBridge, TLC
=============================================================================
