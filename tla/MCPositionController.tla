------------------------ MODULE MCPositionController ------------------------
(***************************************************************************)
(* Instances of PositionController for TLC: a revolution of a few dozen    *)
(* counts, three stages, and a start beside the wrap.                      *)
(***************************************************************************)
EXTENDS PositionController

MCThreshold == <<6, 3, 1>>
MCSpeed == <<3, 2, 1>>
=============================================================================
