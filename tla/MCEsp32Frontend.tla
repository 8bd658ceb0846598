--------------------------- MODULE MCEsp32Frontend ---------------------------
(***************************************************************************)
(* Two clients, the one that is served and the one that waits, on a clock  *)
(* that wraps every few laps.                                              *)
(***************************************************************************)
EXTENDS Esp32Frontend

CONSTANTS c1, c2
MCClient == {c1, c2}
=============================================================================
