----------------------------- MODULE MCAuxParser -----------------------------
(***************************************************************************)
(* Four different bytes of which one starts a frame, a header of one byte, *)
(* and room for a payload of one.  The probe keeps one byte more.          *)
(***************************************************************************)
EXTENDS AuxParser
=============================================================================
