---------------------------- MODULE MCEsp32Mount ----------------------------
(***************************************************************************)
(* A revolution of six counts, a GoTo of three clock units, a clock that   *)
(* wraps every six.  An AUX turn is sixteen units, so a count is two and   *)
(* two thirds, near enough to the 15.8 of the code for every rounding.     *)
(***************************************************************************)
EXTENDS Esp32Mount

\* Native 2 and 5.
MCTargets == {5, 13}
MCSpeeds == {1, 2}

Config(zero, aux_zero, dir) ==
  [modulus |-> 6, zero |-> zero, aux_zero |-> aux_zero, direction |-> dir,
   wraps |-> TRUE, min |-> 0, max |-> 0]

MCAxisConfig == Config(0, 0, 1)

\* The fake mount's, a calibrated axis in each direction, and two with limits,
\* of which one reaches further than half a turn from its zero.
MCAuxConfigs ==
  {MCAxisConfig, Config(2, 11, 1), Config(3, 5, -1)}
    \cup {[Config(1, 7, 1) EXCEPT !.wraps = FALSE, !.max = m] : m \in {4, 5}}
=============================================================================
