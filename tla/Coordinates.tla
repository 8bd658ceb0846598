---------------------------- MODULE Coordinates -----------------------------
(***************************************************************************)
(* The conversion between native counts and AUX units, a turn of 2^24 in   *)
(* the code, by AUXCoordinateAdapter (Python) and AuxCoordinateAdapter     *)
(* (C++).  The two divide and take remainders of negative numbers          *)
(* differently.  Python raises and C++ returns false where these operators *)
(* have Unavailable.                                                       *)
(***************************************************************************)
EXTENDS Integers

CONSTANT AuxFullTurn

ASSUME TurnAssumption == AuxFullTurn \in Nat \ {0}

Unavailable == -1

\* AxisCoordinateConfig, with what __post_init__ demands of it.
AxisCoordinateConfig(modulus) ==
  {c \in [modulus : {modulus}, zero : 0 .. modulus - 1, aux_zero : 0 .. AuxFullTurn - 1,
          direction : {-1, 1}, wraps : BOOLEAN, min : 0 .. modulus - 1, max : 0 .. modulus - 1] :
     ~c.wraps => c.min <= c.max}

InBounds(c, n) == c.wraps \/ n \in c.min .. c.max

-----------------------------------------------------------------------------
(***************************************************************************)
(* Python: // rounds down and % has the sign of the divisor, as \div and % *)
(* do.                                                                     *)
(***************************************************************************)
round_div(n, d) ==
  IF n >= 0 THEN (n + d \div 2) \div d ELSE -((-n + d \div 2) \div d)

signed_delta(value, modulus) ==
  IF value > modulus \div 2 THEN value - modulus ELSE value

to_aux(c, neutral) ==
  IF InBounds(c, neutral)
    THEN (c.aux_zero + round_div((neutral - c.zero) * c.direction * AuxFullTurn, c.modulus))
           % AuxFullTurn
    ELSE Unavailable

from_aux(c, aux) ==
  LET delta == signed_delta((aux - c.aux_zero) % AuxFullTurn, AuxFullTurn)
      neutral == c.zero + round_div(delta * c.modulus, AuxFullTurn) * c.direction
  IN  IF c.wraps THEN neutral % c.modulus
      ELSE IF InBounds(c, neutral) THEN neutral ELSE Unavailable

-----------------------------------------------------------------------------
(***************************************************************************)
(* C++: division towards zero, and a remainder with the sign of the        *)
(* dividend.                                                               *)
(***************************************************************************)
Quotient(x, n) == IF x < 0 THEN -((-x) \div n) ELSE x \div n
Remainder(x, n) == x - n * Quotient(x, n)

roundDiv(n, d) ==
  IF n >= 0 THEN Quotient(n + Quotient(d, 2), d) ELSE -Quotient(-n + Quotient(d, 2), d)

\* Faulty: the remainder of a negative number is taken for the position.
Wrapped(x, n) == Remainder(x, n)

\* The remainder, brought into range.
NonNegative(x, n) == LET r == Remainder(x, n) IN IF r < 0 THEN r + n ELSE r

toAux(c, native) ==
  LET scaled == roundDiv((native - c.zero) * c.direction * AuxFullTurn, c.modulus)
  IN  IF InBounds(c, native) THEN NonNegative(c.aux_zero + scaled, AuxFullTurn)
      ELSE Unavailable

fromAux(c, aux) ==
  LET delta == signed_delta(Remainder(aux + AuxFullTurn - c.aux_zero, AuxFullTurn),
                            AuxFullTurn)
      decoded == c.zero + roundDiv(delta * c.modulus, AuxFullTurn) * c.direction
  IN  IF aux >= AuxFullTurn THEN Unavailable
      ELSE IF c.wraps THEN NonNegative(decoded, c.modulus)
      ELSE IF InBounds(c, decoded) THEN decoded
      ELSE Unavailable

-----------------------------------------------------------------------------
(***************************************************************************)
(* What a client that sends targets and reads positions relies on.         *)
(***************************************************************************)
\* The distance of two points of a circle.
OnCircle(p, q, turn) ==
  LET ahead == (p - q) % turn
  IN  IF 2 * ahead < turn THEN ahead ELSE turn - ahead

\* The firmware answers what the Python bridge answers.
SameAsPython(c, native) ==
  /\ toAux(c, native) = to_aux(c, native)
  /\ \A aux \in 0 .. AuxFullTurn - 1 : fromAux(c, aux) = from_aux(c, aux)

\* A position reported and sent back as a target is the same position, on
\* both sides of the wrap.  On an axis that does not wrap it may be refused,
\* as a delta of over half a turn is taken the other way, but it is never
\* another position.
ComesBack(c, native) ==
  InBounds(c, native) =>
    LET back == from_aux(c, to_aux(c, native))
    IN  back = native \/ (~c.wraps /\ back = Unavailable)

\* A target is met to within half a count and half a unit.
MeetsTarget(c, aux) ==
  from_aux(c, aux) # Unavailable =>
    2 * c.modulus * OnCircle(to_aux(c, from_aux(c, aux)), aux, AuxFullTurn)
      <= AuxFullTurn + c.modulus
=============================================================================
