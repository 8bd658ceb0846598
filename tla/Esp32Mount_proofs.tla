-------------------------- MODULE Esp32Mount_proofs --------------------------
(***************************************************************************)
(* Proofs about Coordinates and Esp32Mount, for every modulus, every       *)
(* configuration, every length of a GoTo and every clock.  The first half  *)
(* is arithmetic: what the two adapters compute, and how far a rounding    *)
(* takes a coordinate.  The second is the inductive invariant of the       *)
(* mount: what the runtime and the core know of each other.                *)
(***************************************************************************)
EXTENDS Esp32Mount, TLAPS

Positive == Nat \ {0}

-----------------------------------------------------------------------------
(***************************************************************************)
(* Division and remainder.                                                 *)
(***************************************************************************)
LEMMA DivMod ==
  ASSUME NEW a \in Int, NEW n \in Positive
  PROVE  /\ a \div n \in Int /\ a % n \in 0 .. n - 1
         /\ a = n * (a \div n) + (a % n)
  BY DEF Positive

\* A remainder is known by its range and by what it leaves.
LEMMA ModUnique ==
  ASSUME NEW a \in Int, NEW n \in Positive, NEW q \in Int, NEW r \in 0 .. n - 1,
         a = n * q + r
  PROVE  a \div n = q /\ a % n = r
  BY DEF Positive

\* Whole turns leave the remainder alone.
LEMMA ModShift ==
  ASSUME NEW a \in Int, NEW n \in Positive, NEW k \in Int
  PROVE  (a + k * n) % n = a % n
  <1>1. a = n * (a \div n) + (a % n) /\ a \div n \in Int /\ a % n \in 0 .. n - 1
    BY DivMod
  <1>2. a + k * n = n * (a \div n + k) + (a % n)
    BY <1>1 DEF Positive
  <1>3. a + k * n \in Int /\ a \div n + k \in Int
    BY <1>1 DEF Positive
  <1> QED BY <1>1, <1>2, <1>3, ModUnique

\* A number differs from its remainder by whole turns.
LEMMA ModTurns ==
  ASSUME NEW a \in Int, NEW n \in Positive
  PROVE  \E k \in Int : a % n = a + k * n
  <1>1. a = n * (a \div n) + (a % n) /\ a \div n \in Int /\ a % n \in Int
    BY DivMod
  <1> DEFINE k == -(a \div n)
  <1>2. k \in Int /\ a % n = a + k * n
    BY <1>1 DEF Positive
  <1> QED BY <1>2

\* C++ divides as Python does as long as nothing is negative.
LEMMA QuotientIsDiv ==
  ASSUME NEW x \in Int, NEW n \in Positive
  PROVE  /\ x >= 0 => Quotient(x, n) = x \div n
         /\ x < 0 => Quotient(x, n) = -((-x) \div n)
  BY DEF Quotient

\* C++'s remainder, brought into range, is Python's.
LEMMA NonNegativeIsMod ==
  ASSUME NEW x \in Int, NEW n \in Positive
  PROVE  NonNegative(x, n) = x % n
  <1>1. CASE x >= 0
    <2>1. x = n * (x \div n) + (x % n) /\ x \div n \in Int /\ x % n \in 0 .. n - 1
      BY DivMod
    <2>2. Remainder(x, n) = x - n * (x \div n)
      BY <1>1, QuotientIsDiv DEF Remainder
    <2>3. n * (x \div n) \in Int
      BY <2>1 DEF Positive
    <2>4. Remainder(x, n) = x % n /\ ~(x % n < 0)
      BY <2>1, <2>2, <2>3 DEF Positive
    <2> QED BY <2>4 DEF NonNegative
  <1>2. CASE x < 0
    <2> DEFINE y == (-x) \div n
               z == (-x) % n
    <2>1. -x = n * y + z /\ y \in Int /\ z \in 0 .. n - 1 /\ -x \in Int
      BY DivMod
    <2>2. Remainder(x, n) = x - n * (-y)
      BY <1>2, QuotientIsDiv DEF Remainder
    <2> HIDE DEF y, z
    <2>3. Remainder(x, n) \in Int /\ Remainder(x, n) = 0 - z
      BY <2>1, <2>2 DEF Positive
    <2>4. CASE z = 0
      <3>1. NonNegative(x, n) = 0
        <4>1. Remainder(x, n) = 0
          BY <2>1, <2>3, <2>4 DEF Positive
        <4> QED BY <4>1 DEF NonNegative
      <3>2. x = n * (-y) + 0 /\ -y \in Int /\ 0 \in 0 .. n - 1
        BY <2>1, <2>4 DEF Positive
      <3> QED BY <3>1, <3>2, ModUnique
    <2>5. CASE z # 0
      <3>1. NonNegative(x, n) = n - z
        BY <2>1, <2>3, <2>5 DEF NonNegative, Positive
      <3>2. x = n * (-y - 1) + (n - z) /\ -y - 1 \in Int /\ n - z \in 0 .. n - 1
        BY <2>1, <2>5 DEF Positive
      <3> QED BY <3>1, <3>2, ModUnique
    <2> QED BY <2>4, <2>5
  <1> QED BY <1>1, <1>2

\* The two roundings are one.
LEMMA RoundAlike ==
  ASSUME NEW x \in Int, NEW n \in Positive
  PROVE  roundDiv(x, n) = round_div(x, n)
  <1>1. Quotient(n, 2) = n \div 2 /\ n \div 2 \in Nat
    BY QuotientIsDiv DEF Positive
  <1>2. CASE x >= 0
    <2>1. x + n \div 2 \in Int /\ x + n \div 2 >= 0
      BY <1>1, <1>2
    <2> QED BY <1>1, <1>2, <2>1, QuotientIsDiv DEF roundDiv, round_div
  <1>3. CASE x < 0
    <2>1. -x + n \div 2 \in Int /\ -x + n \div 2 >= 0
      BY <1>1, <1>3
    <2> QED BY <1>1, <1>3, <2>1, QuotientIsDiv DEF roundDiv, round_div
  <1> QED BY <1>2, <1>3

\* A rounding is off by half a unit at most.
LEMMA RoundError ==
  ASSUME NEW x \in Int, NEW n \in Positive
  PROVE  /\ round_div(x, n) \in Int
         /\ 2 * (round_div(x, n) * n - x) <= n
         /\ 2 * (x - round_div(x, n) * n) <= n
  <1>1. n \div 2 \in Nat /\ 2 * (n \div 2) <= n /\ n <= 2 * (n \div 2) + 1
    BY DEF Positive
  <1>2. ASSUME NEW a \in Nat
        PROVE  LET q == (a + n \div 2) \div n
               IN  q \in Int /\ 2 * (q * n - a) <= n /\ 2 * (a - q * n) <= n
    <2> DEFINE q == (a + n \div 2) \div n
               r == (a + n \div 2) % n
    <2>1. a + n \div 2 = n * q + r /\ q \in Int /\ r \in 0 .. n - 1
      BY <1>1, DivMod
    <2> HIDE DEF q, r
    <2>2. n * q = q * n /\ q * n \in Int
      BY <2>1 DEF Positive
    <2>3. 2 * (q * n - a) <= n /\ 2 * (a - q * n) <= n
      BY <1>1, <2>1, <2>2 DEF Positive
    <2> QED BY <2>1, <2>3 DEF q
  <1>3. CASE x >= 0
    BY <1>2, <1>3 DEF round_div
  <1>4. CASE x < 0
    <2> DEFINE q == (-x + n \div 2) \div n
    <2>1. q \in Int /\ 2 * (q * n - (-x)) <= n /\ 2 * (-x - q * n) <= n
      BY <1>2, <1>4
    <2>2. round_div(x, n) = -q
      BY <1>4 DEF round_div
    <2> HIDE DEF q
    <2>3. (-q) * n = -(q * n) /\ q * n \in Int
      BY <2>1 DEF Positive
    <2> QED BY <2>1, <2>2, <2>3 DEF Positive
  <1> QED BY <1>3, <1>4

\* What is nearer than half a unit is what it is rounded to.
LEMMA Nearest ==
  ASSUME NEW x \in Int, NEW n \in Positive, NEW k \in Int,
         2 * (k * n - x) < n, 2 * (x - k * n) < n
  PROVE  round_div(x, n) = k
  <1> DEFINE q == round_div(x, n)
  <1>1. q \in Int /\ 2 * (q * n - x) <= n /\ 2 * (x - q * n) <= n
    BY RoundError
  <1> HIDE DEF q
  <1>2. q * n \in Int /\ k * n \in Int /\ (q - k) * n = q * n - k * n /\ (q - k) * n \in Int
    BY <1>1 DEF Positive
  <1>3. (q - k) * n < n /\ -n < (q - k) * n
    BY <1>1, <1>2 DEF Positive
  <1>4. ~(q - k >= 1)
    BY <1>1, <1>3 DEF Positive
  <1>5. ~(q - k <= -1)
    BY <1>1, <1>3 DEF Positive
  <1> QED BY <1>1, <1>4, <1>5 DEF q

-----------------------------------------------------------------------------
(***************************************************************************)
(* The adapters.                                                           *)
(***************************************************************************)
\* What a configuration is made of.
LEMMA ConfigTypes ==
  ASSUME NEW m \in Positive, NEW c \in AxisCoordinateConfig(m)
  PROVE  /\ c.modulus = m /\ c.zero \in 0 .. m - 1 /\ c.aux_zero \in 0 .. AuxFullTurn - 1
         /\ c.direction \in {-1, 1} /\ c.min \in 0 .. m - 1 /\ c.max \in 0 .. m - 1
         /\ AuxFullTurn \in Positive
  BY TurnAssumption DEF AxisCoordinateConfig, Positive

\* The difference of two directions of a circle, taken the short way.
LEMMA SignedDelta ==
  ASSUME NEW f \in Positive, NEW v \in 0 .. f - 1
  PROVE  /\ signed_delta(v, f) \in {v, v - f}
         /\ signed_delta(v, f) \in Int
         /\ 2 * signed_delta(v, f) <= f /\ -f <= 2 * signed_delta(v, f)
  BY DEF signed_delta, Positive

\* The adapter of the firmware reports what the Python adapter reports.
LEMMA ReportsAlike ==
  ASSUME NEW m \in Positive, NEW c \in AxisCoordinateConfig(m), NEW n \in Int
  PROVE  toAux(c, n) = to_aux(c, n)
  <1> DEFINE x == (n - c.zero) * c.direction * AuxFullTurn
  <1>0. /\ c.modulus = m /\ c.zero \in Int /\ c.aux_zero \in Int /\ c.direction \in Int
        /\ AuxFullTurn \in Positive /\ AuxFullTurn \in Int
    BY ConfigTypes DEF Positive
  <1>1. x \in Int
    BY <1>0
  <1> HIDE DEF x
  <1>2. roundDiv(x, m) = round_div(x, m) /\ round_div(x, m) \in Int
    BY <1>1, RoundAlike, RoundError
  <1>3. c.aux_zero + round_div(x, m) \in Int
    BY <1>0, <1>2
  <1>4. NonNegative(c.aux_zero + round_div(x, m), AuxFullTurn)
          = (c.aux_zero + round_div(x, m)) % AuxFullTurn
    BY <1>0, <1>3, NonNegativeIsMod
  <1> QED BY <1>0, <1>2, <1>4 DEF toAux, to_aux, x

\* They understand a target alike.
LEMMA DecodesAlike ==
  ASSUME NEW m \in Positive, NEW c \in AxisCoordinateConfig(m),
         NEW aux \in 0 .. AuxFullTurn - 1
  PROVE  fromAux(c, aux) = from_aux(c, aux)
  <1> DEFINE v == (aux - c.aux_zero) % AuxFullTurn
             d == signed_delta(v, AuxFullTurn)
             p == c.zero + round_div(d * m, AuxFullTurn) * c.direction
  <1>0. /\ c.modulus = m /\ c.zero \in Int /\ c.aux_zero \in 0 .. AuxFullTurn - 1
        /\ c.direction \in Int /\ AuxFullTurn \in Positive /\ AuxFullTurn \in Int
    BY ConfigTypes DEF Positive
  <1>1. Remainder(aux + AuxFullTurn - c.aux_zero, AuxFullTurn) = v
    <2> DEFINE y == aux + AuxFullTurn - c.aux_zero
    <2>1. y \in Int /\ y >= 0 /\ aux - c.aux_zero \in Int
          /\ y = (aux - c.aux_zero) + 1 * AuxFullTurn
      BY <1>0 DEF Positive
    <2> HIDE DEF y
    <2>2. Remainder(y, AuxFullTurn) = y % AuxFullTurn
      <3>1. y = AuxFullTurn * (y \div AuxFullTurn) + (y % AuxFullTurn)
            /\ y \div AuxFullTurn \in Int /\ y % AuxFullTurn \in Int
        <4>1. y \in Int /\ AuxFullTurn \in Positive
          BY <2>1, <1>0
        <4>2. y % AuxFullTurn \in 0 .. AuxFullTurn - 1
          BY <4>1, DivMod
        <4>3. y = AuxFullTurn * (y \div AuxFullTurn) + (y % AuxFullTurn) /\ y \div AuxFullTurn \in Int
          BY <4>1, DivMod
        <4> QED BY <4>1, <4>2, <4>3
      <3>2. Remainder(y, AuxFullTurn) = y - AuxFullTurn * (y \div AuxFullTurn)
        BY <2>1, <1>0, QuotientIsDiv DEF Remainder
      <3>3. AuxFullTurn * (y \div AuxFullTurn) \in Int
        BY <3>1, <1>0
      <3> QED BY <3>1, <3>2, <3>3, <2>1
    <2>3. y % AuxFullTurn = v
      BY <2>1, <1>0, ModShift
    <2> QED BY <2>2, <2>3 DEF y
  <1>2. v \in 0 .. AuxFullTurn - 1
    <2>1. aux - c.aux_zero \in Int /\ AuxFullTurn \in Positive
      BY <1>0
    <2> QED BY <2>1, DivMod
  <1> HIDE DEF v
  <1>3. d \in Int
    BY <1>0, <1>2, SignedDelta
  <1> HIDE DEF d
  <1>4. /\ d * m \in Int /\ roundDiv(d * m, AuxFullTurn) = round_div(d * m, AuxFullTurn)
        /\ round_div(d * m, AuxFullTurn) \in Int
    <2>1. d * m \in Int
      BY <1>3 DEF Positive
    <2> QED BY <2>1, <1>0, RoundAlike, RoundError
  <1>5. p \in Int
    BY <1>0, <1>4
  <1>6. NonNegative(p, m) = p % m
    BY <1>5, NonNegativeIsMod
  <1>7. ~(aux >= AuxFullTurn)
    BY <1>0
  <1>8. fromAux(c, aux) = IF c.wraps THEN p % m ELSE IF InBounds(c, p) THEN p ELSE Unavailable
    BY <1>0, <1>1, <1>4, <1>6, <1>7 DEF fromAux, d
  <1>9. from_aux(c, aux) = IF c.wraps THEN p % m ELSE IF InBounds(c, p) THEN p ELSE Unavailable
    BY <1>0 DEF from_aux, d, v
  <1> QED BY <1>8, <1>9

\* A target that is accepted is a position of the axis.
LEMMA DecodesToPosition ==
  ASSUME NEW m \in Positive, NEW c \in AxisCoordinateConfig(m),
         NEW aux \in 0 .. AuxFullTurn - 1, from_aux(c, aux) # Unavailable
  PROVE  from_aux(c, aux) \in 0 .. m - 1
  <1> DEFINE d == signed_delta((aux - c.aux_zero) % AuxFullTurn, AuxFullTurn)
             p == c.zero + round_div(d * m, AuxFullTurn) * c.direction
  <1>0. /\ c.modulus = m /\ c.zero \in Int /\ c.aux_zero \in Int /\ c.direction \in Int
        /\ c.min \in 0 .. m - 1 /\ c.max \in 0 .. m - 1
        /\ AuxFullTurn \in Positive /\ AuxFullTurn \in Int
    BY ConfigTypes DEF Positive
  <1>1. (aux - c.aux_zero) % AuxFullTurn \in 0 .. AuxFullTurn - 1
    <2>1. aux - c.aux_zero \in Int /\ AuxFullTurn \in Positive
      BY <1>0
    <2> QED BY <2>1, DivMod
  <1>2. d \in Int
    BY <1>0, <1>1, SignedDelta
  <1>3. from_aux(c, aux) = IF c.wraps THEN p % m ELSE IF InBounds(c, p) THEN p ELSE Unavailable
    BY <1>0 DEF from_aux
  <1> HIDE DEF d
  <1>4. d * m \in Int
    BY <1>2 DEF Positive
  <1>5. p \in Int
    <2>1. round_div(d * m, AuxFullTurn) \in Int
      BY <1>0, <1>4, RoundError
    <2> QED BY <2>1, <1>0
  <1> HIDE DEF p
  <1>6. CASE c.wraps
    BY <1>3, <1>5, <1>6, DivMod
  <1>7. CASE ~c.wraps
    <2>1. InBounds(c, p) /\ from_aux(c, aux) = p
      BY <1>3, <1>7
    <2>2. p \in c.min .. c.max
      BY <2>1, <1>7 DEF InBounds
    <2> QED BY <2>1, <2>2, <1>0, <1>5 DEF Positive
  <1> QED BY <1>6, <1>7

\* Whatever the axis's configuration, the firmware and the Python bridge are
\* the same mount to a client.
THEOREM AdaptersAgree ==
  ASSUME NEW m \in Positive, NEW c \in AxisCoordinateConfig(m), NEW native \in Int
  PROVE  SameAsPython(c, native)
  BY ReportsAlike, DecodesAlike DEF SameAsPython

\* A position is its own remainder, and two positions that differ by whole turns
\* are one.
LEMMA OnePosition ==
  ASSUME NEW m \in Positive, NEW p \in 0 .. m - 1, NEW q \in Int, NEW k \in Int, q = p + k * m
  PROVE  /\ q % m = p
         /\ q \in 0 .. m - 1 => q = p
  <1>1. ASSUME NEW r \in 0 .. m - 1  PROVE r % m = r
    <2>1. r \in Int /\ r = m * 0 + r
      BY DEF Positive
    <2> QED BY <2>1, ModUnique
  <1>2. p \in Int
    BY DEF Positive
  <1>3. q % m = p
    BY <1>1, <1>2, ModShift
  <1> QED BY <1>1, <1>3

\* Rounded to AUX units, put on the circle and taken the short way round, an
\* offset of o counts decodes to itself up to whole turns.
LEMMA OffsetComesBack ==
  ASSUME NEW m \in Positive, NEW f \in Positive, m < f, NEW o \in Int, NEW a \in Int
  PROVE  LET t == (a + round_div(o * f, m)) % f
             d == signed_delta((t - a) % f, f)
         IN  \E j \in Int : round_div(d * m, f) = o + j * m
  <1> DEFINE x == o * f
             s == round_div(x, m)
             t == (a + s) % f
             v == (t - a) % f
             d == signed_delta(v, f)
  <1>0. m \in Int /\ f \in Int
    BY DEF Positive
  <1>1. x \in Int
    BY <1>0
  <1>2. s \in Int /\ 2 * (s * m - x) <= m /\ 2 * (x - s * m) <= m
    <2> HIDE DEF x
    <2> QED BY <1>1, RoundError
  <1> HIDE DEF s
  <1>3. PICK k1 \in Int : t = a + s + k1 * f
    <2>1. a + s \in Int
      BY <1>2
    <2> QED BY <2>1, ModTurns
  <1>4. t \in Int
    BY <1>0, <1>2, <1>3
  <1> HIDE DEF t
  <1>5. t - a \in Int
    BY <1>4
  <1>6. PICK k2 \in Int : v = t - a + k2 * f
    BY <1>5, ModTurns
  <1>7. v \in 0 .. f - 1
    BY <1>5, DivMod
  <1> HIDE DEF v
  <1>8. d \in {v, v - f} /\ d \in Int
    BY <1>7, SignedDelta
  <1> HIDE DEF d
  <1>9. \E j \in Int : d = s + j * f
    <2>1. CASE d = v
      <3>1. d = s + (k1 + k2) * f /\ k1 + k2 \in Int
        BY <1>0, <1>2, <1>3, <1>6, <2>1
      <3> QED BY <3>1
    <2>2. CASE d = v - f
      <3>1. d = s + (k1 + k2 - 1) * f /\ k1 + k2 - 1 \in Int
        BY <1>0, <1>2, <1>3, <1>6, <2>2
      <3> QED BY <3>1
    <2> QED BY <1>8, <2>1, <2>2
  <1>10. PICK j \in Int : d = s + j * f
    BY <1>9
  <1> DEFINE n == o + j * m
             y == d * m
  <1>11. n \in Int /\ y \in Int
    BY <1>0, <1>8
  <1>12. n * f - y = x - s * m
    <2>1. n * f = o * f + j * m * f
      BY <1>0
    <2>2. y = s * m + j * m * f
      BY <1>0, <1>2, <1>10
    <2>3. j * m * f \in Int /\ s * m \in Int
      BY <1>0, <1>2
    <2> QED BY <2>1, <2>2, <2>3, <1>0, <1>1
  <1>13. 2 * (n * f - y) < f /\ 2 * (y - n * f) < f
    <2>1. n * f \in Int /\ s * m \in Int
      BY <1>0, <1>2, <1>11
    <2> HIDE DEF n, y, x
    <2> QED BY <2>1, <1>0, <1>1, <1>2, <1>11, <1>12
  <1>14. round_div(y, f) = n
    <2> HIDE DEF n, y, x
    <2> QED BY <1>11, <1>13, Nearest
  <1> QED BY <1>14 DEF d, v, t, s

\* A position that is reported and sent back as a target is met exactly: it is
\* never taken for another one.
THEOREM PositionsComeBack ==
  ASSUME NEW m \in Positive, m < AuxFullTurn, NEW c \in AxisCoordinateConfig(m),
         NEW native \in 0 .. m - 1
  PROVE  ComesBack(c, native)
  <1> SUFFICES ASSUME InBounds(c, native)
               PROVE  LET back == from_aux(c, to_aux(c, native))
                      IN  back = native \/ (~c.wraps /\ back = Unavailable)
    BY DEF ComesBack
  <1> DEFINE o == (native - c.zero) * c.direction
             t == (c.aux_zero + round_div(o * AuxFullTurn, m)) % AuxFullTurn
             d == signed_delta((t - c.aux_zero) % AuxFullTurn, AuxFullTurn)
             p == c.zero + round_div(d * m, AuxFullTurn) * c.direction
  <1>0. /\ c.modulus = m /\ c.zero \in Int /\ c.aux_zero \in Int /\ c.direction \in {-1, 1}
        /\ c.min \in 0 .. m - 1 /\ c.max \in 0 .. m - 1
        /\ AuxFullTurn \in Positive /\ m \in Int /\ native \in Int
    BY ConfigTypes DEF Positive
  <1>1. to_aux(c, native) = t
    BY <1>0 DEF to_aux
  <1>2. o \in Int
    BY <1>0
  <1>3. PICK j \in Int : round_div(d * m, AuxFullTurn) = o + j * m
    <2> HIDE DEF o
    <2>1. m < AuxFullTurn /\ AuxFullTurn \in Positive /\ o \in Int /\ c.aux_zero \in Int
      BY <1>0, <1>2
    <2>2. \E j \in Int : round_div(d * m, AuxFullTurn) = o + j * m
      BY <2>1, OffsetComesBack, Zenon
    <2> QED BY <2>2
  <1>4. from_aux(c, t) = IF c.wraps THEN p % m ELSE IF InBounds(c, p) THEN p ELSE Unavailable
    <2> HIDE DEF o, t
    <2> QED BY <1>0 DEF from_aux
  <1> HIDE DEF t, d
  <1>5. p = native + (j * c.direction) * m /\ j * c.direction \in Int /\ p \in Int
    BY <1>0, <1>3
  <1> HIDE DEF p, o
  <1>6. p % m = native /\ (p \in 0 .. m - 1 => p = native)
    BY <1>5, OnePosition
  <1>7. CASE c.wraps
    BY <1>1, <1>4, <1>6, <1>7
  <1>8. CASE ~c.wraps
    <2>1. InBounds(c, p) => p \in 0 .. m - 1
      BY <1>0, <1>5, <1>8 DEF InBounds
    <2> QED BY <2>1, <1>1, <1>4, <1>6, <1>8
  <1> QED BY <1>7, <1>8

\* Two points of a circle are no further apart than any way between them.
LEMMA OnCircleBound ==
  ASSUME NEW f \in Positive, NEW p \in Int, NEW q \in Int, NEW e \in Int, NEW k \in Int,
         p - q = e + k * f
  PROVE  OnCircle(p, q, f) \in Int /\ (OnCircle(p, q, f) <= e \/ OnCircle(p, q, f) <= -e)
  <1> DEFINE r == (p - q) % f
  <1>1. r = e % f /\ r \in 0 .. f - 1
    BY ModShift, DivMod
  <1>2. OnCircle(p, q, f) = IF 2 * r < f THEN r ELSE f - r
    BY DEF OnCircle
  <1> HIDE DEF r
  <1>3. OnCircle(p, q, f) \in Int /\ OnCircle(p, q, f) <= f
    BY <1>1, <1>2 DEF Positive
  <1>4. CASE e >= f \/ e <= -f
    BY <1>3, <1>4 DEF Positive
  <1>5. CASE 0 <= e /\ e < f
    <2>1. e = f * 0 + e /\ e \in 0 .. f - 1
      BY <1>5 DEF Positive
    <2>2. r = e
      BY <2>1, <1>1, ModUnique
    <2> QED BY <1>2, <1>5, <2>2 DEF Positive
  <1>6. CASE e < 0 /\ e > -f
    <2>1. e = f * (-1) + (e + f) /\ e + f \in 0 .. f - 1 /\ -1 \in Int
      BY <1>6 DEF Positive
    <2>2. r = e + f
      BY <2>1, <1>1, ModUnique
    <2> QED BY <1>2, <1>6, <2>2 DEF Positive
  <1> QED BY <1>4, <1>5, <1>6 DEF Positive

\* A target is met as closely as whole counts and whole units allow, across both
\* wraps.
THEOREM TargetsAreMet ==
  ASSUME NEW m \in Positive, NEW c \in AxisCoordinateConfig(m),
         NEW aux \in 0 .. AuxFullTurn - 1
  PROVE  MeetsTarget(c, aux)
  <1> DEFINE f == AuxFullTurn
             a == c.aux_zero
             z == c.zero
             g == c.direction
             v == (aux - a) % f
             d == signed_delta(v, f)
             r == round_div(d * m, f)
             p == z + r * g
             b == from_aux(c, aux)
             s == round_div((b - z) * g * f, m)
             t == to_aux(c, b)
  <1> SUFFICES ASSUME b # Unavailable
               PROVE  2 * m * OnCircle(t, aux, f) <= f + m
    BY ConfigTypes DEF MeetsTarget
  <1>0. /\ c.modulus = m /\ z \in Int /\ a \in Int /\ g \in {-1, 1} /\ aux \in Int
        /\ f \in Positive /\ m \in Int /\ f \in Int
    BY ConfigTypes DEF Positive
  <1>1. b = IF c.wraps THEN p % m ELSE IF InBounds(c, p) THEN p ELSE Unavailable
    BY <1>0 DEF from_aux
  <1>2. t = IF InBounds(c, b) THEN (a + s) % f ELSE Unavailable
    BY <1>0 DEF to_aux
  <1> HIDE DEF b, t, f, a, z, g
  <1>3. aux - a \in Int
    BY <1>0
  <1>4. PICK k1 \in Int : v = aux - a + k1 * f
    BY <1>0, <1>3, ModTurns
  <1>5. v \in 0 .. f - 1
    BY <1>0, <1>3, DivMod
  <1> HIDE DEF v
  <1>6. d \in Int /\ d \in {v, v - f}
    BY <1>0, <1>5, SignedDelta
  <1> HIDE DEF d
  <1>7. \E k \in Int : d = aux - a + k * f
    <2>1. CASE d = v
      BY <1>4, <2>1
    <2>2. CASE d = v - f
      <3>1. d = aux - a + (k1 - 1) * f /\ k1 - 1 \in Int
        BY <1>0, <1>3, <1>4, <2>2
      <3> QED BY <3>1
    <2> QED BY <1>6, <2>1, <2>2
  <1>8. PICK k \in Int : d = aux - a + k * f
    BY <1>7
  <1>9. d * m \in Int
    BY <1>0, <1>6
  <1>10. r \in Int /\ 2 * (r * f - d * m) <= f /\ 2 * (d * m - r * f) <= f
    BY <1>0, <1>9, RoundError
  <1> HIDE DEF r
  <1>11. p \in Int
    BY <1>0, <1>10
  <1>12. InBounds(c, b) /\ \E j \in Int : b = p + j * m
    <2> HIDE DEF p
    <2>1. CASE c.wraps
      <3>1. b = p % m
        BY <1>1, <2>1
      <3> QED BY <3>1, <2>1, <1>11, ModTurns DEF InBounds
    <2>2. CASE ~c.wraps
      <3>1. b = p /\ InBounds(c, p)
        BY <1>1, <2>2
      <3>2. b = p + 0 * m
        BY <3>1, <1>0, <1>11
      <3> QED BY <3>1, <3>2
    <2> QED BY <2>1, <2>2
  <1>13. PICK j \in Int : b = p + j * m
    BY <1>12
  <1> DEFINE n == r + j * g * m
  <1>14. (b - z) * g = n /\ n \in Int /\ j * g \in Int
    BY <1>0, <1>10, <1>13
  <1>15. n * f \in Int /\ s = round_div(n * f, m)
    BY <1>0, <1>14
  <1>16. s \in Int /\ 2 * (s * m - n * f) <= m /\ 2 * (n * f - s * m) <= m
    <2> HIDE DEF n, s
    <2> QED BY <1>15, RoundError
  <1>17. t = (a + s) % f
    BY <1>2, <1>12
  <1> HIDE DEF s, p
  <1>18. PICK l \in Int : t = a + s + l * f
    <2>1. a + s \in Int
      BY <1>0, <1>16
    <2> QED BY <2>1, <1>0, <1>17, ModTurns
  <1> DEFINE w == j * g
             e == s - w * f - d
  <1>19. /\ t \in Int /\ e \in Int /\ w + k + l \in Int
         /\ t - aux = e + (w + k + l) * f
    BY <1>0, <1>6, <1>8, <1>14, <1>16, <1>18
  <1>20. 2 * (m * e) <= m + f /\ -(m + f) <= 2 * (m * e)
    <2>1. n * f = r * f + w * m * f
      BY <1>0, <1>10, <1>14
    <2>2. m * e = s * m - w * m * f - d * m
      BY <1>0, <1>6, <1>14, <1>16
    <2>3. /\ n * f \in Int /\ s * m \in Int /\ r * f \in Int /\ d * m \in Int
          /\ w * m * f \in Int
      BY <1>0, <1>6, <1>10, <1>14, <1>16
    <2>4. m * e = (s * m - n * f) + (r * f - d * m)
      BY <2>1, <2>2, <2>3
    <2> HIDE DEF n, e, w
    <2> QED BY <2>3, <2>4, <1>0, <1>10, <1>16
  <1> DEFINE x == OnCircle(t, aux, f)
  <1>21. x \in Int /\ (x <= e \/ x <= -e)
    <2> HIDE DEF e, w
    <2> QED BY <1>0, <1>19, OnCircleBound
  <1>22. m * x <= m * e \/ m * x <= m * (-e)
    <2> HIDE DEF e, w, x
    <2> QED BY <1>0, <1>19, <1>21 DEF Positive
  <1>23. m * (-e) = -(m * e) /\ m * e \in Int /\ m * x \in Int /\ 2 * m * x = 2 * (m * x)
    <2> HIDE DEF e, w, x
    <2> QED BY <1>0, <1>19, <1>21
  <1> HIDE DEF e, w, x
  <1>24. 2 * m * x <= f + m
    BY <1>0, <1>20, <1>22, <1>23
  <1> QED BY <1>24 DEF x

-----------------------------------------------------------------------------
(***************************************************************************)
(* The mount's inductive invariant.                                        *)
(***************************************************************************)
\* How long the runtime's GoTo has been going on, and where that puts the axis.
Since == (now - runtime.started) % ClockModulus

Progress(r, e) ==
  normalizePosition(r.start + Quotient(signedModularDelta(r.start, r.target) * e, goto_duration))

OnTheWay ==
  runtime.goto_active => Since < goto_duration /\ position = Progress(runtime, Since)

\* When no two frames come between two ticks the runtime has heard of every
\* end of a job before the next one begins.
Agrees ==
  burst = 1 /\ runtime.goto_active =>
    /\ goto_state = "Active" => runtime.target = goto_target
    /\ goto_state # "Active" => frames = 1

\* What the last answer promised holds until the next frame.
Kept ==
  /\ reply = "stop_accepted" => goto_state # "Active" /\ ~moving
  /\ reply = "manual_accepted" => goto_state # "Active" /\ moving

IInv == TypeOK /\ OnTheWay /\ Agrees /\ Kept

-----------------------------------------------------------------------------
\* The constants, as the proofs use them.
LEMMA Constants ==
  /\ kPositionModulus \in Positive /\ goto_duration \in Positive /\ ClockModulus \in Positive
  /\ kPositionModulus \in Int /\ goto_duration \in Int /\ ClockModulus \in Int
  /\ MaxStep \in Positive /\ MaxFrames \in Positive
  /\ ClockModulus > goto_duration + MaxStep
  BY ModulusAssumption, ClockAssumption DEF Positive

\* The firmware's conversion yields an integer.
LEMMA QuotientType ==
  ASSUME NEW x \in Int, NEW n \in Positive
  PROVE  Quotient(x, n) \in Int
  <1>1. CASE x >= 0
    BY <1>1, QuotientIsDiv, DivMod
  <1>2. CASE x < 0
    <2>1. -x \in Int /\ (-x) \div n \in Int
      BY DivMod
    <2> QED BY <1>2, <2>1, QuotientIsDiv
  <1> QED BY <1>1, <1>2

\* The short way from one position to another.
LEMMA ShortWay ==
  ASSUME NEW a \in Positions, NEW b \in Positions
  PROVE  LET d == signedModularDelta(a, b)
         IN  /\ d \in Int /\ 2 * d <= kPositionModulus /\ -kPositionModulus <= 2 * d
             /\ \E k \in Int : b = a + d + k * kPositionModulus
  <1> DEFINE m == kPositionModulus
             h == m \div 2
             d == signedModularDelta(a, b)
  <1>1. h \in Nat /\ 2 * h <= m /\ m <= 2 * h + 1 /\ m \in Int /\ m >= 1
    BY Constants DEF Positive
  <1>2. a \in Int /\ b \in Int /\ b - a < m /\ a - b < m
    BY <1>1 DEF Positions
  <1>3. d = IF b - a > h THEN b - a - m ELSE IF b - a < -h THEN b - a + m ELSE b - a
    BY DEF signedModularDelta
  <1> HIDE DEF h, d
  <1>4. CASE b - a > h
    <2>1. b = a + d + 1 * m /\ d = b - a - m
      BY <1>1, <1>2, <1>3, <1>4
    <2> QED BY <2>1, <1>1, <1>2, <1>4 DEF d
  <1>5. CASE b - a < -h
    <2>1. b = a + d + (-1) * m /\ d = b - a + m /\ -1 \in Int
      BY <1>1, <1>2, <1>3, <1>5
    <2> QED BY <2>1, <1>1, <1>2, <1>5 DEF d
  <1>6. CASE ~(b - a > h) /\ ~(b - a < -h)
    <2>1. b = a + d + 0 * m /\ d = b - a
      BY <1>1, <1>2, <1>3, <1>6
    <2> QED BY <2>1, <1>1, <1>2, <1>6 DEF d
  <1> QED BY <1>4, <1>5, <1>6

\* A way of at most half a turn is the distance it bridges.
LEMMA ApartIs ==
  ASSUME NEW p \in Int, NEW q \in Int, NEW x \in Int, NEW k \in Int,
         p - q = x + k * kPositionModulus,
         2 * x <= kPositionModulus, -kPositionModulus <= 2 * x
  PROVE  Apart(p, q) = IF x < 0 THEN -x ELSE x
  <1> DEFINE m == kPositionModulus
             ahead == (p - q) % m
             behind == (q - p) % m
  <1>1. m \in Positive /\ m \in Int /\ m >= 1
    BY Constants DEF Positive
  <1>2. q - p = -x + (-k) * m /\ -x \in Int /\ -k \in Int
    BY <1>1
  <1>3. ahead = x % m /\ behind = (-x) % m
    <2>1. (x + k * m) % m = x % m
      BY <1>1, ModShift
    <2>2. (-x + (-k) * m) % m = (-x) % m
      BY <1>1, <1>2, ModShift
    <2> QED BY <2>1, <2>2, <1>2
  <1>4. ASSUME NEW y \in 1 .. m, 2 * y <= m
        PROVE  y % m = y /\ (-y) % m = m - y
    <2>1. y = m * 0 + y /\ y \in 0 .. m - 1 /\ y \in Int
      BY <1>1, <1>4
    <2>2. -y = m * (-1) + (m - y) /\ m - y \in 0 .. m - 1 /\ -y \in Int /\ -1 \in Int
      BY <1>1, <1>4
    <2> QED BY <2>1, <2>2, <1>1, ModUnique
  <1>5. 0 % m = 0
    <2>1. 0 = m * 0 + 0 /\ 0 \in 0 .. m - 1 /\ 0 \in Int
      BY <1>1
    <2> QED BY <2>1, <1>1, ModUnique
  <1> HIDE DEF m, ahead, behind
  <1>6. Apart(p, q) = IF ahead < behind THEN ahead ELSE behind
    BY DEF Apart, ahead, behind, m
  <1>7. CASE x = 0
    BY <1>3, <1>5, <1>6, <1>7
  <1>8. CASE x > 0
    <2>1. x \in 1 .. m /\ 2 * x <= m
      BY <1>1, <1>8 DEF m
    <2>2. ahead = x /\ behind = m - x
      BY <2>1, <1>3, <1>4
    <2> QED BY <2>1, <2>2, <1>1, <1>6, <1>8
  <1>9. CASE x < 0
    <2>1. -x \in 1 .. m /\ 2 * (-x) <= m
      BY <1>1, <1>9 DEF m
    <2>2. behind = -x /\ ahead = m - (-x)
      <3>1. -(-x) = x
        OBVIOUS
      <3> QED BY <2>1, <3>1, <1>3, <1>4
    <2> QED BY <2>1, <2>2, <1>1, <1>6, <1>9
  <1> QED BY <1>7, <1>8, <1>9

\* The part of a way that is done grows with the time and stays within it.
LEMMA PartGrows ==
  ASSUME NEW d \in Int, NEW n \in Positive, NEW e1 \in Nat, NEW e2 \in Nat, e1 <= e2, e2 <= n
  PROVE  LET f1 == Quotient(d * e1, n)
             f2 == Quotient(d * e2, n)
         IN  IF d >= 0 THEN 0 <= f1 /\ f1 <= f2 /\ f2 <= d
                       ELSE d <= f2 /\ f2 <= f1 /\ f1 <= 0
  <1>1. ASSUME NEW a \in Nat
        PROVE  /\ 0 <= (a * e1) \div n /\ (a * e1) \div n <= (a * e2) \div n
               /\ (a * e2) \div n <= a /\ a * e1 \in Nat /\ a * e2 \in Nat
    <2>1. /\ a * e1 \in Nat /\ a * e2 \in Nat /\ a * n \in Nat
          /\ a * e1 <= a * e2 /\ a * e2 <= a * n
      BY DEF Positive
    <2>2. ASSUME NEW x \in Nat, NEW y \in Nat, x <= y
          PROVE  x \div n <= y \div n
      BY <2>2 DEF Positive
    <2>3. a * n = n * a + 0 /\ 0 \in 0 .. n - 1
      BY DEF Positive
    <2>4. (a * n) \div n = a
      BY <2>1, <2>3, ModUnique
    <2>5. 0 = n * 0 + 0
      BY DEF Positive
    <2>6. 0 \div n = 0
      BY <2>3, <2>5, ModUnique
    <2> QED BY <2>1, <2>2, <2>4, <2>6
  <1>2. CASE d >= 0
    <2>1. d * e1 \in Int /\ d * e2 \in Int /\ d * e1 >= 0 /\ d * e2 >= 0 /\ d \in Nat
      BY <1>1, <1>2
    <2>2. Quotient(d * e1, n) = (d * e1) \div n /\ Quotient(d * e2, n) = (d * e2) \div n
      BY <2>1, QuotientIsDiv
    <2> QED BY <1>1, <1>2, <2>1, <2>2
  <1>3. CASE d < 0
    <2> DEFINE a == -d
    <2>1. a \in Nat /\ d * e1 = -(a * e1) /\ d * e2 = -(a * e2)
      BY <1>3
    <2> HIDE DEF a
    <2>2. ASSUME NEW x \in Nat
          PROVE  Quotient(-x, n) = -(x \div n) /\ x \div n \in Int
      <3>1. x = 0 => x \div n = 0 /\ Quotient(-x, n) = 0
        <4>1. 0 \div n = 0
          <5>1. 0 = n * 0 + 0 /\ 0 \in 0 .. n - 1
            BY DEF Positive
          <5> QED BY <5>1, ModUnique
        <4> QED BY <4>1 DEF Quotient
      <3>2. x # 0 => Quotient(-x, n) = -(x \div n)
        BY QuotientIsDiv
      <3>3. x \div n \in Int
        BY DivMod
      <3> QED BY <3>1, <3>2, <3>3
    <2>3. /\ Quotient(d * e1, n) = -((a * e1) \div n) /\ (a * e1) \div n \in Int
          /\ Quotient(d * e2, n) = -((a * e2) \div n) /\ (a * e2) \div n \in Int
      BY <1>1, <2>1, <2>2
    <2>4. d = -a
      BY DEF a
    <2> DEFINE u == (a * e1) \div n
               v == (a * e2) \div n
    <2>5. u \in Int /\ v \in Int /\ 0 <= u /\ u <= v /\ v <= a
      BY <1>1, <2>1, <2>3
    <2>6. Quotient(d * e1, n) = -u /\ Quotient(d * e2, n) = -v
      BY <2>3
    <2> HIDE DEF u, v
    <2>7. -a <= -v /\ -v <= -u /\ -u <= 0
      BY <2>1, <2>5
    <2> QED BY <1>3, <2>4, <2>6, <2>7
  <1> QED BY <1>2, <1>3

\* A GoTo that has gone on for longer is no further from its target.
LEMMA Closer ==
  ASSUME NEW r \in AxisRuntime, NEW e1 \in Nat, NEW e2 \in Nat, e1 <= e2, e2 <= goto_duration
  PROVE  Apart(Progress(r, e2), r.target) <= Apart(Progress(r, e1), r.target)
  <1> DEFINE m == kPositionModulus
             d == signedModularDelta(r.start, r.target)
             f(e) == Quotient(d * e, goto_duration)
             left(e) == IF d - f(e) < 0 THEN d - f(e) ELSE f(e) - d
  <1>0. /\ m \in Positive /\ m \in Int /\ goto_duration \in Positive
        /\ r.start \in Positions /\ r.target \in Positions
        /\ r.start \in Int /\ r.target \in Int
    BY Constants DEF AxisRuntime, Positions
  <1>1. d \in Int /\ 2 * d <= m /\ -m <= 2 * d
    BY <1>0, ShortWay
  <1>2. PICK k \in Int : r.target = r.start + d + k * m
    BY <1>0, ShortWay
  <1> HIDE DEF d
  <1>3. IF d >= 0 THEN 0 <= f(e1) /\ f(e1) <= f(e2) /\ f(e2) <= d
                  ELSE d <= f(e2) /\ f(e2) <= f(e1) /\ f(e1) <= 0
    BY <1>0, <1>1, PartGrows
  <1>4. f(e1) \in Int /\ f(e2) \in Int
    <2>1. d * e1 \in Int /\ d * e2 \in Int
      BY <1>1
    <2> QED BY <2>1, <1>0, QuotientType
  <1> HIDE DEF f
  <1>5. ASSUME NEW e \in {e1, e2}
        PROVE  Apart(Progress(r, e), r.target) = IF f(e) - d < 0 THEN -(f(e) - d) ELSE f(e) - d
    <2>1. Progress(r, e) = (r.start + f(e)) % m
      BY DEF Progress, normalizePosition, f, d
    <2>2. f(e) \in Int /\ r.start + f(e) \in Int
      BY <1>0, <1>4
    <2>3. PICK j \in Int : Progress(r, e) = r.start + f(e) + j * m
      BY <2>1, <2>2, <1>0, ModTurns
    <2>4. /\ Progress(r, e) - r.target = (f(e) - d) + (j - k) * m
          /\ Progress(r, e) \in Int /\ j - k \in Int /\ f(e) - d \in Int
      BY <1>0, <1>1, <1>2, <2>2, <2>3
    <2>5. 2 * (f(e) - d) <= m /\ -m <= 2 * (f(e) - d)
      BY <1>0, <1>1, <1>3, <1>4
    <2> DEFINE x == f(e) - d
               p == Progress(r, e)
    <2>6. /\ p \in Int /\ r.target \in Int /\ x \in Int /\ j - k \in Int
          /\ p - r.target = x + (j - k) * kPositionModulus
          /\ 2 * x <= kPositionModulus /\ -kPositionModulus <= 2 * x
      BY <2>4, <2>5, <1>0
    <2> HIDE DEF x, p
    <2>7. Apart(p, r.target) = IF x < 0 THEN -x ELSE x
      BY <2>6, ApartIs
    <2> QED BY <2>7 DEF x, p
  <1>6. /\ Apart(Progress(r, e1), r.target) = IF f(e1) - d < 0 THEN -(f(e1) - d) ELSE f(e1) - d
        /\ Apart(Progress(r, e2), r.target) = IF f(e2) - d < 0 THEN -(f(e2) - d) ELSE f(e2) - d
    BY <1>5
  <1> QED BY <1>1, <1>3, <1>4, <1>6

\* The clock's wrap does not upset the time of a GoTo, as a tick comes before it
\* can come round.
LEMMA TimePasses ==
  ASSUME TypeOK, Since < goto_duration, NEW d \in 1 .. MaxStep, now' = (now + d) % ClockModulus
  PROVE  /\ Elapsed(d) = Since + d /\ Since \in Nat
         /\ (now' - runtime.started) % ClockModulus = Elapsed(d)
  <1> DEFINE m == ClockModulus
             x == now - runtime.started
             y == now + d - runtime.started
  <1>0. /\ m \in Positive /\ m \in Int /\ d \in Int /\ d >= 1 /\ d <= MaxStep /\ MaxStep \in Int
        /\ now \in Int /\ runtime.started \in Int /\ goto_duration \in Int
        /\ m > goto_duration + MaxStep /\ x \in Int /\ y \in Int
    BY Constants DEF TypeOK, AxisRuntime, Positive
  <1>1. PICK k \in Int : Since = x + k * m
    BY <1>0, ModTurns DEF Since
  <1>2. Since \in 0 .. m - 1
    BY <1>0, DivMod DEF Since
  <1>3. y = m * (-k) + (Since + d) /\ Since + d \in 0 .. m - 1 /\ -k \in Int
    BY <1>0, <1>1, <1>2
  <1>4. Elapsed(d) = Since + d
    <2>1. y % m = Since + d
      BY <1>0, <1>3, ModUnique
    <2> QED BY <2>1 DEF Elapsed
  <1>5. PICK j \in Int : now' = now + d + j * m
    <2>1. now + d \in Int
      BY <1>0
    <2> QED BY <2>1, <1>0, ModTurns
  <1>6. now' - runtime.started = y + j * m
    BY <1>0, <1>5
  <1>7. (y + j * m) % m = y % m
    BY <1>0, ModShift
  <1> QED BY <1>2, <1>4, <1>6, <1>7 DEF Elapsed

\* A GoTo that starts is where it starts.
LEMMA NothingElapsed ==
  ASSUME NEW r \in AxisRuntime
  PROVE  Progress(r, 0) = r.start /\ (r.started - r.started) % ClockModulus = 0
  <1>0. /\ r.start \in 0 .. kPositionModulus - 1 /\ r.start \in Int /\ r.target \in Positions
        /\ r.started \in Int /\ kPositionModulus \in Positive /\ goto_duration \in Positive
        /\ ClockModulus \in Positive /\ kPositionModulus \in Int /\ ClockModulus \in Int
        /\ goto_duration \in Int
    BY Constants DEF AxisRuntime, Positions
  <1>1. ASSUME NEW n \in Positive  PROVE 0 \div n = 0 /\ 0 % n = 0
    <2>1. 0 = n * 0 + 0 /\ 0 \in 0 .. n - 1
      BY DEF Positive
    <2> QED BY <2>1, ModUnique
  <1>2. signedModularDelta(r.start, r.target) * 0 = 0
    <2>1. signedModularDelta(r.start, r.target) \in Int
      BY <1>0, ShortWay DEF Positions
    <2> QED BY <2>1
  <1>3. Quotient(0, goto_duration) = 0
    BY <1>0, <1>1 DEF Quotient
  <1>4. r.start % kPositionModulus = r.start
    <2>1. r.start = kPositionModulus * 0 + r.start
      BY <1>0
    <2> QED BY <2>1, <1>0, ModUnique
  <1>5. Progress(r, 0) = r.start
    <2>1. r.start + 0 = r.start
      BY <1>0
    <2> QED BY <2>1, <1>2, <1>3, <1>4 DEF Progress, normalizePosition
  <1>6. r.started - r.started = 0
    BY <1>0
  <1> QED BY <1>0, <1>1, <1>5, <1>6

-----------------------------------------------------------------------------
\* Init establishes the inductive invariant.
LEMMA InitIInv == Init => IInv
  <1> SUFFICES ASSUME Init PROVE IInv
    OBVIOUS
  <1>1. TypeOK
    <2>1. runtime \in AxisRuntime
      BY Constants DEF Init, AxisRuntime, Positions, Positive
    <2>2. goto_target \in Positions /\ position \in Positions /\ now \in 0 .. ClockModulus - 1
      BY Constants, PositionAssumption DEF Init, Positions, Positive
    <2>3. burst \in 1 .. MaxFrames /\ frames \in 0 .. burst
      BY Constants DEF Init, Positive
    <2>4. /\ goto_state \in GotoState /\ direction \in {Plus, Minus, NoDir}
          /\ speed \in Speeds \cup {0, Medium} /\ moving \in BOOLEAN
      BY DEF Init, GotoState
    <2> QED BY <2>1, <2>2, <2>3, <2>4 DEF Init, TypeOK
  <1>2. OnTheWay /\ Agrees /\ Kept
    BY DEF Init, OnTheWay, Agrees, Kept
  <1> QED BY <1>1, <1>2 DEF IInv

\* Where the backend drifts to, and where a GoTo has got to, are positions.
LEMMA PositionTypes ==
  ASSUME TypeOK
  PROVE  /\ \A x \in Int : normalizePosition(x) \in Positions
         /\ \A d \in 1 .. MaxStep : Drifted(d) \in Positions
         /\ \A e \in Int : Progress(runtime, e) \in Positions
  <1>0. /\ kPositionModulus \in Positive /\ goto_duration \in Positive
        /\ position \in Int /\ position \in Positions /\ direction \in Int /\ speed \in Int
        /\ runtime.start \in Positions /\ runtime.target \in Positions /\ runtime.start \in Int
    BY Constants, SpeedAssumption DEF TypeOK, Positions, AxisRuntime, Plus, Minus, NoDir
  <1>1. \A x \in Int : normalizePosition(x) \in Positions
    BY <1>0, DivMod DEF normalizePosition, Positions
  <1>2. ASSUME NEW d \in 1 .. MaxStep  PROVE Drifted(d) \in Positions
    <2>1. position + direction * speed * d \in Int
      BY <1>0, Constants DEF Positive
    <2> QED BY <2>1, <1>0, <1>1 DEF Drifted
  <1>3. ASSUME NEW e \in Int  PROVE Progress(runtime, e) \in Positions
    <2>1. signedModularDelta(runtime.start, runtime.target) * e \in Int
      <3>1. signedModularDelta(runtime.start, runtime.target) \in Int
        BY <1>0, ShortWay
      <3> QED BY <3>1
    <2>2. runtime.start
            + Quotient(signedModularDelta(runtime.start, runtime.target) * e, goto_duration) \in Int
      BY <2>1, <1>0, QuotientType
    <2> QED BY <2>2, <1>1 DEF Progress
  <1> QED BY <1>1, <1>2, <1>3

\* Every tick moves the clock on and nothing else that a frame left.
LEMMA TimeTypes ==
  ASSUME TypeOK, NEW d \in 1 .. MaxStep, Time(d)
  PROVE  /\ now' \in 0 .. ClockModulus - 1 /\ now' = (now + d) % ClockModulus
         /\ frames' = 0 /\ goto_target' = goto_target /\ reply' = reply /\ burst' = burst
         /\ frames' \in 0 .. burst'
  <1>1. now + d \in Int /\ ClockModulus \in Positive
    BY Constants DEF TypeOK, Positive
  <1>2. (now + d) % ClockModulus \in 0 .. ClockModulus - 1
    BY <1>1, DivMod
  <1> QED BY <1>2, Constants DEF Time, TypeOK, Positive

\* Without a job the runtime forgets its GoTo, and the backend drifts.
LEMMA IdleStep ==
  ASSUME IInv, NEW d \in 1 .. MaxStep, TickIdle(d)
  PROVE  IInv'
  <1>0. /\ TypeOK /\ Time(d) /\ goto_state # "Active" /\ Kept
        /\ runtime' = [runtime EXCEPT !.goto_active = FALSE] /\ position' = Drifted(d)
        /\ goto_state' = goto_state /\ moving' = moving /\ direction' = direction /\ speed' = speed
    BY DEF IInv, TickIdle, Driving
  <1>1. /\ now' \in 0 .. ClockModulus - 1 /\ frames' \in 0 .. burst' /\ goto_target' = goto_target
        /\ reply' = reply /\ burst' = burst
    BY <1>0, TimeTypes
  <1>2. /\ runtime' \in AxisRuntime /\ runtime'.goto_active = FALSE /\ position' \in Positions
    BY <1>0, PositionTypes DEF TypeOK, AxisRuntime
  <1>3. TypeOK'
    BY <1>0, <1>1, <1>2 DEF TypeOK
  <1>4. OnTheWay' /\ Agrees' /\ Kept'
    BY <1>0, <1>1, <1>2 DEF OnTheWay, Agrees, Kept
  <1> QED BY <1>3, <1>4 DEF IInv

\* The first tick of a job takes down where the axis is and where it is to go.
LEMMA StartsStep ==
  ASSUME IInv, NEW d \in 1 .. MaxStep, TickStarts(d)
  PROVE  IInv'
  <1>0. /\ TypeOK /\ Time(d) /\ goto_state = "Active" /\ Kept
        /\ runtime' = [goto_active |-> TRUE, started |-> now', start |-> position',
                       target |-> goto_target]
        /\ position' = Drifted(d) /\ moving' = TRUE /\ speed' = Medium
        /\ direction' \in {Plus, Minus} /\ goto_state' = goto_state
    BY DEF IInv, TickStarts, Driving
  <1>1. /\ now' \in 0 .. ClockModulus - 1 /\ frames' \in 0 .. burst' /\ goto_target' = goto_target
        /\ reply' = reply /\ burst' = burst
    BY <1>0, TimeTypes
  <1>2. position' \in Positions
    BY <1>0, PositionTypes
  <1>3. runtime' \in AxisRuntime
    BY <1>0, <1>1, <1>2 DEF TypeOK, AxisRuntime
  <1>4. TypeOK'
    BY <1>0, <1>1, <1>2, <1>3 DEF TypeOK
  <1>5. OnTheWay'
    <2>1. Progress(runtime', 0) = runtime'.start
      BY <1>3, NothingElapsed
    <2>2. (runtime'.started - runtime'.started) % ClockModulus = 0
      BY <1>3, NothingElapsed
    <2>3. Since' = 0 /\ position' = runtime'.start
      BY <2>2, <1>0 DEF Since
    <2>4. 0 < goto_duration
      BY Constants DEF Positive
    <2> QED BY <2>1, <2>3, <2>4 DEF OnTheWay, Progress, normalizePosition
  <1>6. Agrees' /\ Kept'
    BY <1>0, <1>1 DEF Agrees, Kept
  <1> QED BY <1>4, <1>5, <1>6 DEF IInv

\* The ticks after that put it on its way.
LEMMA TravelsStep ==
  ASSUME IInv, NEW d \in 1 .. MaxStep, TickTravels(d)
  PROVE  IInv'
  <1>0. /\ TypeOK /\ Time(d) /\ goto_state = "Active" /\ runtime.goto_active
        /\ OnTheWay /\ Agrees /\ Kept
        /\ Elapsed(d) < goto_duration /\ position' = Progress(runtime, Elapsed(d))
        /\ runtime' = runtime /\ goto_state' = goto_state
        /\ moving' = moving /\ direction' = direction /\ speed' = speed
    BY DEF IInv, TickTravels, Driving, Progress
  <1>1. /\ now' \in 0 .. ClockModulus - 1 /\ frames' \in 0 .. burst' /\ goto_target' = goto_target
        /\ reply' = reply /\ burst' = burst /\ now' = (now + d) % ClockModulus
    BY <1>0, TimeTypes
  <1>2. /\ Elapsed(d) \in Int /\ Since' = Elapsed(d)
    <2>1. Since < goto_duration
      BY <1>0 DEF OnTheWay
    <2> QED BY <2>1, <1>0, <1>1, TimePasses DEF Since
  <1>3. position' \in Positions
    BY <1>0, <1>2, PositionTypes
  <1>4. TypeOK'
    BY <1>0, <1>1, <1>3 DEF TypeOK
  <1>5. OnTheWay'
    BY <1>0, <1>2 DEF OnTheWay, Progress, normalizePosition
  <1>6. Agrees' /\ Kept'
    BY <1>0, <1>1 DEF Agrees, Kept
  <1> QED BY <1>4, <1>5, <1>6 DEF IInv

\* The last one puts it at the target and ends the job.
LEMMA CompletesStep ==
  ASSUME IInv, NEW d \in 1 .. MaxStep, TickCompletes(d)
  PROVE  IInv'
  <1>0. /\ TypeOK /\ Time(d) /\ goto_state = "Active" /\ Kept
        /\ runtime' = [runtime EXCEPT !.goto_active = FALSE] /\ position' = runtime.target
        /\ goto_state' = "Completed" /\ moving' = FALSE
        /\ direction' = direction /\ speed' = speed
    BY DEF IInv, TickCompletes, Driving
  <1>1. /\ now' \in 0 .. ClockModulus - 1 /\ frames' \in 0 .. burst' /\ goto_target' = goto_target
        /\ reply' = reply /\ burst' = burst
    BY <1>0, TimeTypes
  <1>2. /\ runtime' \in AxisRuntime /\ runtime'.goto_active = FALSE /\ position' \in Positions
    BY <1>0 DEF TypeOK, AxisRuntime
  <1>3. TypeOK'
    BY <1>0, <1>1, <1>2 DEF TypeOK, GotoState
  <1>4. OnTheWay' /\ Agrees' /\ Kept'
    BY <1>0, <1>1, <1>2 DEF OnTheWay, Agrees, Kept
  <1> QED BY <1>3, <1>4 DEF IInv

\* A frame moves neither the axis nor the clock, and the runtime hears of it at
\* the next tick only.
LEMMA DispatchStep ==
  ASSUME IInv, Dispatch
  PROVE  IInv'
  <1>0. /\ TypeOK /\ OnTheWay /\ Agrees /\ Kept
        /\ now' = now /\ runtime' = runtime /\ burst' = burst /\ position' = position
        /\ frames < burst /\ frames' = frames + 1
    BY DEF IInv, Dispatch, Stop, Manual, Goto, GetPosition, SlewDone, Refused, Handles, core, backend
  <1>1. frames' \in 0 .. burst' /\ (burst = 1 => frames' = 1 /\ frames = 0)
    BY <1>0, Constants DEF TypeOK, Positive
  <1>2. OnTheWay'
    BY <1>0 DEF OnTheWay, Since, Progress, normalizePosition
  <1>3. CASE Stop
    <2>1. /\ reply' = "stop_accepted" /\ goto_state' \in GotoState \ {"Active"} /\ moving' = FALSE
          /\ goto_target' = goto_target /\ direction' = direction /\ speed' = speed
      BY <1>0, <1>3 DEF Stop, Handles, Cancelled, TypeOK, GotoState
    <2> QED BY <1>0, <1>1, <1>2, <2>1 DEF IInv, TypeOK, Agrees, Kept
  <1>4. ASSUME NEW d \in {Plus, Minus}, NEW s \in Speeds, Manual(d, s)  PROVE IInv'
    <2>1. /\ reply' = "manual_accepted" /\ goto_state' \in GotoState \ {"Active"} /\ moving' = TRUE
          /\ goto_target' = goto_target /\ direction' = d /\ speed' = s
      BY <1>0, <1>4 DEF Manual, Handles, Cancelled, TypeOK, GotoState
    <2> QED BY <1>0, <1>1, <1>2, <2>1 DEF IInv, TypeOK, Agrees, Kept
  <1>5. ASSUME NEW aux \in Targets, Goto(aux)  PROVE IInv'
    <2>1. /\ reply' = "goto_started" /\ goto_state # "Active" /\ goto_state' = "Active"
          /\ goto_target' = fromAux(AxisConfig, aux) /\ fromAux(AxisConfig, aux) # Unavailable
          /\ moving' = moving /\ direction' = direction /\ speed' = speed
      BY <1>5 DEF Goto, Handles, backend
    <2>2. goto_target' \in Positions
      <3>1. /\ aux \in 0 .. AuxFullTurn - 1 /\ AxisConfig \in AxisCoordinateConfig(kPositionModulus)
            /\ kPositionModulus \in Positive
        BY PositionAssumption, ConfigAssumption, Constants
      <3>2. fromAux(AxisConfig, aux) = from_aux(AxisConfig, aux)
        BY <3>1, DecodesAlike
      <3> QED BY <2>1, <3>1, <3>2, DecodesToPosition DEF Positions
    <2>3. burst = 1 => ~runtime.goto_active
      BY <1>0, <1>1, <2>1 DEF Agrees
    <2> QED BY <1>0, <1>1, <1>2, <2>1, <2>2, <2>3 DEF IInv, TypeOK, Agrees, Kept, GotoState
  <1>6. CASE GetPosition \/ SlewDone \/ Refused
    <2>1. /\ reply' \in {"other", "slew_active", "slew_done", "slew_unanswered"}
          /\ goto_state' = goto_state /\ goto_target' = goto_target
          /\ moving' = moving /\ direction' = direction /\ speed' = speed
      BY <1>6 DEF GetPosition, SlewDone, Refused, Handles, core, backend
    <2>2. Agrees'
      BY <1>0, <1>1, <2>1 DEF Agrees
    <2>3. Kept'
      BY <2>1 DEF Kept
    <2>4. TypeOK'
      BY <1>0, <1>1, <2>1 DEF TypeOK
    <2> QED BY <1>2, <2>2, <2>3, <2>4 DEF IInv
  <1> QED BY <1>3, <1>4, <1>5, <1>6 DEF Dispatch

\* The invariant holds of every behaviour.
LEMMA Inductive == Spec => []IInv
  <1>1. IInv /\ [Next]_vars => IInv'
    <2>1. IInv /\ UNCHANGED vars => IInv'
      BY DEF vars, core, backend, IInv, TypeOK, OnTheWay, Since, Progress, normalizePosition,
         Agrees, Kept
    <2> QED BY <2>1, IdleStep, StartsStep, TravelsStep, CompletesStep, DispatchStep
        DEF Next, Tick
  <1> QED BY <1>1, InitIInv, PTL DEF Spec

-----------------------------------------------------------------------------
\* The types hold, whatever the clock and the positions wrap at.
THEOREM TypeCorrect == Spec => []TypeOK
  <1>1. IInv => TypeOK
    BY DEF IInv
  <1> QED BY <1>1, Inductive, PTL

\* Wherever the axis stands, the two adapters convert its position alike, it
\* comes back as itself, and every target is met as closely as can be.
THEOREM CoordinatesAlwaysHold == Spec => []CoordinatesHold
  <1>1. ASSUME TypeOK  PROVE CoordinatesHold
    <2>1. position \in Positions /\ position \in Int /\ kPositionModulus \in Positive
          /\ kPositionModulus < AuxFullTurn
      BY <1>1, Constants, ScaleAssumption DEF TypeOK, Positions
    <2>2. ASSUME NEW c \in AuxConfigs, NEW aux \in 0 .. AuxFullTurn - 1
          PROVE  SameAsPython(c, position) /\ ComesBack(c, position) /\ MeetsTarget(c, aux)
      <3>1. c \in AxisCoordinateConfig(kPositionModulus)
        BY ConfigAssumption
      <3> QED BY <2>1, <3>1, AdaptersAgree, PositionsComeBack, TargetsAreMet DEF Positions
    <2>3. 0 \in 0 .. AuxFullTurn - 1
      BY TurnAssumption
    <2> QED BY <2>1, <2>2, <2>3 DEF CoordinatesHold, ConvertedRight
  <1> QED BY <1>1, TypeCorrect, PTL

\* A GoTo that completes has the axis at rest on its own target, as long as no
\* two frames come between two ticks.
THEOREM CompletesAtTarget == Spec => CompletedAtTargetOneByOne
  <1> DEFINE AtTarget == Completes /\ burst = 1 => position' = goto_target /\ ~moving'
  <1>1. ASSUME IInv, [Next]_vars  PROVE AtTarget
    <2> SUFFICES ASSUME goto_state = "Active", goto_state' = "Completed", burst = 1
                 PROVE  position' = goto_target /\ ~moving'
      BY DEF Completes
    <2>1. ~Dispatch /\ ~(UNCHANGED vars)
      BY DEF Dispatch, Stop, Manual, Goto, GetPosition, SlewDone, Refused, core, vars, Cancelled
    <2>2. PICK d \in 1 .. MaxStep : TickCompletes(d)
      BY <1>1, <2>1 DEF Next, Tick, TickIdle, TickStarts, TickTravels
    <2>3. position' = runtime.target /\ ~moving' /\ runtime.goto_active
      BY <2>2 DEF TickCompletes
    <2> QED BY <1>1, <2>3 DEF IInv, Agrees
  <1>2. IInv /\ [Next]_vars => [AtTarget]_vars
    BY <1>1
  <1> HIDE DEF AtTarget
  <1>3. Spec => [][AtTarget]_vars
    BY <1>2, Inductive, PTL DEF Spec
  <1> QED BY <1>3, PTL DEF CompletedAtTargetOneByOne, AtTarget

\* What a frame was answered is what the axis does until the next one.
THEOREM FramesAreObeyed == Spec => ObeysFrames
  <1> DEFINE Stays ==
        reply = "stop_accepted" \/ (goto_state # "Active" /\ ~moving) => position' = position
             Moves ==
        reply = "manual_accepted" /\ Ticks =>
          \E d \in 1 .. MaxStep :
            position' = (position + direction * speed * d) % kPositionModulus
  <1>1. ASSUME [Next]_vars
        PROVE  \/ position' = position /\ ~Ticks
               \/ goto_state = "Active"
               \/ \E d \in 1 .. MaxStep : TickIdle(d)
    <2>1. Dispatch \/ UNCHANGED vars => position' = position /\ ~Ticks
      BY DEF Dispatch, Stop, Manual, Goto, GetPosition, SlewDone, Refused, Handles, backend, vars,
         Ticks
    <2> QED BY <1>1, <2>1 DEF Next, Tick, TickStarts, TickTravels, TickCompletes, Driving
  <1>2. ASSUME IInv, [Next]_vars  PROVE Stays /\ Moves
    <2>1. CASE position' = position /\ ~Ticks
      BY <2>1
    <2>2. CASE goto_state = "Active"
      BY <1>2, <2>2 DEF IInv, Kept
    <2>3. ASSUME NEW d \in 1 .. MaxStep, TickIdle(d)  PROVE Stays /\ Moves
      <3>1. position' = IF moving THEN (position + direction * speed * d) % kPositionModulus
                                  ELSE position
        BY <2>3 DEF TickIdle, Drifted, normalizePosition
      <3> QED BY <1>2, <3>1 DEF IInv, Kept
    <2> QED BY <1>1, <1>2, <2>1, <2>2, <2>3
  <1>3. IInv /\ [Next]_vars => [Stays]_vars /\ [Moves]_vars
    BY <1>2
  <1> HIDE DEF Stays, Moves
  <1>4. Spec => [][Stays]_vars /\ [][Moves]_vars
    BY <1>3, Inductive, PTL DEF Spec
  <1> QED BY <1>4, PTL DEF ObeysFrames, StoppedStays, ManualMoves, Stays, Moves

\* A GoTo never takes the axis further from its target.
THEOREM NeverFurther == Spec => GotoApproaches
  <1> DEFINE Nearer ==
        runtime.goto_active /\ runtime'.goto_active
          => Apart(position', runtime.target) <= Apart(position, runtime.target)
  <1>1. ASSUME IInv, [Next]_vars  PROVE Nearer
    <2> SUFFICES ASSUME runtime.goto_active, runtime'.goto_active
                 PROVE  Apart(position', runtime.target) <= Apart(position, runtime.target)
      OBVIOUS
    <2>1. CASE position' = position
      <3>1. Apart(position, runtime.target) \in Int
        <4>1. position \in Int /\ runtime.target \in Int /\ kPositionModulus \in Positive
          BY <1>1, Constants DEF IInv, TypeOK, AxisRuntime, Positions
        <4>2. position - runtime.target \in Int /\ runtime.target - position \in Int
          BY <4>1
        <4> QED BY <4>1, <4>2, DivMod DEF Apart
      <3> QED BY <2>1, <3>1
    <2>2. ASSUME NEW d \in 1 .. MaxStep, TickTravels(d)
          PROVE  Apart(position', runtime.target) <= Apart(position, runtime.target)
      <3>1. /\ Elapsed(d) < goto_duration /\ position' = Progress(runtime, Elapsed(d))
            /\ now' = (now + d) % ClockModulus
        BY <2>2 DEF TickTravels, Progress, Time
      <3>2. Since < goto_duration /\ position = Progress(runtime, Since)
        BY <1>1 DEF IInv, OnTheWay
      <3>3. Elapsed(d) = Since + d /\ Since \in Nat
        BY <1>1, <3>1, <3>2, TimePasses DEF IInv
      <3>4. /\ runtime \in AxisRuntime /\ Elapsed(d) \in Nat /\ Since <= Elapsed(d)
            /\ Elapsed(d) <= goto_duration
        BY <1>1, <3>1, <3>3, Constants DEF IInv, TypeOK
      <3> QED BY <3>1, <3>2, <3>3, <3>4, Closer
    <2>3. Dispatch \/ UNCHANGED vars => position' = position
      BY DEF Dispatch, Stop, Manual, Goto, GetPosition, SlewDone, Refused, backend, vars
    <2>4. \A d \in 1 .. MaxStep : ~TickIdle(d) /\ ~TickStarts(d) /\ ~TickCompletes(d)
      BY <1>1 DEF TickIdle, TickStarts, TickCompletes, IInv, TypeOK, AxisRuntime
    <2> QED BY <1>1, <2>1, <2>2, <2>3, <2>4 DEF Next, Tick
  <1>2. IInv /\ [Next]_vars => [Nearer]_vars
    BY <1>1
  <1> HIDE DEF Nearer
  <1>3. Spec => [][Nearer]_vars
    BY <1>2, Inductive, PTL DEF Spec
  <1> QED BY <1>3, PTL DEF GotoApproaches, Nearer
=============================================================================
