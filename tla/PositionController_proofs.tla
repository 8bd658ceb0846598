---------------------- MODULE PositionController_proofs ----------------------
(***************************************************************************)
(* Proofs about PositionController, for every revolution, stage table,     *)
(* tolerance and motor that the assumptions of the module allow.  First    *)
(* what signed_delta and choose_stage promise, then the inductive          *)
(* invariant IInv and the properties that rest on it.                      *)
(***************************************************************************)
EXTENDS PositionController, WellFoundedInduction, NaturalsInduction, TLAPS

-----------------------------------------------------------------------------
(***************************************************************************)
(* Counting on a circle.                                                   *)
(***************************************************************************)
\* A position is its reading and a number of whole turns.
LEMMA Reading ==
  ASSUME NEW a \in Int
  PROVE  /\ a % RAW_MODULO \in Raw
         /\ \E q \in Int : a = (a % RAW_MODULO) + q * RAW_MODULO
<1>1. a % RAW_MODULO \in Raw
  BY ModuloAssumption DEF Raw
<1>2. a \div RAW_MODULO \in Int /\ a = (a % RAW_MODULO) + (a \div RAW_MODULO) * RAW_MODULO
  BY ModuloAssumption
<1> QED
  BY <1>1, <1>2

\* Multiples of the revolution lie at least a revolution apart.
LEMMA Apart ==
  ASSUME NEW k \in Int, k # 0
  PROVE  k * RAW_MODULO >= RAW_MODULO \/ k * RAW_MODULO <= -RAW_MODULO
<1>1. RAW_MODULO \in Int /\ RAW_MODULO > 0
  BY ModuloAssumption
<1>2. CASE k >= 1
  <2>1. (k - 1) * RAW_MODULO >= 0
    BY <1>1, <1>2
  <2> QED
    BY <1>1, <2>1
<1>3. CASE k <= -1
  <2>1. (-1 - k) * RAW_MODULO >= 0
    BY <1>1, <1>3
  <2> QED
    BY <1>1, <2>1
<1> QED
  BY <1>2, <1>3

\* A reading is known by the turns that separate it from a position.
LEMMA ReadingUnique ==
  ASSUME NEW a \in Int, NEW r \in Raw, NEW q \in Int, a = r + q * RAW_MODULO
  PROVE  a % RAW_MODULO = r
<1>1. PICK p \in Int : a = (a % RAW_MODULO) + p * RAW_MODULO
  BY Reading
<1>2. RAW_MODULO \in Int /\ RAW_MODULO > 0 /\ a % RAW_MODULO \in Raw /\ r \in Raw
  BY ModuloAssumption, Reading
<1> DEFINE s == a % RAW_MODULO
           P == p * RAW_MODULO
           Q == q * RAW_MODULO
<1>3. P \in Int /\ Q \in Int /\ s \in 0 .. RAW_MODULO - 1 /\ r \in 0 .. RAW_MODULO - 1
      /\ s + P = r + Q
  BY <1>1, <1>2 DEF Raw
<1>4. CASE p = q
  BY <1>3, <1>4
<1>5. CASE p # q
  <2>1. (p - q) * RAW_MODULO = P - Q
    BY <1>2
  <2>2. P - Q >= RAW_MODULO \/ P - Q <= -RAW_MODULO
    BY <1>5, <2>1, Apart
  <2> QED
    BY <1>2, <1>3, <2>2
<1> QED
  BY <1>4, <1>5

\* signed_delta is the difference of two readings up to one turn, the short way.
LEMMA DeltaIsShort ==
  ASSUME NEW a \in Raw, NEW b \in Raw
  PROVE  /\ signed_delta(a, b) \in Int
         /\ signed_delta(a, b) - (b - a) \in {-RAW_MODULO, 0, RAW_MODULO}
         /\ 2 * Magnitude(signed_delta(a, b)) <= RAW_MODULO
         /\ signed_delta(a, b) = 0 <=> a = b
<1> DEFINE half == RAW_MODULO \div 2
<1>1. RAW_MODULO \in Nat /\ RAW_MODULO > 0 /\ a \in 0 .. RAW_MODULO - 1 /\ b \in 0 .. RAW_MODULO - 1
  BY ModuloAssumption DEF Raw
<1>2. half \in Nat /\ 2 * half <= RAW_MODULO /\ RAW_MODULO <= 2 * half + 1
  BY <1>1
<1>3. signed_delta(a, b) = IF b - a > half THEN b - a - RAW_MODULO
                           ELSE IF b - a < -half THEN b - a + RAW_MODULO
                           ELSE b - a
  BY DEF signed_delta
<1> HIDE DEF half
<1> QED
  BY <1>1, <1>2, <1>3 DEF Magnitude

\* No way round from one reading to the other is shorter, and a way of less
\* than half a turn is the one signed_delta finds.
LEMMA DeltaIsShortest ==
  ASSUME NEW a \in Raw, NEW b \in Raw, NEW z \in Int, NEW q \in Int,
         z = b - a + q * RAW_MODULO
  PROVE  /\ Magnitude(signed_delta(a, b)) <= Magnitude(z)
         /\ 2 * Magnitude(z) < RAW_MODULO => signed_delta(a, b) = z
<1> DEFINE d == signed_delta(a, b)
<1>1. RAW_MODULO \in Int /\ RAW_MODULO > 0 /\ a \in Int /\ b \in Int
  BY ModuloAssumption DEF Raw
<1>2. d \in Int /\ 2 * Magnitude(d) <= RAW_MODULO
      /\ d - (b - a) \in {-RAW_MODULO, 0, RAW_MODULO}
  BY DeltaIsShort
<1> HIDE DEF d
<1>3. PICK k \in {-1, 0, 1} : d = b - a + k * RAW_MODULO
  BY <1>1, <1>2
<1>4. CASE k = q
  <2>1. d = z
    BY <1>3, <1>4
  <2>2. Magnitude(z) \in Int
    BY DEF Magnitude
  <2> QED
    BY <2>1, <2>2 DEF d
<1>5. CASE k # q
  <2>1. z - d = (q - k) * RAW_MODULO
    BY <1>1, <1>3
  <2>2. q - k \in Int /\ q - k # 0
    BY <1>5
  <2>3. z - d >= RAW_MODULO \/ z - d <= -RAW_MODULO
    BY <2>1, <2>2, Apart
  <2>4. /\ Magnitude(d) <= Magnitude(z)
        /\ ~ (2 * Magnitude(z) < RAW_MODULO)
    BY <1>1, <1>2, <2>3 DEF Magnitude
  <2> QED
    BY <2>4 DEF d
<1> QED
  BY <1>4, <1>5

\* The position counted from a trusted reply reads as the next one.
LEMMA CountedReads ==
  ASSUME NEW u \in Int, NEW raw \in Raw
  PROVE  (u + signed_delta(u % RAW_MODULO, raw)) % RAW_MODULO = raw
<1> DEFINE r == u % RAW_MODULO
           d == signed_delta(r, raw)
<1>1. r \in Raw /\ RAW_MODULO \in Int /\ r \in Int /\ raw \in Int
  BY Reading, ModuloAssumption DEF Raw
<1>2. PICK q \in Int : u = r + q * RAW_MODULO
  BY Reading
<1>3. d \in Int /\ d - (raw - r) \in {-RAW_MODULO, 0, RAW_MODULO}
  BY <1>1, DeltaIsShort
<1> HIDE DEF d, r
<1>4. PICK k \in {-1, 0, 1} : d = raw - r + k * RAW_MODULO
  BY <1>1, <1>3
<1>5. u + d = raw + (q + k) * RAW_MODULO
  BY <1>1, <1>2, <1>4
<1>6. (u + d) % RAW_MODULO = raw
  BY <1>3, <1>5, ReadingUnique
<1> QED
  BY <1>6 DEF d, r

\* Motion of less than half a turn is counted as what it is.
LEMMA MotionIsCounted ==
  ASSUME NEW u \in Int, NEW w \in Int, 2 * Magnitude(w - u) < RAW_MODULO
  PROVE  signed_delta(u % RAW_MODULO, w % RAW_MODULO) = w - u
<1> DEFINE r == u % RAW_MODULO
           s == w % RAW_MODULO
<1>0. r \in Raw /\ s \in Raw
  BY Reading
<1>1. RAW_MODULO \in Int /\ r \in Int /\ s \in Int
  BY <1>0, ModuloAssumption DEF Raw
<1>2. PICK p \in Int : u = r + p * RAW_MODULO
  BY Reading
<1>3. PICK q \in Int : w = s + q * RAW_MODULO
  BY Reading
<1> HIDE DEF r, s
<1>4. w - u = s - r + (q - p) * RAW_MODULO
  BY <1>1, <1>2, <1>3
<1>5. w - u \in Int /\ q - p \in Int
  OBVIOUS
<1>6. signed_delta(r, s) = w - u
  BY <1>0, <1>1, <1>4, <1>5, DeltaIsShortest
<1> QED
  BY <1>6 DEF r, s

\* An axis that coasts comes no nearer to a target, and no further from it,
\* than it coasts.
LEMMA CoastBounds ==
  ASSUME NEW a \in Raw, NEW m \in Int, Magnitude(m - a) <= Coast, NEW t \in Raw
  PROVE  Magnitude(signed_delta(m % RAW_MODULO, t))
           <= Magnitude(signed_delta(a, t)) + Coast
<1> DEFINE r == m % RAW_MODULO
           d == signed_delta(a, t)
           e == signed_delta(r, t)
<1>0. r \in Raw
  BY Reading
<1>1. RAW_MODULO \in Int /\ r \in Int /\ a \in Int /\ t \in Int /\ Coast \in Nat
  BY <1>0, ModuloAssumption, EnvironmentAssumption DEF Raw
<1>2. PICK q \in Int : m = r + q * RAW_MODULO
  BY Reading
<1>3. d \in Int /\ d - (t - a) \in {-RAW_MODULO, 0, RAW_MODULO}
  BY DeltaIsShort
<1>4. e \in Int
  BY <1>0, DeltaIsShort
<1> HIDE DEF r, d, e
<1>5. PICK k \in {-1, 0, 1} : d = t - a + k * RAW_MODULO
  BY <1>1, <1>3
<1> DEFINE z == d + a - m
<1>6. z = t - r + (k - q) * RAW_MODULO
  BY <1>1, <1>2, <1>5
<1>7. z \in Int /\ k - q \in Int /\ Magnitude(z) <= Magnitude(d) + Coast
  BY <1>1, <1>3 DEF Magnitude
<1> HIDE DEF z
<1>8. Magnitude(e) <= Magnitude(z)
  BY <1>0, <1>6, <1>7, DeltaIsShortest DEF e
<1>9. Magnitude(e) \in Int /\ Magnitude(z) \in Int /\ Magnitude(d) \in Int
  BY <1>3, <1>4, <1>7 DEF Magnitude
<1>10. Magnitude(e) <= Magnitude(d) + Coast
  BY <1>1, <1>7, <1>8, <1>9
<1> QED
  BY <1>10 DEF d, e, r

-----------------------------------------------------------------------------
(***************************************************************************)
(* The stages.                                                             *)
(***************************************************************************)
\* A set of stages has a first one.
LEMMA FirstStage ==
  ASSUME NEW T \in SUBSET Nat, T # {}
  PROVE  \E i \in T : \A j \in T : ~ (j < i)
<1>1. \E x \in T : \A y \in T : ~ (<<y, x>> \in OpToRel(<, Nat))
  BY NatLessThanWellFounded, WFMin
<1> QED
  BY <1>1 DEF OpToRel

\* choose_stage always finds a stage: the first whose threshold the distance
\* exceeds, or the last one.
LEMMA StageFits ==
  ASSUME NEW remaining \in Int
  PROVE  /\ choose_stage(remaining) \in Stage
         /\ \A j \in Stage : j < choose_stage(remaining) => remaining <= Threshold[j]
         /\ remaining > Threshold[choose_stage(remaining)]
              \/ choose_stage(remaining) = Len(Threshold)
<1>1. Stage = 1 .. Len(Threshold) /\ Len(Threshold) \in Stage /\ Stage \subseteq Nat
      /\ \A j \in Stage : Threshold[j] \in Int
  BY StageAssumption DEF Stage
<1> DEFINE T == {i \in Stage : remaining > Threshold[i] \/ i = Len(Threshold)}
<1>2. PICK i \in T : \A j \in T : ~ (j < i)
  BY <1>1, FirstStage
<1>3. \A j \in Stage : j < i => remaining <= Threshold[j]
  BY <1>1, <1>2
<1>4. \E k \in Stage : /\ \A j \in Stage : j < k => remaining <= Threshold[j]
                       /\ remaining > Threshold[k] \/ k = Len(Threshold)
  BY <1>2, <1>3
<1> QED
  BY <1>4 DEF choose_stage

-----------------------------------------------------------------------------
(***************************************************************************)
(* The inductive invariant.                                                *)
(***************************************************************************)
\* Before the first move nothing has been missed, and the axis is where its
\* encoder says.
Fresh ==
  phase \in {"validate", "goto", "initial"} =>
    /\ consecutive_invalid = 0 /\ ~pending_opposite /\ history = {}
    /\ actual \in Raw

\* The limit the validator checked, and the coasting since.
InLimit ==
  lies = 0 =>
    /\ phase = "goto" =>
         Magnitude(signed_delta(actual, target_raw)) <= max_delta_counts
    /\ phase = "initial" =>
         Magnitude(signed_delta(actual, target_raw)) <= max_delta_counts + Coast

\* The iterations since the last trusted reply, and what the axis makes in one.
Open == consecutive_invalid + (IF pending_opposite THEN 1 ELSE 0)
Reach == IF phase = "moving" THEN Speed[active_stage] * MaxTicks ELSE Coast
Ahead == (actual - truth) * sign

\* The position is as old as these iterations, and the axis that far ahead.
Tracked ==
  Controlling =>
    /\ consecutive_invalid <= MAX_CONSECUTIVE_INVALID
    /\ previous_time <= now /\ now - previous_time <= Open * MaxTicks
    /\ 0 <= Ahead /\ Ahead <= Open * Reach

\* An opposite reply to a position that is true is a corrupted one.
Outliers ==
  /\ reason = "opposite" => phase = "aborted"
  /\ Controlling /\ pending_opposite /\ Trustworthy => lies >= 1
  /\ OneOutlierHarmless

\* The stage is the one of the remaining distance.
Following == phase = "moving" => active_stage = choose_stage(Remaining)

\* What MEDIUM looks back on is younger than its command.
OwnHistory ==
  /\ medium_since <= now
  /\ active_stage = Medium => \A s \in history : s.time >= medium_since

IInv ==
  /\ TypeOK /\ Fresh /\ InLimit /\ WithinLimit /\ Tracked
  /\ ShortWay /\ TrustedIsTrue /\ Outliers /\ Following /\ OwnHistory

-----------------------------------------------------------------------------
(***************************************************************************)
(* What a reply, an iteration and a trusted reply are.                     *)
(***************************************************************************)
\* Every reply the loop can take for valid lies within the modulus.
LEMMA RepliesAreRaw ==
  ASSUME NEW position \in Int, NEW d \in {-1, 0, 1}
  PROVE  Replies(position, d) \subseteq Raw
<1>1. position - d \in Int
  OBVIOUS
<1>2. position % RAW_MODULO \in Raw /\ (position - d) % RAW_MODULO \in Raw
  BY <1>1, Reading
<1> QED
  BY <1>2 DEF Replies, Reads

\* A reply counts as corrupted only while there may be another one.
LEMMA LiesCounted ==
  ASSUME TypeOK, NEW position, NEW d, NEW raw \in Replies(position, d),
         Counts(raw, position, d)
  PROVE  /\ lies' \in 0 .. MaxLies /\ lies' >= lies
         /\ lies' = lies <=> raw \in Reads(position, d)
         /\ raw \notin Reads(position, d) => lies' = lies + 1
BY EnvironmentAssumption DEF TypeOK, Counts, Replies

\* The position is checked against the recovery window; nothing but the
\* success changes.
LEMMA CheckedOK ==
  ASSUME TypeOK, NEW u
  PROVE  /\ Checked(u) \in [attempted : BOOLEAN, start : Int, deadline : Nat, success : BOOLEAN]
         /\ Checked(u).attempted = recovery.attempted
BY DEF TypeOK, Checked

\* An iteration takes at most MaxTicks, and the axis makes at most Reach.
LEMMA Iteration ==
  ASSUME TypeOK, Sampling
  PROVE  /\ Controlling
         /\ now' \in Nat /\ now' > now /\ now' - now <= MaxTicks
         /\ actual' \in Int /\ Reach \in Nat
         /\ 0 <= (actual' - actual) * sign /\ (actual' - actual) * sign <= Reach
<1>1. /\ {now, MaxTicks, Coast, Speed[active_stage]} \subseteq Nat
      /\ actual \in Int /\ sign \in {1, -1}
  BY EnvironmentAssumption DEF TypeOK, Stage
<1>2. Controlling /\ now' \in now + 1 .. now + MaxTicks
  BY DEF Sampling, Controlling
<1> DEFINE v == Speed[active_stage]
           n == now' - now
           w == MaxTicks - n
           most == IF phase = "moving" THEN v * n ELSE Coast
<1>3. /\ {now, now'} \subseteq Nat /\ now' > now /\ now' - now <= MaxTicks
      /\ {v, n, w} \subseteq Nat /\ w + n = MaxTicks
  BY <1>1, <1>2
<1>4. Reach = IF phase = "moving" THEN v * MaxTicks ELSE Coast
  BY DEF Reach
<1>5. PICK i \in 0 .. most : actual' = actual + sign * i
  BY DEF Sampling, Moves
<1> HIDE DEF v, n, w
<1>6. v * n \in Nat /\ v * w \in Nat /\ v * n + v * w = v * MaxTicks
  BY <1>3
<1>7. most \in Nat /\ Reach \in Nat /\ most <= Reach
  BY <1>1, <1>4, <1>6
<1> HIDE DEF most
<1>8. /\ actual' \in Int
      /\ 0 <= (actual' - actual) * sign /\ (actual' - actual) * sign <= Reach
  BY <1>1, <1>5, <1>7
<1> QED
  BY <1>2, <1>3, <1>7, <1>8

\* One more iteration on top of the open ones.
LEMMA OneMore ==
  ASSUME NEW n \in Nat, NEW r \in Nat, NEW x \in Int, NEW y \in Int,
         0 <= x, x <= n * r, 0 <= y, y <= r
  PROVE  0 <= x + y /\ x + y <= (n + 1) * r
<1>1. (n + 1) * r = n * r + r /\ n * r \in Nat
  OBVIOUS
<1> QED
  BY <1>1

\* While the axis is controlled, the iterations open when a reply comes are few
\* enough for the axis to be within half a revolution of the trusted position.
LEMMA WithinHalfTurn ==
  ASSUME TypeOK, Tracked, Sampling
  PROVE  LET ahead == (actual' - truth) * sign IN
         /\ ahead \in Int /\ 0 <= ahead /\ ahead <= (Open + 1) * Reach
         /\ 2 * (ahead + 1) < RAW_MODULO
<1>1. /\ Controlling /\ actual' \in Int /\ Reach \in Nat
      /\ 0 <= (actual' - actual) * sign /\ (actual' - actual) * sign <= Reach
  BY Iteration
<1>2. /\ actual \in Int /\ truth \in Int /\ sign \in {1, -1}
      /\ MAX_CONSECUTIVE_INVALID \in Nat /\ consecutive_invalid \in Nat
      /\ pending_opposite \in BOOLEAN
  BY LimitAssumption DEF TypeOK
<1>3. Open \in Nat /\ Open <= MAX_CONSECUTIVE_INVALID + 1
  BY <1>1, <1>2 DEF Tracked, Open
<1> DEFINE x == (actual - truth) * sign
           y == (actual' - actual) * sign
           ahead == (actual' - truth) * sign
<1>4. x \in Int /\ y \in Int /\ ahead = x + y
  <2>1. {actual, actual', truth} \subseteq Int /\ sign \in {1, -1}
    BY <1>1, <1>2
  <2> QED
    BY <2>1
<1>5. 0 <= x /\ x <= Open * Reach
  BY <1>1 DEF Tracked, Ahead
<1>6. 0 <= ahead /\ ahead <= (Open + 1) * Reach
  <2> HIDE DEF x, y, ahead
  <2>1. 0 <= x + y /\ x + y <= (Open + 1) * Reach
    <3>1. 0 <= y /\ y <= Reach
      BY <1>1 DEF y
    <3> QED
      BY <1>1, <1>3, <1>4, <1>5, <3>1, OneMore
  <2> QED
    BY <1>4, <2>1
<1>7. 2 * ((MAX_CONSECUTIVE_INVALID + 2) * Reach + 1) < RAW_MODULO
  <2>1. Reach \in {Coast} \cup {Speed[i] * MaxTicks : i \in DOMAIN Threshold}
    BY DEF Reach, TypeOK, Stage
  <2> QED
    BY <2>1, HalfTurnAssumption
<1>8. (Open + 1) * Reach <= (MAX_CONSECUTIVE_INVALID + 2) * Reach
  <2> DEFINE w == MAX_CONSECUTIVE_INVALID + 1 - Open
  <2>1. w \in Nat /\ MAX_CONSECUTIVE_INVALID + 2 = (Open + 1) + w
    BY <1>2, <1>3
  <2> HIDE DEF w
  <2>2. ((Open + 1) + w) * Reach = (Open + 1) * Reach + w * Reach
        /\ w * Reach >= 0 /\ (Open + 1) * Reach \in Int
    BY <1>1, <1>3, <2>1
  <2>3. w * Reach \in Int
    BY <1>1, <2>1
  <2>4. (MAX_CONSECUTIVE_INVALID + 2) * Reach = (Open + 1) * Reach + w * Reach
    BY <2>1, <2>2
  <2> QED
    BY <2>2, <2>3, <2>4
<1>9. (Open + 1) * Reach \in Int /\ (MAX_CONSECUTIVE_INVALID + 2) * Reach \in Int
      /\ RAW_MODULO \in Int /\ ahead \in Int
  BY <1>1, <1>2, <1>3, <1>4, ModuloAssumption
<1> HIDE DEF ahead
<1>10. 2 * (ahead + 1) < RAW_MODULO
  BY <1>6, <1>7, <1>8, <1>9
<1> QED
  BY <1>6, <1>9, <1>10 DEF ahead

\* A reply that is not corrupted, compared with a position that is true, shows
\* the motion there was, up to the one count the encoder may be short.
LEMMA HonestReply ==
  ASSUME TypeOK, Tracked, ShortWay, Sampling, Trustworthy,
         NEW raw \in Reads(actual', sign)
  PROVE  LET d == signed_delta(previous_raw, raw) IN
         /\ d * sign >= -1
         /\ actual' - (unwrapped + d) \in {0, sign}
<1>1. {actual, actual', truth, unwrapped} \subseteq Int /\ sign \in {1, -1}
  BY Iteration DEF TypeOK
<1>2. previous_raw = unwrapped % RAW_MODULO
  BY Iteration DEF ShortWay
<1> DEFINE ahead == (actual' - truth) * sign
<1>3. ahead \in Int /\ 0 <= ahead /\ 2 * (ahead + 1) < RAW_MODULO
  BY WithinHalfTurn
<1>4. PICK w \in {actual', actual' - sign} : raw = w % RAW_MODULO
  BY DEF Reads
<1>5. w \in Int /\ RAW_MODULO \in Int
  BY <1>1, <1>4, ModuloAssumption
<1>6. /\ (w - unwrapped) * sign >= -1
      /\ Magnitude(w - unwrapped) <= ahead + 1
  <2>1. CASE sign = 1
    BY <1>1, <1>3, <1>4, <2>1 DEF Trustworthy, Magnitude
  <2>2. CASE sign = -1
    BY <1>1, <1>3, <1>4, <2>2 DEF Trustworthy, Magnitude
  <2> QED
    BY <1>1, <2>1, <2>2
<1> HIDE DEF ahead
<1>7. 2 * Magnitude(w - unwrapped) < RAW_MODULO
  <2>1. Magnitude(w - unwrapped) \in Int
    BY <1>1, <1>5 DEF Magnitude
  <2> QED
    BY <1>3, <1>5, <1>6, <2>1
<1>8. signed_delta(previous_raw, raw) = w - unwrapped
  BY <1>1, <1>2, <1>4, <1>5, <1>7, MotionIsCounted
<1>9. actual' - (unwrapped + (w - unwrapped)) \in {0, sign}
  <2>1. unwrapped + (w - unwrapped) = w
    BY <1>1, <1>5
  <2>2. CASE w = actual'
    BY <1>1, <2>1, <2>2
  <2>3. CASE w = actual' - sign
    <3>1. actual' - (actual' - sign) = sign
      BY <1>1
    <3> QED
      BY <2>1, <2>3, <3>1
  <2> QED
    BY <1>4, <2>2, <2>3
<1> QED
  BY <1>6, <1>8, <1>9

\* What a trusted reply leaves behind: a position that reads as the reply and
\* is as new, and that is true as long as no reply was corrupted.
LEMMA TrustedStep ==
  ASSUME IInv, TrustedReply
  PROVE  /\ Controlling /\ now' \in Nat /\ now' > now /\ actual' \in Int
         /\ previous_raw' \in Raw /\ unwrapped' \in Int
         /\ unwrapped' % RAW_MODULO = previous_raw'
         /\ pending_opposite' = FALSE /\ consecutive_invalid' = 0
         /\ previous_time' = now' /\ truth' = actual'
         /\ motion_confirmed' \in BOOLEAN
         /\ UNCHANGED <<target_raw, sign, target_unwrapped, start_raw>>
         /\ lies' \in 0 .. MaxLies /\ lies' >= lies
         /\ (unwrapped' - unwrapped) * sign > -OPPOSITE_COUNTS
         /\ lies' = 0 => /\ truth' - unwrapped' \in {0, sign}
                         /\ (unwrapped' - unwrapped) * sign >= -1
<1>1. TypeOK /\ Tracked /\ ShortWay /\ TrustedIsTrue
  BY DEF IInv
<1>2. Sampling
  BY DEF TrustedReply, Queries
<1>3. PICK raw \in Replies(actual', sign) : Trusts(raw)
  BY DEF TrustedReply
<1>4. /\ Controlling /\ now' \in Nat /\ now' > now /\ actual' \in Int
  BY <1>1, <1>2, Iteration
<1> DEFINE d == signed_delta(previous_raw, raw)
<1>5. unwrapped \in Int /\ sign \in {1, -1} /\ OPPOSITE_COUNTS \in Int
      /\ previous_raw \in Raw
  BY <1>1, LimitAssumption DEF TypeOK
<1>6. raw \in Raw
  BY <1>4, <1>5, RepliesAreRaw
<1>7. d \in Int
  BY <1>5, <1>6, DeltaIsShort
<1>8. /\ unwrapped' = unwrapped + d /\ previous_raw' = raw
      /\ pending_opposite' = FALSE /\ consecutive_invalid' = 0
      /\ previous_time' = now' /\ truth' = actual'
      /\ UNCHANGED <<target_raw, sign, target_unwrapped, start_raw>>
  BY <1>3 DEF Trusts, Advances
<1>9. motion_confirmed' \in BOOLEAN
  BY <1>3 DEF Trusts
<1>10. unwrapped' % RAW_MODULO = previous_raw'
  <2>1. previous_raw = unwrapped % RAW_MODULO
    BY <1>1, <1>4 DEF ShortWay
  <2> QED
    BY <1>5, <1>6, <1>8, <2>1, CountedReads
<1>11. Counts(raw, actual', sign)
  BY <1>3 DEF Trusts, Plausible
<1>12. /\ lies' \in 0 .. MaxLies /\ lies' >= lies
       /\ lies' = lies <=> raw \in Reads(actual', sign)
  BY <1>1, <1>11, LiesCounted
<1>13. d * sign > -OPPOSITE_COUNTS
  BY <1>3, <1>5, <1>7 DEF Trusts, Opposite
<1>14. lies' = 0 => d * sign >= -1 /\ actual' - (unwrapped + d) \in {0, sign}
  <2> SUFFICES ASSUME lies' = 0
               PROVE  d * sign >= -1 /\ actual' - (unwrapped + d) \in {0, sign}
    OBVIOUS
  <2>1. lies = 0
    BY <1>1, <1>12 DEF TypeOK
  <2>2. Trustworthy /\ raw \in Reads(actual', sign)
    BY <1>1, <1>4, <1>12, <2>1 DEF TrustedIsTrue
  <2> QED
    BY <1>1, <1>2, <2>2, HonestReply
<1> HIDE DEF d
<1>15. unwrapped' \in Int /\ unwrapped' - unwrapped = d
  <2>1. unwrapped' \in Int
    BY <1>5, <1>7, <1>8
  <2>2. (unwrapped + d) - unwrapped = d
    BY <1>5, <1>7
  <2> QED
    BY <1>8, <2>1, <2>2
<1> QED
  BY <1>4, <1>6, <1>8, <1>9, <1>10, <1>12, <1>13, <1>14, <1>15

-----------------------------------------------------------------------------
(***************************************************************************)
(* The invariant is kept.                                                  *)
(***************************************************************************)
Recoveries == [attempted : BOOLEAN, start : Int, deadline : Nat, success : BOOLEAN]

\* The constructor establishes the invariant.
LEMMA InitOK == Init => IInv
<1> SUFFICES ASSUME Init
             PROVE  IInv
  OBVIOUS
<1>1. Len(Threshold) \in Stage
  BY StageAssumption DEF Stage
<1>2. TypeOK
  <2>1. 0 \in Raw /\ 0 \in 0 .. MaxLies /\ 0 \in 0 .. MAX_CONSECUTIVE_INVALID + 1
    BY EnvironmentAssumption, LimitAssumption, ModuloAssumption DEF Raw
  <2>2. target_raw \in Raw /\ actual \in Int
    BY EnvironmentAssumption DEF Init, Raw
  <2>3. recovery \in [attempted : BOOLEAN, start : Int, deadline : Nat, success : BOOLEAN]
    BY DEF Init, NoRecovery
  <2>4. \A s \in history : s.time \in Nat /\ s.position \in Int
    BY DEF Init
  <2>5. {now, deadline, previous_time, medium_since} \subseteq Nat
        /\ {target_unwrapped, unwrapped, actual, truth} \subseteq Int
    BY <2>2 DEF Init
  <2>6. active_stage \in Stage
    BY <1>1 DEF Init
  <2>7. /\ phase \in Phases /\ reason \in Reasons /\ sign \in {1, -1}
        /\ {pending_opposite, motion_confirmed} \subseteq BOOLEAN
        /\ previous_raw = 0 /\ start_raw = 0 /\ consecutive_invalid = 0 /\ lies = 0
    BY DEF Init, Phases, Reasons
  <2> QED
    BY <2>1, <2>2, <2>3, <2>4, <2>5, <2>6, <2>7 DEF TypeOK
<1>3. Fresh
  BY EnvironmentAssumption DEF Init, Fresh, Raw
<1>4. InLimit /\ WithinLimit /\ Tracked /\ ShortWay /\ TrustedIsTrue /\ Following
  BY DEF Init, InLimit, WithinLimit, Tracked, ShortWay, TrustedIsTrue, Following,
         Controlling
<1>5. Outliers /\ OwnHistory
  BY DEF Init, Outliers, OneOutlierHarmless, Controlling, OwnHistory
<1> QED
  BY <1>2, <1>3, <1>4, <1>5 DEF IInv

\* A run that is over keeps what it knew.
LEMMA OverKeeps ==
  ASSUME IInv,
         phase' \in {"rejected", "returned", "aborted"}, reason' \in Reasons,
         now' \in Nat, now' >= now, actual' \in Int, lies' \in 0 .. MaxLies,
         consecutive_invalid' \in 0 .. MAX_CONSECUTIVE_INVALID + 1,
         recovery' \in Recoveries,
         UNCHANGED <<deadline, target_raw, control, trust>>,
         reason' = "opposite" => phase' = "aborted",
         OneOutlierHarmless'
  PROVE  IInv'
<1>1. TypeOK /\ OwnHistory
  BY DEF IInv
<1>2. TypeOK'
  BY <1>1 DEF TypeOK, Phases, Recoveries, control, trust
<1>3. /\ Fresh' /\ InLimit' /\ WithinLimit' /\ Tracked'
      /\ ShortWay' /\ TrustedIsTrue' /\ Following'
  BY DEF Fresh, InLimit, WithinLimit, Tracked, ShortWay, TrustedIsTrue, Following,
         Controlling
<1>4. Outliers'
  BY DEF Outliers, Controlling
<1>5. OwnHistory'
  <2>1. now \in Nat /\ medium_since \in Nat /\ medium_since <= now
    BY <1>1 DEF TypeOK, OwnHistory
  <2>2. medium_since' = medium_since /\ history' = history /\ active_stage' = active_stage
    BY DEF control
  <2>3. medium_since <= now'
    BY <2>1
  <2> QED
    BY <1>1, <2>2, <2>3 DEF OwnHistory
<1> QED
  BY <1>2, <1>3, <1>4, <1>5 DEF IInv

\* An iteration without a trusted reply leaves the axis one more Reach ahead.
LEMMA LostKeeps ==
  ASSUME IInv, Sampling,
         UNCHANGED <<phase, reason, deadline, target_raw, control, unwrapped,
                     previous_raw, previous_time, truth>>,
         lies' \in 0 .. MaxLies, lies' >= lies,
         consecutive_invalid' \in 0 .. MAX_CONSECUTIVE_INVALID,
         pending_opposite' \in BOOLEAN, Open' = Open + 1,
         recovery' \in Recoveries,
         pending_opposite' /\ Trustworthy => lies' >= 1
  PROVE  IInv'
<1>1. TypeOK /\ Tracked /\ ShortWay /\ TrustedIsTrue /\ Outliers /\ Following /\ OwnHistory
      /\ WithinLimit
  BY DEF IInv
<1>2. /\ Controlling /\ now' \in Nat /\ now' > now /\ now' - now <= MaxTicks
      /\ actual' \in Int /\ Reach \in Nat
  BY <1>1, Iteration
<1>3. Controlling' /\ phase' = phase /\ reason' = reason /\ sign' = sign
      /\ active_stage' = active_stage /\ truth' = truth /\ previous_time' = previous_time
      /\ unwrapped' = unwrapped /\ target_unwrapped' = target_unwrapped
      /\ start_raw' = start_raw /\ previous_raw' = previous_raw /\ target_raw' = target_raw
      /\ history' = history /\ medium_since' = medium_since
  BY <1>2 DEF Controlling, control
<1>4. TypeOK'
  <2>1. consecutive_invalid' \in 0 .. MAX_CONSECUTIVE_INVALID + 1
    BY LimitAssumption
  <2> QED
    BY <1>1, <1>2, <2>1 DEF TypeOK, Recoveries, control
<1>5. Fresh' /\ InLimit'
  BY <1>2, <1>3 DEF Fresh, InLimit, Controlling
<1>6. lies' = 0 => lies = 0
  BY <1>1 DEF TypeOK
<1>7. WithinLimit' /\ TrustedIsTrue' /\ ShortWay' /\ Following'
  BY <1>1, <1>2, <1>3, <1>6
  DEF WithinLimit, TrustedIsTrue, ShortWay, Following, Remaining, Trustworthy
<1>8. Tracked'
  <2>1. Open \in Nat /\ MaxTicks \in Nat /\ consecutive_invalid' <= MAX_CONSECUTIVE_INVALID
    BY <1>1, LimitAssumption, EnvironmentAssumption DEF TypeOK, Open
  <2>2. previous_time' <= now' /\ now' - previous_time' <= Open' * MaxTicks
    <3> DEFINE x == now - previous_time
               y == now' - now
    <3>1. {now, now', previous_time} \subseteq Nat
      BY <1>1, <1>2 DEF TypeOK
    <3>2. 0 <= x /\ x <= Open * MaxTicks /\ 0 <= y /\ y <= MaxTicks
          /\ x \in Int /\ y \in Int /\ now' - previous_time = x + y
      BY <1>1, <1>2, <3>1 DEF Tracked
    <3> HIDE DEF x, y
    <3>3. 0 <= x + y /\ x + y <= (Open + 1) * MaxTicks
      BY <2>1, <3>2, OneMore
    <3>4. previous_time <= now' /\ now' - previous_time <= (Open + 1) * MaxTicks
      BY <3>1, <3>2, <3>3
    <3> QED
      BY <1>3, <3>4
  <2>3. 0 <= Ahead' /\ Ahead' <= Open' * Reach'
    <3>1. Reach' = Reach /\ Ahead' = (actual' - truth) * sign
      BY <1>3 DEF Reach, Ahead
    <3> QED
      BY <1>1, <3>1, WithinHalfTurn
  <2> QED
    BY <2>1, <2>2, <2>3 DEF Tracked
<1>9. Outliers'
  BY <1>1, <1>2, <1>3 DEF Outliers, OneOutlierHarmless, Trustworthy, Controlling
<1>10. OwnHistory'
  <2>1. {now, now', medium_since} \subseteq Nat /\ medium_since <= now
    BY <1>1, <1>2 DEF TypeOK, OwnHistory
  <2>2. medium_since <= now'
    BY <1>2, <2>1
  <2> QED
    BY <1>1, <1>3, <2>2 DEF OwnHistory
<1> QED
  BY <1>4, <1>5, <1>7, <1>8, <1>9, <1>10 DEF IInv

\* Nothing gained, nothing multiplied.
LEMMA Nothing == \A n \in Int : n - n = 0 /\ 0 * n = 0 /\ n <= n
OBVIOUS

\* A trusted reply starts the counting anew.
LEMMA TrustedKeeps ==
  ASSUME IInv, TrustedReply, Controlling', phase' = "moving" => phase = "moving",
         reason' # "opposite", active_stage' \in Stage
  PROVE  /\ Fresh' /\ InLimit' /\ WithinLimit' /\ Tracked'
         /\ ShortWay' /\ TrustedIsTrue' /\ Outliers'
<1>1. TypeOK /\ ShortWay /\ WithinLimit
  BY DEF IInv
<1>2. /\ Controlling /\ now' \in Nat /\ actual' \in Int
      /\ unwrapped' % RAW_MODULO = previous_raw'
      /\ pending_opposite' = FALSE /\ consecutive_invalid' = 0
      /\ previous_time' = now' /\ truth' = actual'
      /\ target_raw' = target_raw /\ sign' = sign
      /\ target_unwrapped' = target_unwrapped /\ start_raw' = start_raw
      /\ lies' \in 0 .. MaxLies /\ lies' >= lies
      /\ lies' = 0 => truth' - unwrapped' \in {0, sign}
  BY TrustedStep
<1>3. Fresh' /\ InLimit'
  BY DEF Fresh, InLimit, Controlling
<1>4. ShortWay'
  BY <1>1, <1>2 DEF ShortWay
<1>5. TrustedIsTrue'
  BY <1>2 DEF TrustedIsTrue, Trustworthy
<1>6. WithinLimit'
  <2>1. lies' = 0 => lies = 0
    BY <1>1, <1>2 DEF TypeOK
  <2> QED
    BY <1>1, <1>2, <2>1 DEF WithinLimit
<1>7. Outliers'
  BY <1>2 DEF Outliers, OneOutlierHarmless, Controlling
<1>8. Tracked'
  <2>1. Open' = 0
    BY <1>2 DEF Open
  <2>2. sign \in {1, -1}
    BY <1>1 DEF TypeOK
  <2>3. Ahead' = 0
    <3>1. actual' - actual' = 0
      BY <1>2, Nothing
    <3>2. 0 * sign = 0
      BY <2>2
    <3> QED
      BY <1>2, <3>1, <3>2 DEF Ahead
  <2>4. Reach' \in Nat /\ MaxTicks \in Nat
    <3>1. Speed[active_stage'] \in Nat /\ Coast \in Nat /\ MaxTicks \in Nat
      BY EnvironmentAssumption DEF Stage
    <3> QED
      BY <3>1 DEF Reach
  <2>5. 0 * Reach' = 0 /\ 0 * MaxTicks = 0
    <3>1. Reach' \in Int /\ MaxTicks \in Int
      BY <2>4
    <3> QED
      BY <3>1, Nothing
  <2>6. now' - now' = 0 /\ now' <= now'
    <3>1. now' \in Int
      BY <1>2
    <3> QED
      BY <3>1, Nothing
  <2>7. 0 <= MAX_CONSECUTIVE_INVALID
    BY LimitAssumption
  <2> QED
    BY <1>2, <2>1, <2>3, <2>5, <2>6, <2>7 DEF Tracked
<1> QED
  BY <1>3, <1>4, <1>5, <1>6, <1>7, <1>8

-----------------------------------------------------------------------------
(***************************************************************************)
(* Before the first move.                                                  *)
(***************************************************************************)
\* Between two of the first reads the axis coasts, in either direction.
LEMMA Coasting ==
  ASSUME NEW p, Before(p), actual \in Raw
  PROVE  /\ actual' \in Raw
         /\ \A t \in Raw : Magnitude(signed_delta(actual', t))
                             <= Magnitude(signed_delta(actual, t)) + Coast
<1>1. PICK m \in Moves(Coast, 1) \cup Moves(Coast, -1) : actual' = m % RAW_MODULO
  BY DEF Before
<1>2. actual \in Int /\ Coast \in Nat
  BY ModuloAssumption, EnvironmentAssumption DEF Raw
<1>3. m \in Int /\ Magnitude(m - actual) <= Coast
  BY <1>1, <1>2 DEF Moves, Magnitude
<1> QED
  BY <1>1, <1>3, Reading, CoastBounds

\* A first reply is the position of the axis, unless it is corrupted.
LEMMA FirstReading ==
  ASSUME TypeOK, actual' \in Raw, NEW raw \in FirstReplies, Counts(raw, actual', 0)
  PROVE  /\ raw \in Raw
         /\ lies' \in 0 .. MaxLies /\ lies' >= lies
         /\ lies' = 0 => lies = 0 /\ raw = actual'
<1>1. actual' \in Int
  BY ModuloAssumption DEF Raw
<1>2. actual' % RAW_MODULO = actual' /\ actual' - 0 = actual'
  <2>1. \A n \in Int : n = n + 0 * RAW_MODULO /\ n - 0 = n
    BY ModuloAssumption
  <2>2. \A n \in Raw : n \in Int => n % RAW_MODULO = n
    BY <2>1, ReadingUnique
  <2> QED
    BY <1>1, <2>1, <2>2
<1>3. Reads(actual', 0) = {actual'}
  BY <1>2 DEF Reads
<1>4. raw \in Raw
  BY <1>1, RepliesAreRaw DEF FirstReplies
<1>5. /\ lies' \in 0 .. MaxLies /\ lies' >= lies
      /\ lies' = lies <=> raw \in Reads(actual', 0)
  BY LiesCounted DEF FirstReplies
<1>6. lies' = 0 => lies = 0
  BY <1>5 DEF TypeOK
<1> QED
  BY <1>3, <1>4, <1>5, <1>6

\* The first moves of the job: the limit is checked, then the axis coasts.
LEMMA LimitStep ==
  ASSUME IInv, NEW p \in {"validate", "goto"}, Before(p),
         NEW q \in {"goto", "initial"}, Ends(q, "none"),
         NEW raw \in FirstReplies, Counts(raw, actual', 0),
         p = "validate" => q = "goto" /\ ~TooFar(raw),
         p = "goto" => q = "initial",
         UNCHANGED <<now, deadline, target_raw, control, trust,
                     consecutive_invalid, recovery>>
  PROVE  IInv'
<1>1. TypeOK /\ Fresh /\ InLimit /\ OwnHistory /\ phase = p
      /\ consecutive_invalid = 0 /\ ~pending_opposite /\ history = {} /\ actual \in Raw
  BY DEF IInv, Before, Fresh
<1>2. /\ actual' \in Raw
      /\ \A t \in Raw : Magnitude(signed_delta(actual', t))
                          <= Magnitude(signed_delta(actual, t)) + Coast
  BY <1>1, Coasting
<1>3. /\ raw \in Raw
      /\ lies' \in 0 .. MaxLies /\ lies' >= lies
      /\ lies' = 0 => lies = 0 /\ raw = actual'
  BY <1>1, <1>2, FirstReading
<1>4. /\ phase' = q /\ reason' = "none" /\ now' = now /\ target_raw' = target_raw
      /\ medium_since' = medium_since /\ history' = history /\ active_stage' = active_stage
      /\ consecutive_invalid' = consecutive_invalid /\ pending_opposite' = pending_opposite
  BY DEF Ends, control, trust
<1>5. actual' \in Int
  BY <1>2, ModuloAssumption DEF Raw
<1>6. TypeOK'
  BY <1>1, <1>3, <1>4, <1>5 DEF TypeOK, Phases, Reasons, control, trust
<1>7. Fresh'
  BY <1>1, <1>2, <1>4 DEF Fresh
<1>8. InLimit'
  <2> SUFFICES ASSUME lies' = 0
               PROVE  /\ q = "goto" => Magnitude(signed_delta(actual', target_raw)) <= max_delta_counts
                      /\ q = "initial" => Magnitude(signed_delta(actual', target_raw)) <= max_delta_counts + Coast
    BY <1>4 DEF InLimit
  <2> DEFINE before == Magnitude(signed_delta(actual, target_raw))
             after == Magnitude(signed_delta(actual', target_raw))
  <2>1. target_raw \in Raw /\ max_delta_counts \in Nat /\ Coast \in Nat
    BY <1>1, LimitAssumption, EnvironmentAssumption DEF TypeOK
  <2>2. before \in Int /\ after \in Int /\ after <= before + Coast
    <3>1. signed_delta(actual, target_raw) \in Int /\ signed_delta(actual', target_raw) \in Int
      BY <1>1, <1>2, <2>1, DeltaIsShort
    <3> QED
      BY <1>2, <2>1, <3>1 DEF Magnitude
  <2>3. CASE p = "validate"
    <3>1. q = "goto" /\ ~(after > max_delta_counts)
      BY <1>3, <2>3 DEF TooFar
    <3> HIDE DEF before, after
    <3>2. after <= max_delta_counts
      BY <2>1, <2>2, <3>1
    <3> QED
      BY <3>1, <3>2 DEF after
  <2>4. CASE p = "goto"
    <3>1. q = "initial" /\ before <= max_delta_counts
      BY <1>1, <1>3, <2>4 DEF InLimit
    <3> HIDE DEF before, after
    <3>2. after <= max_delta_counts + Coast
      BY <2>1, <2>2, <3>1
    <3> QED
      BY <3>1, <3>2 DEF after
  <2> QED
    BY <2>3, <2>4
<1>9. WithinLimit' /\ Tracked' /\ ShortWay' /\ TrustedIsTrue' /\ Outliers' /\ Following'
  BY <1>4 DEF WithinLimit, Tracked, ShortWay, TrustedIsTrue, Outliers,
              OneOutlierHarmless, Following, Controlling
<1>10. OwnHistory'
  BY <1>1, <1>4 DEF OwnHistory
<1> QED
  BY <1>6, <1>7, <1>8, <1>9, <1>10 DEF IInv

\* The target validator rejects, or hands the limit on.
LEMMA StepValidate == ASSUME IInv, Validate PROVE IInv'
<1>1. Before("validate") /\ TypeOK /\ actual \in Raw
  BY DEF Validate, IInv, Fresh, Before
<1>2. PICK raw \in FirstReplies :
        /\ Counts(raw, actual', 0)
        /\ IF TooFar(raw) THEN Ends("rejected", "delta") ELSE Ends("goto", "none")
  BY DEF Validate
<1>3. UNCHANGED <<now, deadline, target_raw, control, trust, consecutive_invalid, recovery>>
  BY DEF Validate
<1>4. CASE ~TooFar(raw)
  BY <1>1, <1>2, <1>3, <1>4, LimitStep
<1>5. CASE TooFar(raw)
  <2>1. phase' = "rejected" /\ reason' = "delta"
    BY <1>2, <1>5 DEF Ends
  <2>2. actual' \in Raw /\ lies' \in 0 .. MaxLies
    BY <1>1, <1>2, Coasting, FirstReading
  <2>3. actual' \in Int
    BY <2>2, ModuloAssumption DEF Raw
  <2>4. /\ now' \in Nat /\ now' >= now /\ recovery' \in Recoveries
        /\ consecutive_invalid' \in 0 .. MAX_CONSECUTIVE_INVALID + 1
    BY <1>1, <1>3 DEF TypeOK, Recoveries
  <2>5. reason' \in Reasons /\ OneOutlierHarmless'
    BY <2>1 DEF Reasons, OneOutlierHarmless
  <2> QED
    BY <1>3, <2>1, <2>2, <2>3, <2>4, <2>5, OverKeeps
<1> QED
  BY <1>4, <1>5

\* backend.goto returns at an exact target, or goes on to plan the motion.
LEMMA StepGotoBegins == ASSUME IInv, GotoBegins PROVE IInv'
<1>1. Before("goto") /\ TypeOK /\ actual \in Raw
  BY DEF GotoBegins, IInv, Fresh, Before
<1>2. PICK raw \in FirstReplies :
        /\ Counts(raw, actual', 0)
        /\ IF raw = target_raw THEN Ends("returned", "exact") ELSE Ends("initial", "none")
  BY DEF GotoBegins
<1>3. UNCHANGED <<now, deadline, target_raw, control, trust, consecutive_invalid, recovery>>
  BY DEF GotoBegins
<1>4. CASE raw # target_raw
  BY <1>1, <1>2, <1>3, <1>4, LimitStep
<1>5. CASE raw = target_raw
  <2>1. phase' = "returned" /\ reason' = "exact"
    BY <1>2, <1>5 DEF Ends
  <2>2. actual' \in Raw /\ lies' \in 0 .. MaxLies
    BY <1>1, <1>2, Coasting, FirstReading
  <2>3. actual' \in Int
    BY <2>2, ModuloAssumption DEF Raw
  <2>4. /\ now' \in Nat /\ now' >= now /\ recovery' \in Recoveries
        /\ consecutive_invalid' \in 0 .. MAX_CONSECUTIVE_INVALID + 1
    BY <1>1, <1>3 DEF TypeOK, Recoveries
  <2>5. reason' \in Reasons /\ OneOutlierHarmless'
    BY <2>1 DEF Reasons, OneOutlierHarmless
  <2> QED
    BY <1>3, <2>1, <2>2, <2>3, <2>4, <2>5, OverKeeps
<1> QED
  BY <1>4, <1>5

\* The first move: target, direction and stage come from one reply.
LEMMA StepInitialRead == ASSUME IInv, InitialRead PROVE IInv'
<1>1. Before("initial") /\ TypeOK /\ InLimit /\ phase = "initial"
      /\ consecutive_invalid = 0 /\ ~pending_opposite /\ history = {} /\ actual \in Raw
  BY DEF InitialRead, IInv, Fresh, Before
<1>2. PICK raw \in FirstReplies :
        /\ Counts(raw, actual', 0)
        /\ raw # target_raw
        /\ Ends("moving", "none")
        /\ sign' = Sign(signed_delta(raw, target_raw))
        /\ start_raw' = raw
        /\ target_unwrapped' = TargetFrom(raw)
        /\ unwrapped' = raw /\ previous_raw' = raw /\ previous_time' = now
        /\ truth' = actual'
        /\ active_stage' = choose_stage(Magnitude(signed_delta(raw, target_raw)))
  BY DEF InitialRead
<1>3. /\ deadline' = now + max_seconds /\ medium_since' = now /\ now' = now
      /\ target_raw' = target_raw /\ pending_opposite' = pending_opposite
      /\ motion_confirmed' = motion_confirmed /\ history' = history
      /\ consecutive_invalid' = consecutive_invalid /\ recovery' = recovery
  BY DEF InitialRead
<1>4. /\ actual' \in Raw
      /\ \A t \in Raw : Magnitude(signed_delta(actual', t))
                          <= Magnitude(signed_delta(actual, t)) + Coast
  BY <1>1, Coasting
<1>5. /\ raw \in Raw
      /\ lies' \in 0 .. MaxLies /\ lies' >= lies
      /\ lies' = 0 => lies = 0 /\ raw = actual'
  BY <1>1, <1>2, <1>4, FirstReading
<1> DEFINE d == signed_delta(raw, target_raw)
<1>6. /\ target_raw \in Raw /\ now \in Nat
      /\ {max_seconds, max_delta_counts, Coast, MaxTicks, MAX_CONSECUTIVE_INVALID} \subseteq Nat
      /\ {raw, target_raw, actual', RAW_MODULO} \subseteq Int
  BY <1>1, <1>4, <1>5, ModuloAssumption, LimitAssumption, EnvironmentAssumption
  DEF TypeOK, Raw
<1>7. /\ d \in Int /\ d - (target_raw - raw) \in {-RAW_MODULO, 0, RAW_MODULO}
      /\ 2 * Magnitude(d) <= RAW_MODULO /\ d # 0
  BY <1>2, <1>5, <1>6, DeltaIsShort
<1>8. /\ target_unwrapped' = raw + d /\ start_raw' = raw /\ unwrapped' = raw
      /\ phase' = "moving" /\ reason' = "none" /\ sign' = Sign(d)
      /\ active_stage' = choose_stage(Magnitude(d))
  BY <1>2 DEF TargetFrom, Ends
<1> HIDE DEF d
<1>9. /\ Magnitude(d) \in Int /\ raw + d \in Int /\ sign' \in {1, -1}
      /\ (raw + d) - raw = d /\ d * sign' = Magnitude(d)
  BY <1>6, <1>7, <1>8 DEF Magnitude, Sign
<1>10. active_stage' \in Stage
  BY <1>8, <1>9, StageFits
<1>11. TypeOK'
  <2>1. {now', deadline', previous_time', medium_since'} \subseteq Nat
    BY <1>2, <1>3, <1>6
  <2>2. {target_unwrapped', unwrapped', actual', truth'} \subseteq Int
    BY <1>2, <1>6, <1>8, <1>9
  <2>3. phase' \in Phases /\ reason' \in Reasons
    BY <1>8 DEF Phases, Reasons
  <2>4. /\ \A s \in history' : s.time \in Nat /\ s.position \in Int
        /\ recovery' \in Recoveries
        /\ {pending_opposite', motion_confirmed'} \subseteq BOOLEAN
        /\ consecutive_invalid' \in 0 .. MAX_CONSECUTIVE_INVALID + 1
    BY <1>1, <1>3 DEF TypeOK, Recoveries
  <2>5. target_raw' \in Raw /\ previous_raw' \in Raw /\ start_raw' \in Raw
    BY <1>2, <1>3, <1>5, <1>6
  <2> QED
    BY <1>5, <1>9, <1>10, <2>1, <2>2, <2>3, <2>4, <2>5 DEF TypeOK, Recoveries
<1>12. Fresh' /\ InLimit'
  BY <1>8 DEF Fresh, InLimit
<1>13. WithinLimit'
  <2> SUFFICES ASSUME lies' = 0
               PROVE  Magnitude(d) <= max_delta_counts + 2 * Coast
    BY <1>8, <1>9 DEF WithinLimit
  <2> DEFINE before == Magnitude(signed_delta(actual, target_raw))
  <2>1. before <= max_delta_counts + Coast /\ Magnitude(d) <= before + Coast
    BY <1>1, <1>4, <1>5, <1>6 DEF InLimit, d
  <2>2. before \in Int
    BY <1>1, <1>6, DeltaIsShort DEF Magnitude
  <2> HIDE DEF before
  <2> QED
    BY <1>6, <1>9, <2>1, <2>2
<1>14. Tracked'
  <2>1. Open' = 0 /\ consecutive_invalid' = 0
    BY <1>1, <1>3 DEF Open
  <2>2. now' - previous_time' = 0 /\ previous_time' <= now'
    BY <1>2, <1>3, <1>6, Nothing
  <2>3. Ahead' = 0
    <3>1. actual' - actual' = 0
      BY <1>6, Nothing
    <3>2. sign' \in Int
      BY <1>9
    <3>3. 0 * sign' = 0
      BY <3>2, Nothing
    <3> QED
      BY <1>2, <3>1, <3>3 DEF Ahead
  <2>4. 0 * Reach' = 0 /\ 0 * MaxTicks = 0
    <3>1. Speed[active_stage'] * MaxTicks \in Int /\ MaxTicks \in Int
      BY <1>6, <1>10, EnvironmentAssumption DEF Stage
    <3>2. Reach' \in Int
      BY <1>8, <3>1 DEF Reach
    <3> QED
      BY <3>1, <3>2, Nothing
  <2>5. 0 <= MAX_CONSECUTIVE_INVALID
    BY <1>6
  <2> QED
    BY <2>1, <2>2, <2>3, <2>4, <2>5 DEF Tracked
<1>15. ShortWay'
  <2>1. \A n \in Raw : n \in Int => n % RAW_MODULO = n
    <3>1. \A n \in Int : n = n + 0 * RAW_MODULO
      BY <1>6
    <3> QED
      BY <3>1, ReadingUnique
  <2>2. unwrapped' % RAW_MODULO = previous_raw'
    BY <1>2, <1>5, <1>6, <2>1
  <2>3. (raw + d) - target_raw = d - (target_raw - raw)
    BY <1>6, <1>7
  <2>4. target_unwrapped' - target_raw' \in {-RAW_MODULO, 0, RAW_MODULO}
    BY <1>3, <1>7, <1>8, <2>3
  <2>5. target_unwrapped' - start_raw' = d
    BY <1>8, <1>9
  <2> QED
    BY <1>7, <2>2, <2>4, <2>5 DEF ShortWay
<1>16. TrustedIsTrue'
  <2>1. actual' - actual' = 0
    BY <1>6, Nothing
  <2> QED
    BY <1>2, <1>5, <2>1 DEF TrustedIsTrue, Trustworthy
<1>17. Outliers'
  BY <1>1, <1>3, <1>8 DEF Outliers, OneOutlierHarmless
<1>18. Following'
  BY <1>8, <1>9 DEF Following, Remaining
<1>19. OwnHistory'
  BY <1>1, <1>3, <1>6 DEF OwnHistory
<1> QED
  BY <1>11, <1>12, <1>13, <1>14, <1>15, <1>16, <1>17, <1>18, <1>19 DEF IInv

\* A read without a valid reply, or nothing left to do, ends the job unmoved.
LEMMA StepNotStarted == ASSUME IInv, NotStarted PROVE IInv'
<1>1. TypeOK /\ Fresh
  BY DEF IInv
<1>2. /\ phase' = "aborted" /\ reason' = "no_initial"
      /\ UNCHANGED <<now, deadline, target_raw, control, trust, consecutive_invalid, recovery>>
  BY DEF NotStarted, Ends
<1>3. actual' \in Int /\ lies' \in 0 .. MaxLies
  <2>1. CASE phase \in {"validate", "goto", "initial"} /\ UNCHANGED <<actual, lies>>
    BY <1>1, <2>1 DEF TypeOK
  <2>2. CASE /\ Before("initial") /\ target_raw \in FirstReplies
             /\ Counts(target_raw, actual', 0)
    <3>1. actual' \in Raw
      BY <1>1, <2>2, Coasting DEF Fresh, Before
    <3> QED
      BY <1>1, <2>2, <3>1, FirstReading, ModuloAssumption DEF Raw
  <2> QED
    BY <2>1, <2>2 DEF NotStarted
<1>4. /\ now' \in Nat /\ now' >= now /\ recovery' \in Recoveries
      /\ consecutive_invalid' \in 0 .. MAX_CONSECUTIVE_INVALID + 1
  BY <1>1, <1>2 DEF TypeOK, Recoveries
<1>5. reason' \in Reasons /\ OneOutlierHarmless'
  BY <1>2 DEF Reasons, OneOutlierHarmless
<1> QED
  BY <1>2, <1>3, <1>4, <1>5, OverKeeps

-----------------------------------------------------------------------------
(***************************************************************************)
(* Iterations without a trusted reply, and the ends of the run.            *)
(***************************************************************************)
\* The deadline and the cancellation end the loop.
LEMMA StepGivesUp == ASSUME IInv, GivesUp PROVE IInv'
<1>1. TypeOK
  BY DEF IInv
<1>2. /\ phase' = "aborted" /\ reason' \in {"duration", "cancelled"}
      /\ UNCHANGED <<now, deadline, target_raw, control, trust, consecutive_invalid,
                     recovery, actual, lies>>
  BY DEF GivesUp, Aborts, Ends
<1>3. /\ now' \in Nat /\ now' >= now /\ recovery' \in Recoveries
      /\ actual' \in Int /\ lies' \in 0 .. MaxLies
      /\ consecutive_invalid' \in 0 .. MAX_CONSECUTIVE_INVALID + 1
  BY <1>1, <1>2 DEF TypeOK, Recoveries
<1>4. reason' \in Reasons /\ OneOutlierHarmless'
  BY <1>2 DEF Reasons, OneOutlierHarmless
<1> QED
  BY <1>2, <1>3, <1>4, OverKeeps

\* So does a recovery window that closes.
LEMMA StepRecoveryFails == ASSUME IInv, RecoveryFails PROVE IInv'
<1>1. TypeOK /\ Sampling
  BY DEF IInv, RecoveryFails
<1>2. /\ phase' = "aborted" /\ reason' = "recovery_failed"
      /\ UNCHANGED <<deadline, target_raw, control, trust, consecutive_invalid,
                     recovery, lies>>
  BY DEF RecoveryFails, Aborts, Ends
<1>3. now' \in Nat /\ now' >= now /\ actual' \in Int
  <2>1. now' \in Nat /\ now' > now /\ now \in Nat /\ actual' \in Int
    BY <1>1, Iteration DEF TypeOK
  <2> QED
    BY <2>1
<1>4. /\ recovery' \in Recoveries /\ lies' \in 0 .. MaxLies
      /\ consecutive_invalid' \in 0 .. MAX_CONSECUTIVE_INVALID + 1
  BY <1>1, <1>2 DEF TypeOK, Recoveries
<1>5. reason' \in Reasons /\ OneOutlierHarmless'
  BY <1>2 DEF Reasons, OneOutlierHarmless
<1> QED
  BY <1>2, <1>3, <1>4, <1>5, OverKeeps

\* The settle loop ends by its clock.
LEMMA StepSettleEnds == ASSUME IInv, SettleEnds PROVE IInv'
<1>1. TypeOK /\ Outliers /\ phase = "settle"
  BY DEF IInv, SettleEnds
<1>2. /\ phase' = "returned" /\ reason' = reason /\ reason # "opposite"
      /\ now' \in now + 1 .. now + MaxTicks
      /\ UNCHANGED <<deadline, target_raw, control, trust, consecutive_invalid,
                     recovery, actual, lies>>
  BY <1>1 DEF SettleEnds, Outliers
<1>3. now' \in Nat /\ now' >= now
  <2>1. {now, MaxTicks} \subseteq Nat
    BY <1>1, EnvironmentAssumption DEF TypeOK
  <2> QED
    BY <1>2, <2>1
<1>4. /\ recovery' \in Recoveries /\ actual' \in Int /\ lies' \in 0 .. MaxLies
      /\ consecutive_invalid' \in 0 .. MAX_CONSECUTIVE_INVALID + 1
      /\ reason' \in Reasons
  BY <1>1, <1>2 DEF TypeOK, Recoveries
<1>5. OneOutlierHarmless'
  BY <1>2 DEF OneOutlierHarmless
<1> QED
  BY <1>2, <1>3, <1>4, <1>5, OverKeeps

\* An invalid reply is counted, and one too many ends the run.
LEMMA StepInvalidReply == ASSUME IInv, InvalidReply PROVE IInv'
<1>1. TypeOK /\ Tracked /\ Outliers /\ Sampling
  BY DEF IInv, InvalidReply, Queries
<1>2. /\ consecutive_invalid' = consecutive_invalid + 1
      /\ IF TooMany(consecutive_invalid') THEN Aborts("invalid")
                                          ELSE UNCHANGED <<phase, reason>>
      /\ recovery' = Checked(unwrapped)
      /\ UNCHANGED <<deadline, target_raw, control, trust>>
  BY DEF InvalidReply
<1>3. Controlling /\ now' \in Nat /\ now' > now /\ now \in Nat /\ actual' \in Int
  BY <1>1, Iteration DEF TypeOK
<1>4. recovery' \in Recoveries
  BY <1>1, <1>2, CheckedOK DEF Recoveries
<1>5. lies' \in 0 .. MaxLies /\ lies' >= lies
  <2>1. CASE UNCHANGED lies
    BY <1>1, <2>1 DEF TypeOK
  <2>2. CASE \E raw \in Replies(actual', sign) :
               Implausible(raw) /\ Counts(raw, actual', sign)
    BY <1>1, <2>2, LiesCounted
  <2> QED
    BY <2>1, <2>2 DEF InvalidReply
<1>6. /\ consecutive_invalid \in 0 .. MAX_CONSECUTIVE_INVALID
      /\ MAX_CONSECUTIVE_INVALID \in Nat /\ pending_opposite \in BOOLEAN
  BY <1>1, <1>3, LimitAssumption DEF TypeOK, Tracked
<1>7. CASE TooMany(consecutive_invalid')
  <2>1. phase' = "aborted" /\ reason' = "invalid"
    BY <1>2, <1>7 DEF Aborts, Ends
  <2>2. consecutive_invalid' \in 0 .. MAX_CONSECUTIVE_INVALID + 1 /\ now' >= now
    BY <1>2, <1>3, <1>6
  <2>3. reason' \in Reasons /\ OneOutlierHarmless'
    BY <2>1 DEF Reasons, OneOutlierHarmless
  <2> QED
    BY <1>2, <1>3, <1>4, <1>5, <2>1, <2>2, <2>3, OverKeeps
<1>8. CASE ~TooMany(consecutive_invalid')
  <2>1. UNCHANGED <<phase, reason>> /\ consecutive_invalid' \in 0 .. MAX_CONSECUTIVE_INVALID
    BY <1>2, <1>6, <1>8 DEF TooMany
  <2>2. /\ pending_opposite' = pending_opposite
        /\ UNCHANGED <<unwrapped, previous_raw, previous_time, truth>>
    BY <1>2 DEF trust
  <2>3. Open' = Open + 1
    BY <1>2, <1>6, <2>2 DEF Open
  <2>4. pending_opposite' /\ Trustworthy => lies' >= 1
    <3>1. lies \in Int /\ lies' \in Int
      BY <1>1, <1>5 DEF TypeOK
    <3> QED
      BY <1>1, <1>3, <1>5, <2>2, <3>1 DEF Outliers
  <2> QED
    BY <1>1, <1>2, <1>4, <1>5, <1>6, <2>1, <2>2, <2>3, <2>4, LostKeeps
<1> QED
  BY <1>7, <1>8

\* An opposite reply to a position that is true has been corrupted.
LEMMA OppositeIsLie ==
  ASSUME IInv, OppositeReply
  PROVE  /\ Sampling /\ lies' \in 0 .. MaxLies /\ lies' >= lies
         /\ Trustworthy => lies' = lies + 1
<1>1. TypeOK /\ Tracked /\ ShortWay /\ Sampling
  BY DEF IInv, OppositeReply, Queries
<1>2. PICK raw \in Replies(actual', sign) : Plausible(raw) /\ Opposite(raw)
  BY DEF OppositeReply
<1>3. Counts(raw, actual', sign)
  BY <1>2 DEF Plausible
<1>4. /\ lies' \in 0 .. MaxLies /\ lies' >= lies
      /\ raw \notin Reads(actual', sign) => lies' = lies + 1
  BY <1>1, <1>3, LiesCounted
<1>5. Trustworthy => raw \notin Reads(actual', sign)
  <2> SUFFICES ASSUME Trustworthy, raw \in Reads(actual', sign)
               PROVE  FALSE
    OBVIOUS
  <2> DEFINE d == signed_delta(previous_raw, raw) * sign
  <2>1. d >= -1
    BY <1>1, HonestReply
  <2>2. d <= -OPPOSITE_COUNTS
    BY <1>2 DEF Opposite
  <2>3. d \in Int /\ OPPOSITE_COUNTS \in Nat /\ OPPOSITE_COUNTS > 1
    <3>1. actual' \in Int /\ sign \in {1, -1} /\ previous_raw \in Raw
      BY <1>1, Iteration DEF TypeOK
    <3>2. raw \in Raw
      BY <3>1, RepliesAreRaw
    <3>3. signed_delta(previous_raw, raw) \in Int
      BY <3>1, <3>2, DeltaIsShort
    <3> QED
      BY <3>1, <3>3, LimitAssumption
  <2> HIDE DEF d
  <2> QED
    BY <2>1, <2>2, <2>3
<1> QED
  BY <1>1, <1>4, <1>5

\* An opposite reply is set aside once ...
LEMMA StepOppositePending == ASSUME IInv, OppositePending PROVE IInv'
<1>1. TypeOK /\ Tracked /\ OppositeReply /\ ~pending_opposite
  BY DEF IInv, OppositePending, SetsAside
<1>2. /\ pending_opposite' = TRUE /\ recovery' = Checked(unwrapped)
      /\ UNCHANGED <<phase, reason, deadline, target_raw, control, unwrapped,
                     previous_raw, previous_time, truth, consecutive_invalid>>
  BY DEF OppositePending, SetsAside
<1>3. /\ Sampling /\ lies' \in 0 .. MaxLies /\ lies' >= lies
      /\ Trustworthy => lies' = lies + 1
  BY <1>1, OppositeIsLie
<1>4. recovery' \in Recoveries
  BY <1>1, <1>2, CheckedOK DEF Recoveries
<1>5. Controlling
  BY <1>1, <1>3, Iteration
<1>6. consecutive_invalid \in 0 .. MAX_CONSECUTIVE_INVALID
  BY <1>1, <1>5, LimitAssumption DEF TypeOK, Tracked
<1>7. Open' = Open + 1
  BY <1>1, <1>2, <1>6, LimitAssumption DEF Open
<1>8. Trustworthy => lies' >= 1
  BY <1>1, <1>3 DEF TypeOK
<1> QED
  BY <1>2, <1>3, <1>4, <1>6, <1>7, <1>8, LostKeeps

\* ... and a second one ends the run.
LEMMA StepOppositeConfirmed == ASSUME IInv, OppositeConfirmed PROVE IInv'
<1>1. TypeOK /\ Outliers /\ OppositeReply /\ pending_opposite
  BY DEF IInv, OppositeConfirmed, Confirms
<1>2. /\ phase' = "aborted" /\ reason' = "opposite" /\ recovery' = Checked(unwrapped)
      /\ UNCHANGED <<deadline, target_raw, control, trust, consecutive_invalid>>
  BY DEF OppositeConfirmed, Confirms, Aborts, Ends
<1>3. /\ Sampling /\ lies' \in 0 .. MaxLies /\ lies' >= lies
      /\ Trustworthy => lies' = lies + 1
  BY <1>1, OppositeIsLie
<1>4. Controlling /\ now' \in Nat /\ now' > now /\ now \in Nat /\ actual' \in Int
  BY <1>1, <1>3, Iteration DEF TypeOK
<1>5. /\ recovery' \in Recoveries /\ now' >= now
      /\ consecutive_invalid' \in 0 .. MAX_CONSECUTIVE_INVALID + 1
  BY <1>1, <1>2, <1>4, CheckedOK DEF TypeOK, Recoveries
<1>6. OneOutlierHarmless'
  <2>1. Trustworthy' => Trustworthy
    BY <1>2 DEF Trustworthy, trust, control
  <2>2. Trustworthy => lies >= 1 /\ lies \in Int /\ lies' = lies + 1
    BY <1>1, <1>3, <1>4 DEF Outliers, TypeOK
  <2> QED
    BY <2>1, <2>2 DEF OneOutlierHarmless
<1>7. reason' \in Reasons
  BY <1>2 DEF Reasons
<1> QED
  BY <1>2, <1>3, <1>4, <1>5, <1>6, <1>7, OverKeeps

-----------------------------------------------------------------------------
(***************************************************************************)
(* Trusted replies.                                                        *)
(***************************************************************************)
\* The types a trusted reply leaves, when what the handler decides has its own.
LEMMA TrustedTypes ==
  ASSUME IInv, TrustedReply,
         phase' \in Phases, reason' \in Reasons,
         {deadline', medium_since'} \subseteq Nat, active_stage' \in Stage,
         \A s \in history' : s.time \in Nat /\ s.position \in Int,
         recovery' \in Recoveries
  PROVE  TypeOK'
<1>1. TypeOK
  BY DEF IInv
<1>2. /\ now' \in Nat /\ actual' \in Int
      /\ previous_raw' \in Raw /\ unwrapped' \in Int
      /\ pending_opposite' = FALSE /\ consecutive_invalid' = 0
      /\ previous_time' = now' /\ truth' = actual'
      /\ motion_confirmed' \in BOOLEAN
      /\ UNCHANGED <<target_raw, sign, target_unwrapped, start_raw>>
      /\ lies' \in 0 .. MaxLies
  BY TrustedStep
<1>3. 0 \in 0 .. MAX_CONSECUTIVE_INVALID + 1
  BY LimitAssumption
<1> QED
  BY <1>1, <1>2, <1>3 DEF TypeOK, Recoveries

\* The distance left after a trusted reply is the one the stage is chosen for.
LEMMA DistanceLeft ==
  ASSUME IInv, TrustedReply
  PROVE  /\ Remaining \in Int /\ Remaining' \in Int
         /\ Remaining' = Remaining - (unwrapped' - unwrapped) * sign
<1>1. {unwrapped, unwrapped', target_unwrapped} \subseteq Int /\ sign \in {1, -1}
      /\ sign' = sign /\ target_unwrapped' = target_unwrapped
  BY TrustedStep DEF IInv, TypeOK
<1>2. Remaining' = (target_unwrapped - unwrapped') * sign
  BY <1>1 DEF Remaining
<1>3. (target_unwrapped - unwrapped') * sign
        = (target_unwrapped - unwrapped) * sign - (unwrapped' - unwrapped) * sign
      /\ (target_unwrapped - unwrapped') * sign \in Int
      /\ (target_unwrapped - unwrapped) * sign \in Int
  BY <1>1
<1> QED
  BY <1>2, <1>3 DEF Remaining

\* What MEDIUM looks back on when a reply comes, that reply included.
LEMMA MeasuredOwn ==
  ASSUME IInv, TrustedReply
  PROVE  /\ \A s \in Measured : s.time \in Nat /\ s.position \in Int
         /\ active_stage = Medium => \A s \in Measured : s.time >= medium_since
<1>1. TypeOK /\ OwnHistory
  BY DEF IInv
<1>2. {now, now', medium_since} \subseteq Nat /\ now' > now /\ unwrapped' \in Int
      /\ medium_since <= now /\ sign \in {1, -1}
  BY <1>1, TrustedStep DEF TypeOK, OwnHistory
<1> DEFINE new == [time |-> now', position |-> unwrapped' * sign]
<1>3. unwrapped' * sign \in Int
  BY <1>2
<1>4. new.time \in Nat /\ new.position \in Int /\ new.time >= medium_since
  <2>1. now' \in Nat /\ now' >= medium_since
    BY <1>2
  <2>2. new.time = now' /\ new.position = unwrapped' * sign
    OBVIOUS
  <2> QED
    BY <1>3, <2>1, <2>2
<1> HIDE DEF new
<1>5. \A s \in Measured : s \in history \/ s = new
  BY DEF Measured, Recent, new
<1> QED
  BY <1>1, <1>4, <1>5 DEF TypeOK, OwnHistory

\* A stage is selected for the distance; a MEDIUM that begins begins without
\* history.
LEMMA SelectsOwn ==
  ASSUME IInv, TrustedReply, NEW samples, Selects(samples),
         \A s \in samples : s.time \in Nat /\ s.position \in Int,
         active_stage = Medium => \A s \in samples : s.time >= medium_since
  PROVE  /\ active_stage' = choose_stage(Remaining') /\ active_stage' \in Stage
         /\ \A s \in history' : s.time \in Nat /\ s.position \in Int
         /\ medium_since' \in Nat
         /\ OwnHistory'
<1>1. TypeOK /\ OwnHistory
  BY DEF IInv
<1>2. {now, now', medium_since} \subseteq Nat /\ now' > now /\ medium_since <= now
  BY <1>1, TrustedStep DEF TypeOK, OwnHistory
<1> DEFINE stage == choose_stage(Remaining')
           begins == stage = Medium /\ stage # active_stage
<1>3. /\ active_stage' = stage
      /\ history' = IF begins THEN {} ELSE samples
      /\ medium_since' = IF begins THEN now' ELSE medium_since
  BY DEF Selects
<1>4. stage \in Stage
  BY DistanceLeft, StageFits
<1>5. medium_since' \in Nat /\ medium_since' <= now'
  <2>1. now' <= now' /\ medium_since <= now'
    BY <1>2
  <2> QED
    BY <1>2, <1>3, <2>1
<1> HIDE DEF stage
<1>6. active_stage' = Medium => \A s \in history' : s.time >= medium_since'
  BY <1>3
<1> QED
  BY <1>3, <1>4, <1>5, <1>6 DEF OwnHistory, stage

\* Within the margin the axis is stopped and watched.
LEMMA StepReaches == ASSUME IInv, Reaches PROVE IInv'
<1>1. TypeOK /\ OwnHistory /\ TrustedReply
  BY DEF IInv, Reaches
<1>2. /\ phase' = "settle" /\ reason' = "reached" /\ deadline' = now' + settle_seconds
      /\ recovery' = Checked(unwrapped)
      /\ UNCHANGED <<active_stage, history, medium_since>>
  BY DEF Reaches, Ends
<1>3. {now, now', medium_since, settle_seconds} \subseteq Nat /\ now' > now
      /\ medium_since <= now
  BY <1>1, TrustedStep, LimitAssumption DEF TypeOK, OwnHistory
<1>4. Controlling'
  BY <1>2 DEF Controlling
<1>5. TypeOK'
  <2>1. phase' \in Phases /\ reason' \in Reasons
    BY <1>2 DEF Phases, Reasons
  <2>2. {deadline', medium_since'} \subseteq Nat
    BY <1>2, <1>3
  <2>3. /\ active_stage' \in Stage
        /\ \A s \in history' : s.time \in Nat /\ s.position \in Int
    BY <1>1, <1>2 DEF TypeOK
  <2>4. recovery' \in Recoveries
    BY <1>1, <1>2, CheckedOK DEF Recoveries
  <2> QED
    BY <1>1, <2>1, <2>2, <2>3, <2>4, TrustedTypes
<1>6. /\ Fresh' /\ InLimit' /\ WithinLimit' /\ Tracked'
      /\ ShortWay' /\ TrustedIsTrue' /\ Outliers'
  <2>1. active_stage' \in Stage
    BY <1>1, <1>2 DEF TypeOK
  <2> QED
    BY <1>1, <1>2, <1>4, <2>1, TrustedKeeps
<1>7. Following'
  BY <1>2 DEF Following
<1>8. OwnHistory'
  <2>1. medium_since <= now'
    BY <1>3
  <2> QED
    BY <1>1, <1>2, <2>1 DEF OwnHistory
<1> QED
  BY <1>5, <1>6, <1>7, <1>8 DEF IInv

\* While it settles its position is still counted.
LEMMA StepSettles == ASSUME IInv, Settles PROVE IInv'
<1>1. TypeOK /\ OwnHistory /\ Outliers /\ TrustedReply /\ phase = "settle"
  BY DEF IInv, Settles
<1>2. /\ recovery' = Checked(unwrapped)
      /\ UNCHANGED <<phase, reason, deadline, active_stage, history, medium_since>>
  BY DEF Settles
<1>3. {now, now', medium_since} \subseteq Nat /\ now' > now /\ medium_since <= now
  BY <1>1, TrustedStep DEF TypeOK, OwnHistory
<1>4. Controlling' /\ reason' # "opposite"
  BY <1>1, <1>2 DEF Controlling, Outliers
<1>5. active_stage' \in Stage
  BY <1>1, <1>2 DEF TypeOK
<1>6. TypeOK'
  <2>1. /\ phase' \in Phases /\ reason' \in Reasons
        /\ {deadline', medium_since'} \subseteq Nat
        /\ \A s \in history' : s.time \in Nat /\ s.position \in Int
    BY <1>1, <1>2 DEF TypeOK
  <2>2. recovery' \in Recoveries
    BY <1>1, <1>2, CheckedOK DEF Recoveries
  <2> QED
    BY <1>1, <1>5, <2>1, <2>2, TrustedTypes
<1>7. /\ Fresh' /\ InLimit' /\ WithinLimit' /\ Tracked'
      /\ ShortWay' /\ TrustedIsTrue' /\ Outliers'
  BY <1>1, <1>2, <1>4, <1>5, TrustedKeeps
<1>8. Following'
  BY <1>1, <1>2 DEF Following
<1>9. OwnHistory'
  <2>1. medium_since <= now'
    BY <1>3
  <2> QED
    BY <1>1, <1>2, <2>1 DEF OwnHistory
<1> QED
  BY <1>6, <1>7, <1>8, <1>9 DEF IInv

\* A reply the loop drives on from: the stage follows the distance.
LEMMA DrivesOn ==
  ASSUME IInv, TrustedReply, phase = "moving",
         NEW samples \in {history, Measured}, Selects(samples),
         recovery' \in Recoveries, UNCHANGED <<phase, reason, deadline>>
  PROVE  IInv'
<1>1. TypeOK /\ OwnHistory /\ Outliers
  BY DEF IInv
<1>2. /\ \A s \in samples : s.time \in Nat /\ s.position \in Int
      /\ active_stage = Medium => \A s \in samples : s.time >= medium_since
  BY <1>1, MeasuredOwn DEF TypeOK, OwnHistory
<1>3. /\ active_stage' = choose_stage(Remaining') /\ active_stage' \in Stage
      /\ \A s \in history' : s.time \in Nat /\ s.position \in Int
      /\ medium_since' \in Nat
      /\ OwnHistory'
  BY <1>2, SelectsOwn
<1>4. Controlling' /\ reason' # "opposite"
  BY <1>1 DEF Controlling, Outliers
<1>5. TypeOK'
  <2>1. phase' \in Phases /\ reason' \in Reasons /\ {deadline', medium_since'} \subseteq Nat
    BY <1>1, <1>3 DEF TypeOK
  <2> QED
    BY <1>3, <2>1, TrustedTypes
<1>6. /\ Fresh' /\ InLimit' /\ WithinLimit' /\ Tracked'
      /\ ShortWay' /\ TrustedIsTrue' /\ Outliers'
  BY <1>3, <1>4, TrustedKeeps
<1>7. Following'
  BY <1>3 DEF Following
<1> QED
  BY <1>3, <1>5, <1>6, <1>7 DEF IInv

\* The loop drives on, in the stage of the distance.
LEMMA StepDrives == ASSUME IInv, Drives PROVE IInv'
<1>1. TrustedReply /\ phase = "moving" /\ UNCHANGED <<phase, reason, deadline>>
      /\ recovery' = Checked(unwrapped') /\ TypeOK
  BY DEF Drives, IInv
<1>2. Selects(IF Eligible THEN Measured ELSE history)
  BY DEF Drives
<1>3. recovery' \in Recoveries
  BY <1>1, CheckedOK DEF Recoveries
<1> QED
  BY <1>1, <1>2, <1>3, DrivesOn

\* The one resend drives on as well.
LEMMA StepResends == ASSUME IInv, Resends PROVE IInv'
<1>1. TrustedReply /\ phase = "moving" /\ UNCHANGED <<phase, reason, deadline>>
      /\ Selects(Measured)
  BY DEF Resends
<1>2. recovery' = [attempted |-> TRUE, start |-> unwrapped',
                   deadline |-> now' + RECOVERY_WINDOW, success |-> FALSE]
  BY DEF Resends
<1>3. unwrapped' \in Int /\ now' \in Nat /\ RECOVERY_WINDOW \in Nat
  BY <1>1, TrustedStep, LimitAssumption
<1>4. now' + RECOVERY_WINDOW \in Nat
  <2>1. {now', RECOVERY_WINDOW} \subseteq Nat
    BY <1>3
  <2> QED
    BY <2>1
<1>5. recovery' \in Recoveries
  BY <1>2, <1>3, <1>4 DEF Recoveries
<1> QED
  BY <1>1, <1>5, DrivesOn

\* Every step of the run keeps the invariant.
THEOREM Inductive == IInv /\ [Next]_vars => IInv'
<1> SUFFICES ASSUME IInv, [Next]_vars
             PROVE  IInv'
  OBVIOUS
<1>1. CASE Validate        BY <1>1, StepValidate
<1>2. CASE GotoBegins      BY <1>2, StepGotoBegins
<1>3. CASE InitialRead     BY <1>3, StepInitialRead
<1>4. CASE NotStarted      BY <1>4, StepNotStarted
<1>5. CASE GivesUp         BY <1>5, StepGivesUp
<1>6. CASE RecoveryFails   BY <1>6, StepRecoveryFails
<1>7. CASE InvalidReply    BY <1>7, StepInvalidReply
<1>8. CASE OppositePending BY <1>8, StepOppositePending
<1>9. CASE OppositeConfirmed BY <1>9, StepOppositeConfirmed
<1>10. CASE Reaches        BY <1>10, StepReaches
<1>11. CASE Drives         BY <1>11, StepDrives
<1>12. CASE Resends        BY <1>12, StepResends
<1>13. CASE Settles        BY <1>13, StepSettles
<1>14. CASE SettleEnds     BY <1>14, StepSettleEnds
<1>15. CASE UNCHANGED vars
  <2>1. UNCHANGED <<phase, reason, now, deadline, target_raw, consecutive_invalid,
                    recovery, actual, lies>>
        /\ UNCHANGED <<sign, target_unwrapped, start_raw, active_stage, history,
                       motion_confirmed, medium_since>>
        /\ UNCHANGED <<unwrapped, previous_raw, previous_time, pending_opposite, truth>>
    BY <1>15 DEF vars, control, trust
  <2>2. TypeOK' /\ Fresh' /\ InLimit'
    BY <2>1 DEF IInv, TypeOK, Fresh, InLimit
  <2>3. WithinLimit' /\ Tracked' /\ ShortWay' /\ TrustedIsTrue'
    BY <2>1 DEF IInv, WithinLimit, Tracked, ShortWay, TrustedIsTrue, Trustworthy,
                Controlling, Open, Reach, Ahead
  <2>4. Outliers' /\ Following' /\ OwnHistory'
    BY <2>1 DEF IInv, Outliers, OneOutlierHarmless, Trustworthy, Controlling,
                Following, Remaining, OwnHistory
  <2> QED
    BY <2>2, <2>3, <2>4 DEF IInv
<1> QED
  BY <1>1, <1>2, <1>3, <1>4, <1>5, <1>6, <1>7, <1>8, <1>9, <1>10, <1>11, <1>12,
     <1>13, <1>14, <1>15 DEF Next

-----------------------------------------------------------------------------
(***************************************************************************)
(* The theorems.                                                           *)
(***************************************************************************)
\* The invariant holds throughout.
THEOREM Invariance == Spec => []IInv
BY InitOK, Inductive, PTL DEF Spec

\* Every field of the controller and of its run keeps its type.
THEOREM TypeCorrect == Spec => []TypeOK
<1>1. IInv => TypeOK
  BY DEF IInv
<1> QED
  BY <1>1, Invariance, PTL

\* However lost, corrupted and late replies mix, the sampling loop never drives
\* on a position older than the tolerated replies and one set aside.
THEOREM NeverDrivenBlind == Spec => []NeverBlind
<1>1. IInv => NeverBlind
  <2> SUFFICES ASSUME IInv, Controlling
               PROVE  now - previous_time <= (MAX_CONSECUTIVE_INVALID + 1) * MaxTicks
    BY DEF NeverBlind
  <2>1. {now, previous_time, MAX_CONSECUTIVE_INVALID, MaxTicks, consecutive_invalid} \subseteq Nat
        /\ pending_opposite \in BOOLEAN
        /\ consecutive_invalid <= MAX_CONSECUTIVE_INVALID
        /\ now - previous_time <= Open * MaxTicks
    BY LimitAssumption, EnvironmentAssumption DEF IInv, TypeOK, Tracked
  <2> DEFINE more == MAX_CONSECUTIVE_INVALID + 1 - Open
  <2>2. Open \in Nat /\ more \in Nat /\ MAX_CONSECUTIVE_INVALID + 1 = Open + more
    BY <2>1 DEF Open
  <2> HIDE DEF more
  <2>3. /\ (Open + more) * MaxTicks = Open * MaxTicks + more * MaxTicks
        /\ more * MaxTicks \in Nat /\ Open * MaxTicks \in Nat
    BY <2>1, <2>2
  <2>4. now - previous_time \in Int
    BY <2>1
  <2>5. now - previous_time <= (Open + more) * MaxTicks
    BY <2>1, <2>3, <2>4
  <2> QED
    BY <2>2, <2>5
<1> QED
  BY <1>1, Invariance, PTL

\* Unwrapping: the run approaches the target it was given, the short way, and
\* counts the motion there is, wherever the wrap lies.
THEOREM CountingIsRight == Spec => []CountsAcrossWrap
<1>1. IInv => CountsAcrossWrap
  BY DEF IInv, CountsAcrossWrap
<1> QED
  BY <1>1, Invariance, PTL

\* The opposite-reply rule: one corrupted reply does not end a run.
THEOREM OneOutlierDoesNotAbort == Spec => []OneOutlierHarmless
<1>1. IInv => OneOutlierHarmless
  BY DEF IInv, Outliers
<1> QED
  BY <1>1, Invariance, PTL

\* The validator's limit holds for the motion that is planned from a later
\* reading.
THEOREM LimitIsKept == Spec => []WithinLimit
<1>1. IInv => WithinLimit
  BY DEF IInv
<1> QED
  BY <1>1, Invariance, PTL

\* While the loop drives, only a trusted reply changes the stage.
LEMMA StageChanges ==
  ASSUME IInv, [Next]_vars, phase = "moving", phase' = "moving",
         active_stage' # active_stage
  PROVE  TrustedReply /\ active_stage' = choose_stage(Remaining')
<1>1. ~UNCHANGED vars /\ ~InvalidReply /\ ~OppositePending
  BY DEF vars, control, InvalidReply, OppositePending, SetsAside
<1>2. ~Validate /\ ~GotoBegins /\ ~InitialRead /\ ~NotStarted
  BY DEF Validate, GotoBegins, InitialRead, NotStarted, Before, Ends
<1>3. ~GivesUp /\ ~RecoveryFails /\ ~OppositeConfirmed /\ ~Reaches /\ ~Settles /\ ~SettleEnds
  BY DEF GivesUp, RecoveryFails, OppositeConfirmed, Confirms, Reaches, Settles,
         SettleEnds, Aborts, Ends
<1>4. Drives \/ Resends
  BY <1>1, <1>2, <1>3 DEF Next
<1> QED
  BY <1>4 DEF Drives, Resends, Selects

\* The stage only follows the distance down; what may raise it is a reply that
\* runs back across a threshold by less than an opposite one.
THEOREM PayloadNeverRaised == Spec => Decelerates
<1> DEFINE Lowered ==
      phase = "moving" /\ phase' = "moving" /\ active_stage' < active_stage
        => LET excess == Remaining' - Threshold[active_stage'] IN
           /\ excess \in 1 .. OPPOSITE_COUNTS - 1
           /\ lies' = 0 => excess = 1
<1>1. ASSUME IInv, [Next]_vars  PROVE Lowered
  <2> SUFFICES ASSUME phase = "moving", phase' = "moving", active_stage' < active_stage
               PROVE  /\ Remaining' - Threshold[active_stage'] \in 1 .. OPPOSITE_COUNTS - 1
                      /\ lies' = 0 => Remaining' - Threshold[active_stage'] = 1
    OBVIOUS
  <2>1. TypeOK /\ Following /\ active_stage \in Stage /\ Stage = 1 .. Len(Threshold)
        /\ Len(Threshold) \in Nat
    BY <1>1, StageAssumption DEF IInv, TypeOK, Stage
  <2>2. active_stage' # active_stage
    BY <2>1 DEF Stage
  <2>3. TrustedReply /\ active_stage' = choose_stage(Remaining')
    BY <1>1, <2>2, StageChanges
  <2>4. /\ Remaining \in Int /\ Remaining' \in Int
        /\ Remaining' = Remaining - (unwrapped' - unwrapped) * sign
    BY <1>1, <2>3, DistanceLeft
  <2>5. /\ (unwrapped' - unwrapped) * sign > -OPPOSITE_COUNTS
        /\ lies' = 0 => (unwrapped' - unwrapped) * sign >= -1
        /\ {unwrapped, unwrapped'} \subseteq Int /\ sign \in {1, -1}
    BY <1>1, <2>1, <2>3, TrustedStep DEF TypeOK
  <2>6. active_stage = choose_stage(Remaining)
    BY <2>1 DEF Following
  <2>7. active_stage' \in Stage /\ (Remaining' > Threshold[active_stage']
                                      \/ active_stage' = Len(Threshold))
    BY <2>3, <2>4, StageFits
  <2>8. Remaining <= Threshold[active_stage']
    BY <2>4, <2>6, <2>7, StageFits
  <2>9. Remaining' > Threshold[active_stage']
    BY <2>1, <2>7
  <2>10. Threshold[active_stage'] \in Int /\ OPPOSITE_COUNTS \in Int
    BY <2>7, StageAssumption, LimitAssumption DEF Stage
  <2> DEFINE back == (unwrapped' - unwrapped) * sign
             level == Threshold[active_stage']
             left == Remaining'
  <2>11. back \in Int
    BY <2>5
  <2>12. /\ left \in Int /\ level \in Int /\ Remaining \in Int /\ OPPOSITE_COUNTS \in Int
         /\ left = Remaining - back /\ Remaining <= level /\ left > level
         /\ back > -OPPOSITE_COUNTS /\ (lies' = 0 => back >= -1)
    BY <2>4, <2>5, <2>8, <2>9, <2>10
  <2> HIDE DEF back, level, left
  <2>13. left - level \in 1 .. OPPOSITE_COUNTS - 1 /\ (lies' = 0 => left - level = 1)
    BY <2>11, <2>12
  <2> QED
    BY <2>13 DEF left, level
<1>2. IInv /\ [Next]_vars => [Lowered]_vars
  BY <1>1
<1> HIDE DEF Lowered
<1>3. Spec => [][Lowered]_vars
  BY <1>2, Invariance, PTL DEF Spec
<1> QED
  BY <1>3, PTL DEF Decelerates, Lowered

\* The one resend of the MEDIUM payload rests on a whole window of MEDIUM.
THEOREM ResendsOnOwnEvidence == Spec => EvidenceWithinMedium
<1> DEFINE Evident ==
      ~recovery.attempted /\ recovery'.attempted
        => active_stage = Medium /\ now' - medium_since >= PROGRESS_WINDOW
<1>1. ASSUME IInv, [Next]_vars  PROVE Evident
  <2> SUFFICES ASSUME ~recovery.attempted, recovery'.attempted
               PROVE  active_stage = Medium /\ now' - medium_since >= PROGRESS_WINDOW
    OBVIOUS
  <2>1. TypeOK /\ OwnHistory
    BY <1>1 DEF IInv
  <2>2. recovery' # recovery /\ \A u : recovery' # Checked(u)
    BY <2>1, CheckedOK
  <2>3. Resends
    BY <1>1, <2>2 DEF Next, vars, Validate, GotoBegins, InitialRead, NotStarted,
       GivesUp, RecoveryFails, InvalidReply, OppositePending, SetsAside,
       OppositeConfirmed, Confirms, Reaches, Drives, Settles, SettleEnds
  <2>4. TrustedReply /\ active_stage = Medium /\ Stalled
    BY <2>3 DEF Resends, Eligible
  <2>5. PICK s \in Measured : s.time <= now' - PROGRESS_WINDOW
    BY <2>4 DEF Stalled
  <2>6. s.time \in Nat /\ s.time >= medium_since
    BY <1>1, <2>4, MeasuredOwn
  <2>7. {now', PROGRESS_WINDOW, medium_since} \subseteq Nat
    BY <1>1, <2>1, <2>4, TrustedStep, LimitAssumption DEF TypeOK
  <2>8. now' - medium_since >= PROGRESS_WINDOW
    BY <2>5, <2>6, <2>7
  <2> QED
    BY <2>4, <2>8
<1>2. IInv /\ [Next]_vars => [Evident]_vars
  BY <1>1
<1> HIDE DEF Evident
<1>3. Spec => [][Evident]_vars
  BY <1>2, Invariance, PTL DEF Spec
<1> QED
  BY <1>3, PTL DEF EvidenceWithinMedium, Evident
=============================================================================
