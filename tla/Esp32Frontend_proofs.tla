------------------------- MODULE Esp32Frontend_proofs -------------------------
(***************************************************************************)
(* Proofs about Esp32Frontend, for any clients, every period and timeout   *)
(* and every clock long enough for them.  IInv is the inductive invariant: *)
(* where the pieces of the client's stream are, and how much real time     *)
(* lies between the clock and each of the times that poll() remembers.     *)
(***************************************************************************)
EXTENDS Esp32Frontend, Integers, SequenceTheorems, TLAPS

-----------------------------------------------------------------------------
(***************************************************************************)
(* What the loop may rely on when TCP cuts a stream of frames into chunks  *)
(* of any size (as in TcpServer_proofs).                                   *)
(***************************************************************************)
\* Frame number k of client c, and what is left over of t pieces.
Frame(c, k) == <<<<c, 2 * k - 1>>, <<c, 2 * k>>>>
LeftOver(c, t) == IF t % 2 = 1 THEN <<<<c, t>>>> ELSE <<>>

\* The frames that n pieces more than t complete.
Completed(c, t, n) == [k \in 1 .. ((t + n) \div 2) - (t \div 2) |-> Frame(c, (t \div 2) + k)]

\* A frame is a whole one, of its client, and knows its number.
LEMMA FrameFacts ==
  ASSUME NEW c, NEW k \in Int
  PROVE  /\ IsFrame(Frame(c, k)) /\ Frame(c, k)[1][1] = c
         /\ FrameNumber(Frame(c, k)) = k
<1>1. /\ 2 * k = (2 * k - 1) + 1 /\ (2 * k) % 2 = 0 /\ (2 * k) \div 2 = k
  OBVIOUS
<1> QED
  BY <1>1 DEF IsFrame, Frame, FrameNumber

\* The complete frames among t pieces, and the piece left over.
LEMMA Halves ==
  ASSUME NEW t \in Nat
  PROVE  /\ t \div 2 \in Nat /\ t % 2 \in {0, 1}
         /\ t = 2 * (t \div 2) + (t % 2)
OBVIOUS

\* A subsequence of one element.
LEMMA OneElement ==
  ASSUME NEW S, NEW s \in Seq(S), NEW m \in 1 .. Len(s)
  PROVE  SubSeq(s, m, m) = <<s[m]>>
<1> DEFINE u == SubSeq(s, m, m)
<1>1. m \in Int /\ m - m + 1 = 1 /\ m <= m /\ m + 1 - 1 = m /\ \A i \in m .. m : s[i] \in S
  OBVIOUS
<1>2. u \in Seq(S) /\ Len(u) = 1 /\ u[1] = s[m]
  BY <1>1, SubSeqProperties
<1> HIDE DEF u
<1>3. u = <<s[m]>>
  BY <1>2
<1> QED
  BY <1>3 DEF u

\* Fed n more pieces of its client's stream, the firmware's feedByte yields
\* the frames that these complete, in order, and keeps the piece that still
\* waits for its other half.
LEMMA ChunkParsed ==
  ASSUME NEW c, NEW t \in Nat, NEW n \in Nat,
         NEW bytes, bytes = LeftOver(c, t) \o Pieces(c, t + 1, t + n)
  PROVE  /\ Whole(bytes) = Completed(c, t, n)
         /\ Rest(bytes) = LeftOver(c, t + n)
<1> DEFINE h == t % 2
           q == t \div 2
           P == Pieces(c, t + 1, t + n)
           L == (h + n) \div 2
<1>1. q \in Nat /\ h \in {0, 1} /\ t = 2 * q + h
  BY Halves
<1>2. P \in Seq({c} \X Nat) /\ Len(P) = n /\ \A k \in 1 .. n : P[k] = <<c, t + k>>
  <2>1. P = [k \in 1 .. n |-> <<c, t + k>>]
    <3>1. (t + n + 1) - (t + 1) = n /\ \A k \in 1 .. n : ((t + 1) + k) - 1 = t + k
      OBVIOUS
    <3> QED
      BY <3>1 DEF Pieces
  <2> HIDE DEF P
  <2> QED
    BY <2>1
<1>3. /\ LeftOver(c, t) \in Seq({c} \X Nat) /\ Len(LeftOver(c, t)) = h
      /\ h = 1 => LeftOver(c, t)[1] = <<c, t>>
  <2>1. CASE h = 1
    <3>1. <<c, t>> \in {c} \X Nat /\ LeftOver(c, t) = <<<<c, t>>>>
      BY <2>1 DEF LeftOver
    <3> HIDE DEF h
    <3> QED
      BY <2>1, <3>1
  <2>2. CASE h = 0
    <3>1. LeftOver(c, t) = <<>>
      BY <2>2 DEF LeftOver
    <3> HIDE DEF h
    <3> QED
      BY <2>2, <3>1
  <2> QED
    BY <1>1, <2>1, <2>2
<1> HIDE DEF h, q, P
<1>4. /\ bytes \in Seq({c} \X Nat) /\ Len(bytes) = h + n
      /\ \A i \in 1 .. h + n : bytes[i] = <<c, 2 * q + i>>
  <2>1. bytes \in Seq({c} \X Nat) /\ Len(bytes) = h + n
        /\ \A i \in 1 .. h + n : bytes[i] = IF i <= h THEN LeftOver(c, t)[i] ELSE P[i - h]
    <3> DEFINE S == {c} \X Nat
               K == LeftOver(c, t)
    <3>1. K \in Seq(S) /\ P \in Seq(S) /\ bytes = K \o P /\ Len(K) = h /\ Len(P) = n
      BY <1>2, <1>3 DEF P
    <3> HIDE DEF S, K
    <3>2. K \o P \in Seq(S) /\ Len(K \o P) = Len(K) + Len(P)
          /\ \A i \in 1 .. Len(K) + Len(P) :
               (K \o P)[i] = IF i <= Len(K) THEN K[i] ELSE P[i - Len(K)]
      BY <3>1, ConcatProperties
    <3> QED
      BY <3>1, <3>2 DEF S, K
  <2>2. ASSUME NEW i \in 1 .. h + n  PROVE bytes[i] = <<c, 2 * q + i>>
    <3>1. CASE i <= h
      <4>1. h = 1 /\ i = 1 /\ t = 2 * q + i
        BY <1>1, <3>1
      <4> QED
        BY <1>3, <2>1, <4>1
    <3>2. CASE i > h
      <4>1. i - h \in 1 .. n /\ t + (i - h) = 2 * q + i /\ ~(i <= h)
        BY <1>1, <3>2
      <4> QED
        BY <1>2, <2>1, <4>1
    <3>3. i <= h \/ i > h
      BY <1>1
    <3> QED
      BY <3>1, <3>2, <3>3
  <2> QED
    BY <2>1, <2>2
<1>5. /\ L \in Nat /\ (h + n) % 2 \in {0, 1} /\ h + n = 2 * L + ((h + n) % 2)
  BY <1>1, Halves
<1>6. (t + n) \div 2 = q + L /\ (t + n) % 2 = (h + n) % 2
  <2>1. t + n = 2 * q + (h + n)
    BY <1>1
  <2> QED
    BY <1>1, <1>5, <2>1
<1> HIDE DEF L
<1>7. Whole(bytes) = [k \in 1 .. L |-> Frame(c, q + k)]
  <2>1. Whole(bytes) = [k \in 1 .. L |-> <<bytes[(2 * k) - 1], bytes[2 * k]>>]
    BY <1>4 DEF Whole, L
  <2>2. ASSUME NEW k \in 1 .. L
        PROVE  <<bytes[(2 * k) - 1], bytes[2 * k]>> = Frame(c, q + k)
    <3>1. (2 * k) - 1 \in 1 .. h + n /\ 2 * k \in 1 .. h + n
          /\ 2 * q + ((2 * k) - 1) = 2 * (q + k) - 1 /\ 2 * q + 2 * k = 2 * (q + k)
      BY <1>1, <1>5
    <3> QED
      BY <1>4, <3>1 DEF Frame
  <2> QED
    BY <2>1, <2>2
<1>8. Rest(bytes) = LeftOver(c, t + n)
  <2>1. Rest(bytes) = SubSeq(bytes, 2 * L + 1, h + n)
    BY <1>4 DEF Rest, L
  <2>2. CASE (h + n) % 2 = 0
    <3>1. h + n < 2 * L + 1 /\ 2 * L + 1 \in Int /\ h + n \in Int
      BY <1>1, <1>5, <2>2
    <3>2. SubSeq(bytes, 2 * L + 1, h + n) = <<>>
      BY <3>1, SubSeqEmpty
    <3>3. ~((t + n) % 2 = 1)
      BY <1>6, <2>2
    <3> QED
      BY <2>1, <3>2, <3>3 DEF LeftOver
  <2>3. CASE (h + n) % 2 = 1
    <3>1. 2 * L + 1 = h + n /\ h + n \in 1 .. h + n
      BY <1>1, <1>5, <2>3
    <3>2. SubSeq(bytes, h + n, h + n) = <<bytes[h + n]>>
      BY <1>4, <3>1, OneElement
    <3>3. bytes[h + n] = <<c, t + n>>
      <4>1. 2 * q + (h + n) = t + n
        BY <1>1
      <4> QED
        BY <1>4, <3>1, <4>1
    <3> QED
      BY <1>6, <2>1, <2>3, <3>1, <3>2, <3>3 DEF LeftOver
  <2> QED
    BY <1>5, <2>2, <2>3
<1>9. ((t + n) \div 2) - q = L
  BY <1>1, <1>5, <1>6
<1> QED
  BY <1>7, <1>8, <1>9 DEF q, Completed

-----------------------------------------------------------------------------
(***************************************************************************)
(* The inductive invariant.                                                *)
(***************************************************************************)
\* The frames of the client that have been taken out of their chunk.
Handled == (taken \div 2) - Len(events)

\* The time since then, if the clock has not come round in between.
Since(then) == (millis - then) % ClockModulus

\* The loop serves one client, and client_ thinks it connected unless its
\* peer has left.
Session ==
  /\ \A c \in Client : conn[c] = "served" <=> c = client
  /\ client \in Client /\ ~connected => peer[client] # "open"

\* The parser keeps the piece that waits for its other half; the events are
\* the last frames that have been read.
Stream ==
  /\ client \in Client => parser = LeftOver(client, taken) /\ taken <= sent[client]
  /\ loop = "process" => client \in Client
  /\ loop = "process" <=> events # <<>>
  /\ \A i \in 1 .. Len(events) : events[i] = Frame(client, Handled + i)
  /\ answered <= Handled

\* client_last_rx_ms_ tells the silence of the client: a lap and the blocked
\* writes of a session never add up to half the range of the clock.
Silent ==
  Live => /\ Since(last_rx) < kClientIdleTimeout + MaxDelay + MaxBlock * Handled
          /\ silence = AtMost(Since(last_rx), kClientIdleTimeout)

\* So far this lap has taken no more than its chunks and answers.
Lap ==
  /\ loop = "accept" => poll_now = millis
  /\ loop # "probe" => Since(poll_now) <= taken + MaxBlock * Handled

\* Until the last advertisement is too long ago for the clock, the next one
\* is due a period after it, or, before the first one, at once; that is too
\* late only when half the range of the clock went by with a client.
Advertised ==
  age < Half + kAdvertisementPeriod =>
    /\ free <= kAdvertisementPeriod + MaxDelay /\ free <= age
    /\ loop # "probe" => Since(poll_now) + free <= age
    /\ \/ next_advertisement = ((millis + kAdvertisementPeriod) - age) % ClockModulus
       \/ /\ next_advertisement = (millis - age) % ClockModulus
          /\ free = 0 \/ age >= Half + free

IInv == TypeOK /\ Session /\ Stream /\ Silent /\ Lap /\ Advertised

-----------------------------------------------------------------------------
(***************************************************************************)
(* Arithmetic on a clock that wraps.                                       *)
(***************************************************************************)
Clock == 0 .. ClockModulus - 1

\* What the assumptions say of the constants, one by one.
LEMMA Constants ==
  /\ ClockModulus \in Nat \ {0} /\ Half \in Nat \ {0}
  /\ 2 * Half <= ClockModulus /\ ClockModulus <= 2 * Half + 1
  /\ kAdvertisementPeriod \in Nat \ {0} /\ kClientIdleTimeout \in Nat \ {0}
  /\ MaxPieces \in Nat /\ MaxDelay \in Nat \ {0} /\ MaxBlock \in Nat
  /\ MaxBlock * (MaxPieces \div 2) \in Nat
  /\ Half > kClientIdleTimeout + MaxDelay + MaxBlock * (MaxPieces \div 2)
  /\ Half > kAdvertisementPeriod + MaxDelay
  /\ Half >= MaxPieces + MaxBlock * (MaxPieces \div 2) + MaxDelay
  /\ NoClient \notin Client
<1>1. /\ ClockModulus \in Nat /\ kAdvertisementPeriod \in Nat \ {0} /\ kClientIdleTimeout \in Nat \ {0}
      /\ MaxPieces \in Nat /\ MaxDelay \in Nat \ {0} /\ MaxBlock \in Nat /\ NoClient \notin Client
  BY ClientAssumption, BoundAssumption, ClockAssumption
<1>2. MaxPieces \div 2 \in Nat
  BY <1>1
<1>3. MaxBlock * (MaxPieces \div 2) \in Nat
  BY <1>1, <1>2
<1>4. /\ Half \in Nat /\ 2 * Half <= ClockModulus /\ ClockModulus <= 2 * Half + 1
  BY <1>1 DEF Half
<1>5. Half # 0 /\ ClockModulus # 0
  BY <1>1, <1>4, ClockAssumption
<1> QED
  BY <1>1, <1>3, <1>4, <1>5, ClockAssumption

\* A time is read off the clock by dropping the rounds it has made.
LEMMA Reading ==
  ASSUME NEW a \in Int
  PROVE  /\ a % ClockModulus \in Clock
         /\ \E q \in Int : a = (a % ClockModulus) + q * ClockModulus
<1>1. ClockModulus \in Nat \ {0}
  BY Constants
<1>2. a % ClockModulus \in Clock
  BY <1>1 DEF Clock
<1>3. a \div ClockModulus \in Int /\ a = (a % ClockModulus) + (a \div ClockModulus) * ClockModulus
  BY <1>1
<1> QED
  BY <1>2, <1>3

\* The same reading comes from no other rounds.
LEMMA ReadingUnique ==
  ASSUME NEW a \in Int, NEW r \in Clock, NEW q \in Int, a = r + q * ClockModulus
  PROVE  a % ClockModulus = r
<1> DEFINE M == ClockModulus
           s == a % M
<1>1. M \in Nat \ {0} /\ s \in 0 .. M - 1 /\ r \in 0 .. M - 1
  BY Constants, Reading DEF Clock
<1>2. PICK p \in Int : a = s + p * M
  BY Reading
<1>3. a = r + q * M
  OBVIOUS
<1> HIDE DEF s, M
<1>4. (p - q) * M = r - s
  BY <1>1, <1>2, <1>3
<1>5. ~(p - q >= 1)
  <2>1. ASSUME p - q >= 1  PROVE (p - q) * M >= M
    <3>1. ((p - q) - 1) * M >= 0
      BY <1>1, <2>1
    <3> QED
      BY <1>1, <3>1
  <2> QED
    BY <1>1, <1>4, <2>1
<1>6. ~(p - q <= -1)
  <2>1. ASSUME p - q <= -1  PROVE (p - q) * M <= -M
    <3>1. (-1 - (p - q)) * M >= 0
      BY <1>1, <2>1
    <3> QED
      BY <1>1, <3>1
  <2> QED
    BY <1>1, <1>4, <2>1
<1>7. p = q
  BY <1>5, <1>6
<1>8. (p - q) * M = 0
  BY <1>1, <1>7
<1>9. s = r
  BY <1>1, <1>4, <1>8
<1> QED
  BY <1>9 DEF s, M

\* Whole rounds change no reading.
LEMMA SameReading ==
  ASSUME NEW a \in Int, NEW b \in Int, NEW q \in Int, a = b + q * ClockModulus
  PROVE  a % ClockModulus = b % ClockModulus
<1>1. /\ b % ClockModulus \in Clock
      /\ \E p \in Int : b = (b % ClockModulus) + p * ClockModulus
  BY Reading
<1>2. PICK p \in Int : b = (b % ClockModulus) + p * ClockModulus
  BY <1>1
<1> DEFINE r == b % ClockModulus
<1>3. a = r + (p + q) * ClockModulus
  <2>1. ClockModulus \in Int /\ r \in Int
    BY Constants, <1>1 DEF Clock
  <2>2. b = r + p * ClockModulus
    BY <1>2
  <2> HIDE DEF r
  <2> QED
    BY <2>1, <2>2
<1> QED
  BY <1>1, <1>3, ReadingUnique

\* A difference of times is the real one while that is less than a round.
LEMMA Later ==
  ASSUME NEW now \in Clock, NEW t \in Clock, NEW d \in Nat,
         ((now - t) % ClockModulus) + d < ClockModulus
  PROVE  (((now + d) % ClockModulus) - t) % ClockModulus = ((now - t) % ClockModulus) + d
<1> DEFINE M == ClockModulus
           s == (now - t) % M
           n == (now + d) % M
<1>1. M \in Nat \ {0} /\ now \in Int /\ t \in Int /\ now - t \in Int /\ now + d \in Int
  BY Constants DEF Clock
<1>2. s \in Clock /\ n \in Clock
  BY <1>1, Reading
<1>3. PICK p \in Int : now - t = s + p * M
  BY <1>1, Reading
<1>4. PICK q \in Int : now + d = n + q * M
  BY <1>1, Reading
<1>5. s \in Int /\ s >= 0 /\ n \in Int /\ s + d < M
  BY <1>2 DEF Clock
<1> HIDE DEF s, n, M
<1>6. n - t = (s + d) + (p - q) * M
  BY <1>1, <1>3, <1>4, <1>5
<1>7. s + d \in 0 .. M - 1
  BY <1>1, <1>5
<1>8. (n - t) % M = s + d
  <2>1. s + d \in Clock /\ n - t \in Int /\ p - q \in Int
    BY <1>1, <1>5, <1>7 DEF Clock, M
  <2> QED
    BY <1>6, <2>1, ReadingUnique DEF M
<1> QED
  BY <1>8 DEF s, n, M

\* No time has passed since now.
LEMMA JustNow ==
  ASSUME NEW t \in Clock
  PROVE  (t - t) % ClockModulus = 0 /\ (t + 0) % ClockModulus = t
<1>1. ClockModulus \in Nat \ {0} /\ t \in Int /\ 0 \in Clock
  BY Constants DEF Clock
<1>2. t - t = 0 + 0 * ClockModulus /\ t + 0 = t + 0 * ClockModulus /\ t - t \in Int /\ t + 0 \in Int
  BY <1>1
<1> QED
  BY <1>1, <1>2, ReadingUnique

\* The signed difference of the code is the difference while that is less
\* than half a round, and never more than it.
LEMMA SignedFacts ==
  ASSUME NEW x \in Int
  PROVE  /\ Signed(x) \in Int /\ Signed(x) <= x % ClockModulus
         /\ x % ClockModulus < Half => Signed(x) = x % ClockModulus
<1>1. x % ClockModulus \in Clock
  BY Reading
<1> DEFINE r == x % ClockModulus
<1>2. Signed(x) = IF r < Half THEN r ELSE r - ClockModulus
  BY DEF Signed
<1>3. r \in Int /\ ClockModulus \in Nat
  BY <1>1, Constants DEF Clock
<1> HIDE DEF r
<1>4. Signed(x) \in Int /\ Signed(x) <= r /\ (r < Half => Signed(x) = r)
  BY <1>2, <1>3
<1> QED
  BY <1>4 DEF r

\* Blocking is bounded by the answers that may have blocked.
LEMMA Blocking ==
  ASSUME NEW h \in Int, NEW k \in Int, 0 <= h, h <= k
  PROVE  /\ MaxBlock * h \in Nat /\ MaxBlock * k \in Nat /\ MaxBlock * h <= MaxBlock * k
         /\ MaxBlock * (h + 1) = MaxBlock * h + MaxBlock
<1>1. MaxBlock \in Nat
  BY Constants
<1>2. MaxBlock * (k - h) >= 0
  BY <1>1
<1> QED
  BY <1>1, <1>2

\* The next advertisement, as a reading of the clock, stays what it is when
\* the clock and the age of the last one grow together.
LEMMA SameDue ==
  ASSUME NEW now \in Clock, NEW d \in Nat, NEW a \in Int
  PROVE  (now + a) % ClockModulus = (((now + d) % ClockModulus) + (a - d)) % ClockModulus
<1> DEFINE M == ClockModulus
           n == (now + d) % M
<1>0. M \in Nat \ {0} /\ now \in Int /\ now + d \in Int
  BY Constants DEF Clock
<1>1. M \in Nat \ {0} /\ now \in Int /\ n \in Clock
  BY <1>0, Reading
<1>2. PICK q \in Int : now + d = n + q * M
  BY <1>0, Reading
<1>3. n \in Int
  BY <1>1 DEF Clock
<1> HIDE DEF n, M
<1>4. now + a = (n + (a - d)) + q * M
  BY <1>1, <1>2, <1>3
<1>5. now + a \in Int /\ n + (a - d) \in Int
  BY <1>1, <1>3
<1>6. (now + a) % M = (n + (a - d)) % M
  BY <1>4, <1>5, SameReading DEF M
<1> QED
  BY <1>6 DEF n, M

\* Whether an advertisement is due, in real time: lag is how long the lap has
\* taken, late how long the advertisement has been due.
LEMMA DueInTime ==
  ASSUME NEW now \in Clock, NEW top \in Clock, NEW late \in Int,
         0 <= late - ((now - top) % ClockModulus), late - ((now - top) % ClockModulus) < Half
  PROVE  Signed(top - ((now - late) % ClockModulus)) = late - ((now - top) % ClockModulus)
<1> DEFINE M == ClockModulus
           lag == (now - top) % M
           next == (now - late) % M
           x == top - next
<1>0. M \in Nat \ {0} /\ now \in Int /\ top \in Int /\ now - top \in Int /\ now - late \in Int
  BY Constants DEF Clock
<1>1. M \in Nat \ {0} /\ now \in Int /\ top \in Int /\ lag \in Clock /\ next \in Clock
  BY <1>0, Reading
<1>2. PICK p \in Int : now - top = lag + p * M
  BY <1>0, Reading
<1>3. PICK q \in Int : now - late = next + q * M
  BY <1>0, Reading
<1>4. lag \in Int /\ next \in Int
  BY <1>1 DEF Clock
<1>5. 0 <= late - lag /\ late - lag < Half /\ Half <= M
  BY Constants
<1>6. x = top - next
  OBVIOUS
<1> HIDE DEF lag, next, x, M
<1>7. x = (late - lag) + (q - p) * M
  BY <1>1, <1>2, <1>3, <1>4, <1>6
<1>8. late - lag \in Clock /\ x \in Int /\ q - p \in Int
  <2>1. late - lag \in 0 .. M - 1 /\ x \in Int /\ q - p \in Int
    <3>1. Half \in Int
      BY Constants
    <3> QED
      BY <1>1, <1>4, <1>5, <1>6, <3>1
  <2> QED
    BY <2>1 DEF Clock, M
<1>9. x % ClockModulus = late - lag
  BY <1>7, <1>8, ReadingUnique DEF M
<1>10. Signed(x) = late - lag
  BY <1>5, <1>8, <1>9, SignedFacts
<1> QED
  BY <1>10 DEF x, next, lag, M

-----------------------------------------------------------------------------
(***************************************************************************)
(* What the invariant says in a state, and what keeps its conjuncts.       *)
(***************************************************************************)
\* The frames handled are at most those of the whole stream.
LEMMA HandledBounds ==
  ASSUME NEW t \in 0 .. MaxPieces, NEW n \in Nat, NEW a \in Nat,
         NEW h, h = (t \div 2) - n, a <= h
  PROVE  /\ h \in Nat /\ h <= MaxPieces \div 2 /\ MaxBlock * h \in Nat
         /\ MaxBlock * h <= MaxBlock * (MaxPieces \div 2)
<1>1. MaxPieces \in Nat
  BY Constants
<1>2. t \div 2 \in Nat /\ t \div 2 <= MaxPieces \div 2 /\ MaxPieces \div 2 \in Nat
  BY <1>1
<1>3. h \in Nat /\ h <= MaxPieces \div 2
  BY <1>2
<1> QED
  BY <1>2, <1>3, Blocking

\* What the types say of the frames handled.
LEMMA HandledFacts ==
  ASSUME TypeOK, Stream
  PROVE  /\ taken \in 0 .. MaxPieces /\ Len(events) \in Nat /\ answered \in Nat
         /\ Handled \in Nat /\ Handled <= MaxPieces \div 2
         /\ MaxBlock * Handled \in Nat
         /\ MaxBlock * Handled <= MaxBlock * (MaxPieces \div 2)
<1>1. taken \in 0 .. MaxPieces /\ Len(events) \in Nat /\ answered \in Nat
  BY Constants, LenProperties DEF TypeOK
<1>2. Handled = (taken \div 2) - Len(events) /\ answered <= Handled
  BY DEF Stream, Handled
<1> QED
  BY <1>1, <1>2, HandledBounds

\* The same of the state after a step.
LEMMA HandledNext ==
  ASSUME TypeOK', Stream'
  PROVE  /\ taken' \in 0 .. MaxPieces /\ Handled' \in Nat /\ MaxBlock * Handled' \in Nat
         /\ MaxBlock * Handled' <= MaxBlock * (MaxPieces \div 2)
<1>1. taken' \in 0 .. MaxPieces /\ Len(events') \in Nat /\ answered' \in Nat
  BY Constants, LenProperties DEF TypeOK
<1>2. Handled' = (taken' \div 2) - Len(events') /\ answered' <= Handled'
  BY DEF Stream, Handled
<1> QED
  BY <1>1, <1>2, HandledBounds

\* The times the loop remembers are readings of the clock.
LEMMA Times ==
  ASSUME TypeOK
  PROVE  /\ millis \in Clock /\ poll_now \in Clock /\ last_rx \in Clock /\ next_advertisement \in Clock
         /\ Since(poll_now) \in Nat /\ Since(last_rx) \in Nat
         /\ silence \in Nat /\ free \in Nat /\ age \in Nat
<1>1. /\ millis \in Clock /\ poll_now \in Clock /\ last_rx \in Clock /\ next_advertisement \in Clock
      /\ silence \in Nat /\ free \in Nat /\ age \in Nat
  <2>1. {millis, poll_now, last_rx, next_advertisement} \subseteq Clock
    BY DEF TypeOK, Clock
  <2>2. silence \in 0 .. kClientIdleTimeout /\ free \in 0 .. Half /\ age \in 0 .. Half + kAdvertisementPeriod
    BY DEF TypeOK
  <2>3. silence \in Nat /\ free \in Nat /\ age \in Nat
    BY <2>2, Constants
  <2> QED
    BY <2>1, <2>3
<1>2. millis \in Int /\ poll_now \in Int /\ last_rx \in Int /\ Clock \subseteq Nat
  BY <1>1, Constants DEF Clock
<1>3. millis - poll_now \in Int /\ millis - last_rx \in Int
  BY <1>2
<1>4. (millis - poll_now) % ClockModulus \in Clock /\ (millis - last_rx) % ClockModulus \in Clock
  BY <1>3, Reading
<1> QED
  BY <1>1, <1>2, <1>4 DEF Since

\* Nothing the stream depends on changes, but the loop may go on outside
\* of receiveClient.
LEMMA StreamKept ==
  ASSUME Stream, UNCHANGED <<client, parser, taken, events, answered>>,
         \A c \in Client : sent'[c] >= sent[c], sent \in [Client -> Nat], sent' \in [Client -> Nat],
         taken \in Nat, loop' = "process" <=> loop = "process"
  PROVE  Stream'
<1>1. Handled' = Handled
  BY DEF Handled
<1>2. client \in Client => taken <= sent'[client]
  BY DEF Stream
<1> QED
  BY <1>1, <1>2 DEF Stream

\* The silence is kept when no time passes and no client begins.
LEMMA SilentKept ==
  ASSUME TypeOK, Stream, Silent, UNCHANGED <<millis, last_rx, silence>>, Live' => Live,
         Handled' = Handled \/ Handled' = Handled + 1
  PROVE  Silent'
<1> SUFFICES ASSUME Live'
             PROVE  /\ Since(last_rx)' < kClientIdleTimeout + MaxDelay + MaxBlock * Handled'
                    /\ silence' = AtMost(Since(last_rx)', kClientIdleTimeout)
  BY DEF Silent, AtMost
<1>1. /\ Since(last_rx) < kClientIdleTimeout + MaxDelay + MaxBlock * Handled
      /\ silence = AtMost(Since(last_rx), kClientIdleTimeout)
  BY DEF Silent
<1>2. Since(last_rx)' = Since(last_rx)
  BY DEF Since
<1>3. /\ MaxBlock * Handled \in Nat /\ MaxBlock * (Handled + 1) = MaxBlock * Handled + MaxBlock
      /\ MaxBlock \in Nat /\ kClientIdleTimeout \in Nat /\ MaxDelay \in Nat /\ Since(last_rx) \in Nat
  BY HandledFacts, Blocking, Constants, Times
<1>4. Since(last_rx) < kClientIdleTimeout + MaxDelay + MaxBlock * Handled'
  <2>1. CASE Handled' = Handled
    BY <1>1, <2>1
  <2>2. CASE Handled' = Handled + 1
    BY <1>1, <1>3, <2>2
  <2> QED
    BY <2>1, <2>2
<1> QED
  BY <1>1, <1>2, <1>4 DEF AtMost

\* So is the lap.
LEMMA LapKept ==
  ASSUME TypeOK, Stream, Lap, UNCHANGED <<millis, poll_now, taken>>,
         Handled' = Handled \/ Handled' = Handled + 1,
         loop # "probe" \/ loop' = "probe", loop' # "accept" \/ loop = "accept"
  PROVE  Lap'
<1>1. Since(poll_now)' = Since(poll_now)
  BY DEF Since
<1>2. /\ MaxBlock * Handled \in Nat /\ MaxBlock * (Handled + 1) = MaxBlock * Handled + MaxBlock
      /\ MaxBlock \in Nat /\ Since(poll_now) \in Nat /\ taken \in Nat
  BY HandledFacts, Blocking, Constants, Times
<1>3. Since(poll_now) <= taken + MaxBlock * Handled => Since(poll_now) <= taken + MaxBlock * Handled'
  <2>1. CASE Handled' = Handled
    BY <2>1
  <2>2. CASE Handled' = Handled + 1
    BY <1>2, <2>2
  <2> QED
    BY <2>1, <2>2
<1> QED
  BY <1>1, <1>3 DEF Lap

\* And what is known of the advertisements.
LEMMA AdvertisedKept ==
  ASSUME Advertised, UNCHANGED <<millis, poll_now, next_advertisement, free, age>>,
         loop # "probe" \/ loop' = "probe"
  PROVE  Advertised'
  BY DEF Advertised, Since

-----------------------------------------------------------------------------
\* begin() leaves the loop without a client, and an advertisement due.
LEMMA InitInv == Init => IInv
<1> SUFFICES ASSUME Init PROVE IInv
  OBVIOUS
<1> DEFINE K == MaxBlock * (MaxPieces \div 2)
<1>1. /\ ClockModulus \in Nat \ {0} /\ kClientIdleTimeout \in Nat \ {0} /\ MaxDelay \in Nat \ {0}
      /\ kAdvertisementPeriod \in Nat \ {0} /\ MaxPieces \in Nat /\ Half \in Nat \ {0}
      /\ NoClient \notin Client
  BY Constants
<1>2. TypeOK
  <2>1. parser \in Seq(Piece) /\ events \in Seq(Piece \X Piece)
    BY EmptySeq DEF Init
  <2>2. /\ conn \in [Client -> {"away", "knocking", "served", "closed"}]
        /\ peer \in [Client -> {"open", "fin", "reset", "deaf"}]
    BY DEF Init
  <2>3. /\ sent \in [Client -> 0 .. MaxPieces] /\ taken \in 0 .. MaxPieces /\ answered \in 0 .. MaxPieces
    BY <1>1 DEF Init
  <2>4. /\ {millis, poll_now, last_rx, next_advertisement} \subseteq 0 .. ClockModulus - 1
        /\ silence \in 0 .. kClientIdleTimeout /\ free \in 0 .. Half
        /\ age \in 0 .. Half + kAdvertisementPeriod
    BY <1>1 DEF Init
  <2> QED
    BY <2>1, <2>2, <2>3, <2>4 DEF Init, TypeOK
<1>3. Session
  BY <1>1 DEF Init, Session
<1>4. Stream
  <2>1. Handled = 0
    <3>1. Len(<<>>) = 0 /\ 0 \div 2 = 0 /\ 0 - 0 = 0
      OBVIOUS
    <3> QED
      BY <3>1 DEF Init, Handled
  <2> QED
    BY <1>1, <2>1 DEF Init, Stream
<1>5. Silent
  BY DEF Init, Silent, Live
<1>6. Lap
  BY DEF Init, Lap
<1>7. Advertised
  <2>1. millis = 0 /\ age = 0 /\ 0 - 0 = 0 /\ free = 0 /\ next_advertisement = 0 /\ loop = "probe"
    BY DEF Init
  <2>2. 0 % ClockModulus = 0
    BY <1>1
  <2>3. next_advertisement = (millis - age) % ClockModulus
    BY <2>1, <2>2
  <2>4. free <= kAdvertisementPeriod + MaxDelay
    BY <1>1, <2>1
  <2> QED
    BY <2>1, <2>3, <2>4 DEF Advertised
<1> QED
  BY <1>2, <1>3, <1>4, <1>5, <1>6, <1>7 DEF IInv

-----------------------------------------------------------------------------
(***************************************************************************)
(* The clients.                                                            *)
(***************************************************************************)
\* What clients do is not seen before the loop looks.
LEMMA StepClients ==
  ASSUME IInv, NEW c \in Client, Connects(c) \/ Sends(c) \/ Leaves(c)  PROVE IInv'
<1>1. /\ UNCHANGED <<loop, poll_now, client, connected, last_rx, next_advertisement>>
      /\ UNCHANGED <<taken, parser, events, answered>>
      /\ UNCHANGED <<millis, silence, free, age>>
  BY DEF Connects, Sends, Leaves, ClientOnly, stream, clocks
<1>2. /\ MaxPieces \in Nat /\ sent \in [Client -> 0 .. MaxPieces]
  BY Constants DEF IInv, TypeOK
<1>3. /\ sent' \in [Client -> 0 .. MaxPieces] /\ \A d \in Client : sent'[d] >= sent[d]
  <2>1. CASE sent' = sent
    BY <1>2, <2>1
  <2>2. CASE Sends(c)
    BY <1>2, <2>2 DEF Sends
  <2> QED
    BY <2>1, <2>2 DEF Connects, Leaves
<1>4. /\ conn' \in [Client -> {"away", "knocking", "served", "closed"}]
      /\ \A d \in Client : conn'[d] = "served" <=> conn[d] = "served"
  BY DEF Connects, Sends, Leaves, IInv, TypeOK
<1>5. /\ peer' \in [Client -> {"open", "fin", "reset", "deaf"}]
      /\ \A d \in Client : peer[d] # "open" => peer'[d] = peer[d]
  BY DEF Connects, Sends, Leaves, IInv, TypeOK
<1>6. TypeOK'
  BY <1>1, <1>3, <1>4, <1>5 DEF IInv, TypeOK
<1>7. Session'
  BY <1>1, <1>4, <1>5 DEF IInv, Session
<1>8. Handled' = Handled
  BY <1>1 DEF Handled
<1>9. Stream'
  <2>1. taken \in Nat /\ sent \in [Client -> Nat] /\ sent' \in [Client -> Nat]
    BY <1>2, <1>3 DEF IInv, TypeOK
  <2> QED
    BY <1>1, <1>3, <2>1, StreamKept DEF IInv
<1>10. Silent'
  <2>1. Live' = Live
    BY <1>1 DEF Live
  <2> QED
    BY <1>1, <1>8, <2>1, SilentKept DEF IInv
<1>11. Lap' /\ Advertised'
  BY <1>1, <1>8, LapKept, AdvertisedKept DEF IInv
<1> QED
  BY <1>6, <1>7, <1>9, <1>10, <1>11 DEF IInv

\* WiFiClient's flag falls only for a peer that has left.
LEMMA StepFlagFalls ==
  ASSUME IInv, FlagFalls  PROVE IInv'
<1>1. /\ UNCHANGED <<loop, poll_now, client, conn, peer, sent, last_rx, next_advertisement>>
      /\ UNCHANGED <<taken, parser, events, answered>>
      /\ UNCHANGED <<millis, silence, free, age>>
      /\ Live /\ connected' = FALSE /\ peer[client] \in {"fin", "reset"}
  BY DEF FlagFalls, sockets, stream, clocks
<1>2. TypeOK'
  BY <1>1 DEF IInv, TypeOK
<1>3. Session'
  BY <1>1 DEF IInv, Session
<1>4. Stream'
  BY <1>1 DEF IInv, Stream, Handled
<1>5. Silent'
  BY <1>1 DEF Silent, Live
<1>6. Lap' /\ Advertised'
  <2>1. Handled' = Handled
    BY <1>1 DEF Handled
  <2> QED
    BY <1>1, <2>1, LapKept, AdvertisedKept DEF IInv
<1> QED
  BY <1>2, <1>3, <1>4, <1>5, <1>6 DEF IInv

-----------------------------------------------------------------------------
(***************************************************************************)
(* The loop.                                                               *)
(***************************************************************************)
\* A client is closed only when nothing of it is being processed.
LEMMA Closing ==
  ASSUME TypeOK, Session, Stream, Live, Closes, loop # "process", loop' # "process",
         UNCHANGED <<taken, answered, events>>
  PROVE  /\ Session' /\ Stream' /\ Handled' = Handled /\ ~Live'
         /\ client' \in Client \cup {NoClient} /\ connected' \in BOOLEAN /\ parser' \in Seq(Piece)
         /\ conn' \in [Client -> {"away", "knocking", "served", "closed"}]
         /\ peer' \in [Client -> {"open", "fin", "reset", "deaf"}]
         /\ sent' \in [Client -> 0 .. MaxPieces]
<1>1. NoClient \notin Client /\ MaxPieces \in Nat
  BY Constants
<1>2. client \in Client
  BY DEF TypeOK, Live
<1>3. /\ conn' \in [Client -> {"away", "knocking", "served", "closed"}]
      /\ \A c \in Client : conn'[c] = IF c = client THEN "closed" ELSE conn[c]
  BY <1>2 DEF TypeOK, Closes
<1>4. peer' \in [Client -> {"open", "fin", "reset", "deaf"}] /\ sent' \in [Client -> 0 .. MaxPieces]
  BY <1>1, <1>2 DEF TypeOK, Closes
<1>5. Session'
  BY <1>1, <1>3 DEF Session, Closes
<1>6. Handled' = Handled
  BY DEF Handled
<1>7. Stream'
  <2>1. events = <<>>
    BY DEF Stream
  <2>2. 1 .. Len(events) = {}
    BY <2>1
  <2> QED
    BY <1>1, <1>6, <2>1, <2>2 DEF Stream, Closes
<1>8. parser' \in Seq(Piece)
  BY EmptySeq DEF Closes
<1> QED
  BY <1>3, <1>4, <1>5, <1>6, <1>7, <1>8 DEF Closes, Live

\* A lap begins: now is read, and a client that has left is closed.
LEMMA StepProbes ==
  ASSUME IInv, Probes  PROVE IInv'
<1>1. /\ loop = "probe" /\ loop' = "accept" /\ poll_now' = millis
      /\ UNCHANGED <<taken, answered, events, last_rx, next_advertisement>>
      /\ UNCHANGED <<millis, silence, free, age>>
  BY DEF Probes, clocks
<1>2. /\ Session' /\ Stream' /\ Handled' = Handled /\ (Live' => Live)
      /\ client' \in Client \cup {NoClient} /\ connected' \in BOOLEAN /\ parser' \in Seq(Piece)
      /\ conn' \in [Client -> {"away", "knocking", "served", "closed"}]
      /\ peer' \in [Client -> {"open", "fin", "reset", "deaf"}]
      /\ sent' \in [Client -> 0 .. MaxPieces]
  <2>1. CASE PeerGone
    <3>1. Live /\ Closes
      BY <2>1 DEF PeerGone, Probes
    <3> QED
      BY <1>1, <3>1, Closing DEF IInv
  <2>2. CASE ~PeerGone
    <3>1. UNCHANGED <<client, connected, conn, peer, sent, parser>>
      BY <2>2 DEF Probes, sockets
    <3>2. Handled' = Handled
      BY <1>1 DEF Handled
    <3>3. Session' /\ Stream' /\ Live' = Live
      BY <1>1, <3>1, <3>2 DEF IInv, Session, Stream, Live
    <3> QED
      BY <3>1, <3>2, <3>3 DEF IInv, TypeOK
  <2> QED
    BY <2>1, <2>2
<1>3. TypeOK'
  <2>1. {millis, last_rx, next_advertisement} \subseteq 0 .. ClockModulus - 1
    BY DEF IInv, TypeOK
  <2> QED
    BY <1>1, <1>2, <2>1 DEF IInv, TypeOK
<1>4. Silent'
  BY <1>1, <1>2, SilentKept DEF IInv
<1>5. Since(poll_now)' = 0
  BY <1>1, Times, JustNow DEF IInv, Since
<1>6. Lap'
  <2>1. Handled \in Nat /\ MaxBlock * Handled \in Nat /\ taken \in Nat
    BY HandledFacts DEF IInv
  <2> QED
    BY <1>1, <1>2, <1>5, <2>1 DEF Lap
<1>7. Advertised'
  <2>1. free \in Nat /\ 0 + free = free
    BY Times DEF IInv
  <2> QED
    BY <1>1, <1>5, <2>1 DEF IInv, Advertised
<1> QED
  BY <1>2, <1>3, <1>4, <1>6, <1>7 DEF IInv

\* A session starts at the beginning of its client's stream, with a parser
\* and a timer of its own.
LEMMA StepAccepts ==
  ASSUME IInv, NEW c \in Client, Accepts(c)  PROVE IInv'
<1>1. /\ loop = "accept" /\ loop' = "receive" /\ ~Live /\ conn[c] = "knocking"
      /\ client' = c /\ connected' = TRUE /\ taken' = 0 /\ answered' = 0 /\ last_rx' = millis
      /\ conn' = [d \in Client |-> IF d = c THEN "served" ELSE IF d = client THEN "closed" ELSE conn[d]]
      /\ silence' = 0 /\ free' = 0 /\ parser' = <<>>
      /\ UNCHANGED <<poll_now, peer, sent, events, next_advertisement, millis, age>>
  BY DEF Accepts, Serves
<1>2. c # client /\ events = <<>> /\ poll_now = millis
  BY <1>1 DEF IInv, Session, Stream, Lap
<1>3. TypeOK'
  <2>1. parser' \in Seq(Piece) /\ conn' \in [Client -> {"away", "knocking", "served", "closed"}]
    BY <1>1, EmptySeq DEF IInv, TypeOK
  <2>2. taken' \in 0 .. MaxPieces /\ answered' \in 0 .. MaxPieces
        /\ silence' \in 0 .. kClientIdleTimeout /\ free' \in 0 .. Half
    BY <1>1, Constants
  <2>3. {millis, poll_now, last_rx', next_advertisement} \subseteq 0 .. ClockModulus - 1
    BY <1>1 DEF IInv, TypeOK
  <2> QED
    BY <1>1, <2>1, <2>2, <2>3 DEF IInv, TypeOK
<1>4. Session'
  BY <1>1, <1>2 DEF IInv, Session
<1>5. Handled' = 0
  <2>1. Len(<<>>) = 0 /\ 0 \div 2 = 0 /\ 0 - 0 = 0
    OBVIOUS
  <2> QED
    BY <1>1, <1>2, <2>1 DEF Handled
<1>6. Stream'
  <2>1. LeftOver(c, 0) = <<>>
    <3>1. ~(0 % 2 = 1)
      OBVIOUS
    <3> QED
      BY <3>1 DEF LeftOver
  <2>2. sent[c] >= 0
    BY Constants DEF IInv, TypeOK
  <2>3. 1 .. Len(events) = {}
    BY <1>2
  <2> QED
    BY <1>1, <1>2, <1>5, <2>1, <2>2, <2>3 DEF Stream
<1>7. Since(last_rx)' = 0 /\ Since(poll_now)' = 0
  BY <1>1, <1>2, Times, JustNow DEF IInv, Since
<1>8. MaxBlock * 0 = 0
  BY Constants
<1>9. Silent'
  <2>1. 0 < kClientIdleTimeout + MaxDelay + 0 /\ 0 = AtMost(0, kClientIdleTimeout)
    BY Constants DEF AtMost
  <2> QED
    BY <1>1, <1>5, <1>7, <1>8, <2>1 DEF Silent
<1>10. Lap'
  BY <1>1, <1>5, <1>7, <1>8 DEF Lap
<1>11. Advertised'
  <2>1. age \in Nat /\ 0 <= kAdvertisementPeriod + MaxDelay
    BY Times, Constants DEF IInv
  <2> QED
    BY <1>1, <1>7, <2>1 DEF IInv, Advertised
<1> QED
  BY <1>3, <1>4, <1>6, <1>9, <1>10, <1>11 DEF IInv

\* Nobody is waiting, or nothing has come: the loop goes on.
LEMMA StepNothing ==
  ASSUME IInv, AcceptsNobody \/ ReceivesNothing \/ UNCHANGED vars  PROVE IInv'
<1>1. /\ UNCHANGED <<poll_now, client, connected, conn, peer, sent, last_rx, next_advertisement>>
      /\ UNCHANGED <<taken, parser, events, answered>>
      /\ UNCHANGED <<millis, silence, free, age>>
      /\ loop' = loop \/ (loop \in {"accept", "receive"} /\ loop' \in {"receive", "idle"})
  BY DEF AcceptsNobody, ReceivesNothing, vars, sockets, stream, clocks
<1>2. TypeOK'
  BY <1>1 DEF IInv, TypeOK
<1>3. Session'
  BY <1>1 DEF IInv, Session
<1>4. Handled' = Handled /\ Live' = Live
  BY <1>1 DEF Handled, Live
<1>5. Stream'
  <2>1. loop' = "process" <=> loop = "process"
    BY <1>1
  <2> QED
    BY <1>1, <1>4, <2>1 DEF IInv, Stream
<1>6. Silent'
  BY <1>1, <1>4, SilentKept DEF IInv
<1>7. Lap' /\ Advertised'
  BY <1>1, <1>4, LapKept, AdvertisedKept DEF IInv
<1> QED
  BY <1>2, <1>3, <1>5, <1>6, <1>7 DEF IInv

\* Time passes within a lap while the client is served.
LEMMA LapLater ==
  ASSUME TypeOK, Stream, Lap, TypeOK', Stream', NEW d \in Nat,
         millis' = (millis + d) % ClockModulus, poll_now' = poll_now,
         loop # "probe", loop' # "accept",
         taken + MaxBlock * Handled + d <= taken' + MaxBlock * Handled'
  PROVE  Lap' /\ Since(poll_now)' = Since(poll_now) + d
<1> DEFINE S == Since(poll_now)
           a == taken + MaxBlock * Handled
           b == taken' + MaxBlock * Handled'
<1>1. S \in Nat /\ S <= a /\ a \in Nat
  <2>1. taken \in Nat /\ MaxBlock * Handled \in Nat
    BY HandledFacts
  <2> QED
    BY <2>1, Times DEF Lap
<1>2. b \in Nat /\ b <= Half /\ Half < ClockModulus
  <2>1. taken' \in 0 .. MaxPieces /\ MaxBlock * Handled' \in Nat
        /\ MaxBlock * Handled' <= MaxBlock * (MaxPieces \div 2)
    BY HandledNext
  <2> QED
    BY <2>1, Constants
<1>3. a + d <= b
  OBVIOUS
<1>4. S + d <= b /\ S + d < ClockModulus
  <2> HIDE DEF S, a, b
  <2> QED
    BY <1>1, <1>2, <1>3, Constants
<1>5. Since(poll_now)' = S + d
  BY <1>4, Times, Later DEF Since
<1> QED
  BY <1>4, <1>5 DEF Lap

\* The advertisements then wait for as long as the clock moves on.
LEMMA AdvertisedLater ==
  ASSUME TypeOK, Advertised, NEW d \in Nat,
         millis' = (millis + d) % ClockModulus, age' = AtMost(age + d, Half + kAdvertisementPeriod),
         free' = 0, UNCHANGED <<poll_now, next_advertisement>>,
         loop' = "probe" \/ (loop # "probe" /\ Since(poll_now)' = Since(poll_now) + d)
  PROVE  Advertised'
<1> SUFFICES ASSUME age' < Half + kAdvertisementPeriod
             PROVE  /\ free' <= kAdvertisementPeriod + MaxDelay /\ free' <= age'
                    /\ loop' # "probe" => Since(poll_now)' + free' <= age'
                    /\ \/ next_advertisement' = ((millis' + kAdvertisementPeriod) - age') % ClockModulus
                       \/ /\ next_advertisement' = (millis' - age') % ClockModulus
                          /\ free' = 0 \/ age' >= Half + free'
  BY DEF Advertised
<1>1. age \in Nat /\ Half \in Nat /\ kAdvertisementPeriod \in Nat /\ MaxDelay \in Nat /\ free \in Nat
      /\ Since(poll_now) \in Nat /\ millis \in Clock
  BY Times, Constants
<1>2. age' = age + d /\ age < Half + kAdvertisementPeriod
  BY <1>1 DEF AtMost
<1>3. /\ loop # "probe" => Since(poll_now) + free <= age
      /\ \/ next_advertisement = ((millis + kAdvertisementPeriod) - age) % ClockModulus
         \/ next_advertisement = (millis - age) % ClockModulus
  BY <1>2 DEF Advertised
<1>4. \A a \in Int : (millis + a) % ClockModulus = (millis' + (a - d)) % ClockModulus
  BY <1>1, SameDue
<1>5. millis \in Int /\ millis' \in Int
  <2>1. millis \in Int
    BY <1>1, Constants DEF Clock
  <2>2. (millis + d) % ClockModulus \in Clock
    BY <2>1, Reading
  <2>3. millis' \in Clock
    BY <2>2
  <2> QED
    BY <2>1, <2>3, Constants DEF Clock
<1>6. /\ (millis + kAdvertisementPeriod) - age = millis + (kAdvertisementPeriod - age)
      /\ (millis' + kAdvertisementPeriod) - (age + d) = millis' + ((kAdvertisementPeriod - age) - d)
      /\ millis - age = millis + (-age) /\ millis' - (age + d) = millis' + ((-age) - d)
      /\ kAdvertisementPeriod - age \in Int /\ -age \in Int
  <2> DEFINE m == millis
             n == millis'
  <2>1. m \in Int /\ n \in Int
    BY <1>5
  <2> HIDE DEF m, n
  <2>2. /\ (m + kAdvertisementPeriod) - age = m + (kAdvertisementPeriod - age)
        /\ (n + kAdvertisementPeriod) - (age + d) = n + ((kAdvertisementPeriod - age) - d)
        /\ m - age = m + (-age) /\ n - (age + d) = n + ((-age) - d)
        /\ kAdvertisementPeriod - age \in Int /\ -age \in Int
    BY <1>1, <2>1
  <2> QED
    BY <2>2 DEF m, n
<1>7. \/ next_advertisement' = ((millis' + kAdvertisementPeriod) - age') % ClockModulus
      \/ next_advertisement' = (millis' - age') % ClockModulus
  BY <1>2, <1>3, <1>4, <1>6
<1>8. loop' # "probe" => Since(poll_now)' + 0 <= age'
  BY <1>1, <1>2, <1>3
<1>9. 0 <= kAdvertisementPeriod + MaxDelay /\ 0 <= age'
  BY <1>1, <1>2
<1> QED
  BY <1>7, <1>8, <1>9

\* What is read is appended to what the parser kept, and restarts the timer.
LEMMA StepReceives ==
  ASSUME IInv, NEW n \in 1 .. MaxPieces, NEW d \in {0, 1}, Receives(n, d)  PROVE IInv'
<1> DEFINE t == taken
           bytes == parser \o Pieces(client, t + 1, t + n)
           m == ((t + n) \div 2) - (t \div 2)
<1>1. /\ loop = "receive" /\ n <= Available /\ taken' = t + n
      /\ parser' = Rest(bytes) /\ events' = Whole(bytes)
      /\ loop' = IF Whole(bytes) = <<>> THEN "receive" ELSE "process"
      /\ millis' = (millis + d) % ClockModulus /\ last_rx' = millis' /\ silence' = 0 /\ free' = 0
      /\ age' = AtMost(age + d, Half + kAdvertisementPeriod)
      /\ UNCHANGED <<poll_now, client, connected, conn, peer, sent, answered, next_advertisement>>
  BY DEF Receives, ResetsSilence, sockets
<1>2. Live /\ client \in Client /\ Available = sent[client] - t /\ events = <<>>
  <2>1. n \in Nat /\ n >= 1
    BY Constants
  <2>2. Available # 0
    BY <1>1, <2>1
  <2>3. Live /\ Available = sent[client] - t
    BY <2>2 DEF Available
  <2> QED
    BY <1>1, <2>3 DEF Live, IInv, TypeOK, Stream
<1>3. /\ t \in 0 .. MaxPieces /\ t + n <= MaxPieces /\ t \in Nat /\ n \in Nat
      /\ t + n <= sent[client] /\ MaxPieces \in Nat
  <2>1. t \in 0 .. MaxPieces /\ sent[client] \in 0 .. MaxPieces /\ MaxPieces \in Nat
    BY <1>2, Constants DEF IInv, TypeOK
  <2>2. n <= sent[client] - t
    BY <1>1, <1>2
  <2> HIDE DEF t
  <2> QED
    BY <2>1, <2>2
<1>4. /\ Whole(bytes) = Completed(client, t, n)
      /\ Rest(bytes) = LeftOver(client, t + n)
  <2>1. bytes = LeftOver(client, t) \o Pieces(client, t + 1, t + n)
    BY <1>2 DEF IInv, Stream
  <2>2. t \in Nat /\ n \in Nat
    BY <1>3
  <2> HIDE DEF t, bytes
  <2> QED
    BY <2>1, <2>2, ChunkParsed
<1>5. m \in Nat /\ (t + n) \div 2 \in Nat /\ t \div 2 \in Nat
      /\ \A k \in 1 .. m : /\ 2 * ((t \div 2) + k) - 1 \in 1 .. MaxPieces
                           /\ 2 * ((t \div 2) + k) \in 1 .. MaxPieces
  <2> HIDE DEF t
  <2> QED
    BY <1>3
<1>6. Whole(bytes) = [k \in 1 .. m |-> Frame(client, (t \div 2) + k)]
  BY <1>4 DEF Completed
<1> HIDE DEF bytes, m, t
<1>7. events' \in Seq(Piece \X Piece) /\ Len(events') = m
      /\ \A k \in 1 .. m : events'[k] = Frame(client, (t \div 2) + k)
  <2>1. \A k \in 1 .. m : Frame(client, (t \div 2) + k) \in Piece \X Piece
    BY <1>2, <1>5 DEF Frame, Piece
  <2>2. events' = [k \in 1 .. m |-> Frame(client, (t \div 2) + k)]
    BY <1>1, <1>6
  <2>3. events' \in [1 .. m -> Piece \X Piece]
    BY <2>1, <2>2
  <2> QED
    BY <1>5, <2>2, <2>3
<1>8. parser' \in Seq(Piece)
  <2>1. CASE (t + n) % 2 = 1
    <3>1. <<client, t + n>> \in Piece
      BY <1>2, <1>3 DEF Piece
    <3> QED
      BY <1>1, <1>4, <2>1, <3>1 DEF LeftOver
  <2>2. CASE ~((t + n) % 2 = 1)
    BY <1>1, <1>4, <2>2 DEF LeftOver
  <2> QED
    BY <2>1, <2>2
<1>9. millis' \in Clock
  <2>1. millis + d \in Int
    BY Times, Constants DEF IInv, Clock
  <2> QED
    BY <1>1, <2>1, Reading
<1>10. TypeOK'
  <2>1. {millis', poll_now, last_rx', next_advertisement} \subseteq 0 .. ClockModulus - 1
    BY <1>1, <1>9 DEF IInv, TypeOK, Clock
  <2>2. taken' \in 0 .. MaxPieces /\ silence' \in 0 .. kClientIdleTimeout /\ free' \in 0 .. Half
    BY <1>1, <1>3, Constants
  <2>3. age' \in 0 .. Half + kAdvertisementPeriod
    <3>1. age \in Nat /\ Half \in Nat /\ kAdvertisementPeriod \in Nat
      BY Times, Constants DEF IInv
    <3> QED
      BY <1>1, <3>1 DEF AtMost
  <2>4. loop' \in {"receive", "process"}
    BY <1>1
  <2> QED
    BY <1>1, <1>7, <1>8, <2>1, <2>2, <2>3, <2>4 DEF IInv, TypeOK
<1>11. Session'
  BY <1>1 DEF IInv, Session
<1>12. Handled' = t \div 2 /\ Handled = t \div 2
  <2>1. Handled' = ((t + n) \div 2) - m
    BY <1>1, <1>7 DEF Handled
  <2>2. Handled = (t \div 2) - Len(events) /\ Len(events) = 0
    BY <1>2 DEF Handled, t
  <2> QED
    BY <1>5, <2>1, <2>2 DEF m
<1>13. Stream'
  <2>1. parser' = LeftOver(client, taken')
    BY <1>1, <1>4
  <2>2. \A i \in 1 .. Len(events') : events'[i] = Frame(client, Handled' + i)
    BY <1>7, <1>12
  <2>3. loop' = "process" <=> events' # <<>>
    BY <1>1
  <2>4. answered' <= Handled'
    BY <1>1, <1>12 DEF IInv, Stream
  <2> QED
    BY <1>1, <1>2, <1>3, <2>1, <2>2, <2>3, <2>4 DEF Stream
<1>14. Silent'
  <2>1. Since(last_rx)' = 0
    <3>1. (millis' - millis') % ClockModulus = 0
      BY <1>9, JustNow
    <3> QED
      BY <1>1, <3>1 DEF Since
  <2>2. MaxBlock * Handled' \in Nat
    BY <1>10, <1>13, HandledNext
  <2>3. 0 < kClientIdleTimeout + MaxDelay + MaxBlock * Handled' /\ 0 = AtMost(0, kClientIdleTimeout)
    BY <2>2, Constants DEF AtMost
  <2> QED
    BY <1>1, <2>1, <2>3 DEF Silent
<1>15. Lap' /\ Since(poll_now)' = Since(poll_now) + d
  <2>1. MaxBlock * Handled' = MaxBlock * Handled /\ MaxBlock * Handled \in Nat
    BY <1>12, HandledFacts DEF IInv
  <2>2. t + MaxBlock * Handled + d <= (t + n) + MaxBlock * Handled
    BY <1>3, <2>1
  <2>3. taken + MaxBlock * Handled + d <= taken' + MaxBlock * Handled'
    BY <1>1, <2>1, <2>2 DEF t
  <2>4. d \in Nat /\ loop # "probe" /\ loop' # "accept"
    BY <1>1
  <2> QED
    BY <1>1, <1>10, <1>13, <2>3, <2>4, LapLater DEF IInv
<1>16. Advertised'
  BY <1>1, <1>15, AdvertisedLater DEF IInv
<1> QED
  BY <1>10, <1>11, <1>13, <1>14, <1>15, <1>16 DEF IInv

\* The next of the events is taken, and it is the next frame of the client.
LEMMA OneHandled ==
  ASSUME TypeOK, Stream, loop = "process", NextEvent, UNCHANGED <<client, taken, parser>>
  PROVE  /\ client \in Client /\ events' \in Seq(Piece \X Piece)
         /\ loop' \in {"receive", "process"}
         /\ loop' = "process" <=> events' # <<>>
         /\ Handled' = Handled + 1 /\ Handled + 1 \in 1 .. MaxPieces
         /\ Head(events) = Frame(client, Handled + 1)
         /\ \A i \in 1 .. Len(events') : events'[i] = Frame(client, Handled' + i)
<1> DEFINE S == Piece \X Piece
           x == events'
           k == Len(events)
           h == Handled
<1>1. client \in Client /\ events # <<>>
  BY DEF Stream
<1>2. events \in Seq(S)
  BY DEF TypeOK
<1>3. x = Tail(events) /\ loop' = IF k = 1 THEN "receive" ELSE "process"
  BY DEF NextEvent
<1>4. \A i \in 1 .. k : events[i] = Frame(client, h + i)
  BY DEF Stream
<1>5. h \in Nat /\ h = (taken \div 2) - k /\ taken \in 0 .. MaxPieces /\ MaxPieces \in Nat
  BY HandledFacts, Constants DEF Handled
<1>6. Handled' = (taken \div 2) - Len(x)
  BY DEF Handled
<1> HIDE DEF S, h
<1>7. /\ x \in Seq(S) /\ Len(x) = k - 1 /\ k \in Nat \ {0} /\ Head(events) = events[1]
      /\ \A i \in 1 .. Len(x) : x[i] = events[i + 1]
  BY <1>1, <1>2, <1>3, HeadTailProperties, EmptySeq
<1> HIDE DEF x, k
<1>8. Handled' = h + 1 /\ h + 1 \in 1 .. MaxPieces
  BY <1>5, <1>6, <1>7
<1>9. Head(events) = Frame(client, h + 1)
  BY <1>4, <1>7
<1>10. ASSUME NEW i \in 1 .. Len(x)  PROVE x[i] = Frame(client, (h + 1) + i)
  <2>1. i + 1 \in 1 .. k /\ h + (i + 1) = (h + 1) + i
    BY <1>5, <1>7
  <2> QED
    BY <1>4, <1>7, <2>1
<1>11. loop' = "process" <=> x # <<>>
  <2>1. x # <<>> <=> Len(x) # 0
    BY <1>7
  <2> QED
    BY <1>3, <1>7, <2>1
<1> QED
  BY <1>1, <1>3, <1>7, <1>8, <1>9, <1>10, <1>11 DEF S, x, h

\* A frame of the chunk is processed without time passing.
LEMMA StepProcesses ==
  ASSUME IInv, Drops \/ Answers \/ AnswerStops  PROVE IInv'
<1>1. /\ loop = "process" /\ NextEvent
      /\ UNCHANGED <<poll_now, client, conn, peer, sent, taken, parser, last_rx, next_advertisement>>
      /\ UNCHANGED <<millis, silence, free, age>>
      /\ connected' = connected \/ (connected' = FALSE /\ peer[client] \in {"fin", "reset"})
      /\ answered' = answered \/ answered' = FrameNumber(Head(events))
  BY DEF Drops, Answers, AnswerStops, ProcessOnly, clocks
<1>2. /\ client \in Client /\ events' \in Seq(Piece \X Piece)
      /\ loop' \in {"receive", "process"}
      /\ loop' = "process" <=> events' # <<>>
      /\ Handled' = Handled + 1 /\ Handled + 1 \in 1 .. MaxPieces
      /\ Head(events) = Frame(client, Handled + 1)
      /\ \A i \in 1 .. Len(events') : events'[i] = Frame(client, Handled' + i)
  BY <1>1, OneHandled DEF IInv
<1>3. Handled \in Nat /\ answered \in Nat
  BY HandledFacts DEF IInv
<1>4. FrameNumber(Head(events)) = Handled + 1
  BY <1>2, <1>3, FrameFacts
<1>5. answered' <= Handled' /\ answered' \in 0 .. MaxPieces
  <2>1. answered <= Handled /\ answered \in 0 .. MaxPieces
    BY DEF IInv, Stream, TypeOK
  <2>2. CASE answered' = answered
    BY <1>2, <1>3, <2>1, <2>2
  <2>3. CASE answered' = FrameNumber(Head(events))
    BY <1>2, <1>3, <1>4, <2>3, Constants
  <2>4. answered' = answered \/ answered' = FrameNumber(Head(events))
    BY <1>1
  <2> QED
    BY <2>2, <2>3, <2>4
<1>6. TypeOK'
  BY <1>1, <1>2, <1>5 DEF IInv, TypeOK
<1>7. Session'
  BY <1>1 DEF IInv, Session
<1>8. Stream'
  BY <1>1, <1>2, <1>5 DEF IInv, Stream
<1>9. Silent'
  <2>1. Live' => Live
    BY <1>1 DEF Live
  <2>2. Handled' = Handled + 1 /\ UNCHANGED <<millis, last_rx, silence>>
    BY <1>1, <1>2
  <2> QED
    BY <2>1, <2>2, SilentKept DEF IInv
<1>10. Lap' /\ Advertised'
  BY <1>1, <1>2, LapKept, AdvertisedKept DEF IInv
<1> QED
  BY <1>6, <1>7, <1>8, <1>9, <1>10 DEF IInv

\* Times that are capped may be capped at any moment.
LEMMA Caps ==
  ASSUME NEW s \in Nat, NEW d \in Nat, NEW cap \in Nat
  PROVE  /\ AtMost(AtMost(s, cap) + d, cap) = AtMost(s + d, cap)
         /\ AtMost(s, cap) \in 0 .. cap
BY DEF AtMost

\* An answer may block, and takes its time from the lap and the silence.
LEMMA StepAnswersShort ==
  ASSUME IInv, NEW d \in 0 .. MaxBlock, AnswersShort(d)  PROVE IInv'
<1>1. /\ loop = "process" /\ NextEvent /\ Live
      /\ millis' = (millis + d) % ClockModulus
      /\ silence' = AtMost(silence + d, kClientIdleTimeout) /\ free' = 0
      /\ age' = AtMost(age + d, Half + kAdvertisementPeriod)
      /\ UNCHANGED <<poll_now, client, connected, conn, peer, sent, taken, parser, answered,
                     last_rx, next_advertisement>>
  BY DEF AnswersShort, Passes, ProcessOnly
<1>2. /\ client \in Client /\ events' \in Seq(Piece \X Piece)
      /\ loop' \in {"receive", "process"}
      /\ loop' = "process" <=> events' # <<>>
      /\ Handled' = Handled + 1 /\ Handled + 1 \in 1 .. MaxPieces
      /\ \A i \in 1 .. Len(events') : events'[i] = Frame(client, Handled' + i)
  BY <1>1, OneHandled DEF IInv
<1>3. /\ Handled \in Nat /\ answered \in Nat /\ taken \in Nat /\ d \in Nat /\ d <= MaxBlock /\ MaxBlock \in Nat
      /\ MaxBlock * Handled \in Nat /\ MaxBlock * (Handled + 1) = MaxBlock * Handled + MaxBlock
  BY HandledFacts, Blocking, Constants DEF IInv
<1>4. millis' \in Clock
  <2>1. millis + d \in Int
    BY <1>3, Times, Constants DEF IInv, Clock
  <2> QED
    BY <1>1, <2>1, Reading
<1>5. TypeOK'
  <2>1. {millis', poll_now, last_rx, next_advertisement} \subseteq 0 .. ClockModulus - 1
    BY <1>4 DEF IInv, TypeOK, Clock
  <2>2. silence + d \in Nat /\ age + d \in Nat /\ Half + kAdvertisementPeriod \in Nat
        /\ kClientIdleTimeout \in Nat /\ 0 \in 0 .. Half
    BY <1>3, Times, Constants DEF IInv
  <2>3. silence' \in 0 .. kClientIdleTimeout /\ free' \in 0 .. Half
        /\ age' \in 0 .. Half + kAdvertisementPeriod
    BY <1>1, <2>2, Caps
  <2>4. /\ UNCHANGED <<client, connected, conn, peer, sent, taken, parser, answered>>
        /\ {millis', poll_now', last_rx', next_advertisement'} \subseteq 0 .. ClockModulus - 1
    BY <1>1, <2>1
  <2>5. loop' \in {"receive", "process"} /\ events' \in Seq(Piece \X Piece)
    BY <1>2
  <2> QED
    BY <2>3, <2>4, <2>5 DEF IInv, TypeOK
<1>6. Session'
  BY <1>1 DEF IInv, Session
<1>7. Stream'
  <2>1. answered <= Handled'
    BY <1>2, <1>3 DEF IInv, Stream
  <2> QED
    BY <1>1, <1>2, <2>1 DEF IInv, Stream
<1>8. Silent'
  <2> DEFINE e == Since(last_rx)
  <2>1. /\ e < kClientIdleTimeout + MaxDelay + MaxBlock * Handled
        /\ silence = AtMost(e, kClientIdleTimeout) /\ e \in Nat
    BY <1>1, Times DEF IInv, Silent
  <2>2. MaxBlock * Handled' \in Nat /\ MaxBlock * Handled' <= MaxBlock * (MaxPieces \div 2)
        /\ MaxBlock * Handled' = MaxBlock * Handled + MaxBlock
    <3>1. Handled' = Handled + 1
      BY <1>2
    <3> QED
      BY <1>3, <1>5, <1>7, <3>1, HandledNext
  <2> HIDE DEF e
  <2>3. e + d < kClientIdleTimeout + MaxDelay + MaxBlock * Handled' /\ e + d < ClockModulus
    BY <1>3, <2>1, <2>2, Constants
  <2>4. Since(last_rx)' = e + d
    BY <1>1, <1>3, <2>3, Times, Later DEF IInv, Since, e
  <2>5. silence' = AtMost(e + d, kClientIdleTimeout)
    BY <1>1, <1>3, <2>1, Caps, Constants
  <2> QED
    BY <2>3, <2>4, <2>5 DEF Silent, AtMost
<1>9. Lap' /\ Since(poll_now)' = Since(poll_now) + d
  <2>1. taken + MaxBlock * Handled + d <= taken + (MaxBlock * Handled + MaxBlock)
    BY <1>3
  <2>2. taken + MaxBlock * Handled + d <= taken' + MaxBlock * Handled'
    <3>1. Handled' = Handled + 1 /\ taken' = taken
      BY <1>1, <1>2
    <3>2. MaxBlock * Handled' = MaxBlock * Handled + MaxBlock
      BY <1>3, <3>1
    <3> QED
      BY <2>1, <3>1, <3>2
  <2>3. loop # "probe" /\ loop' # "accept"
    BY <1>1, <1>2
  <2> QED
    BY <1>1, <1>3, <1>5, <1>7, <2>2, <2>3, LapLater DEF IInv
<1>10. Advertised'
  <2>1. loop # "probe"
    BY <1>1
  <2> QED
    BY <1>1, <1>3, <1>9, <2>1, AdvertisedLater DEF IInv
<1> QED
  BY <1>5, <1>6, <1>7, <1>8, <1>9, <1>10 DEF IInv

\* The idle client is closed between two chunks.
LEMMA StepIdles ==
  ASSUME IInv, Idles  PROVE IInv'
<1>1. /\ loop = "idle" /\ loop' = "idle" /\ Live /\ Closes
      /\ UNCHANGED <<poll_now, taken, answered, events, last_rx, next_advertisement>>
      /\ UNCHANGED <<millis, silence, free, age>>
  BY DEF Idles, IsIdle, clocks
<1>2. /\ Session' /\ Stream' /\ Handled' = Handled /\ ~Live'
      /\ client' \in Client \cup {NoClient} /\ connected' \in BOOLEAN /\ parser' \in Seq(Piece)
      /\ conn' \in [Client -> {"away", "knocking", "served", "closed"}]
      /\ peer' \in [Client -> {"open", "fin", "reset", "deaf"}]
      /\ sent' \in [Client -> 0 .. MaxPieces]
  BY <1>1, Closing DEF IInv
<1>3. TypeOK'
  BY <1>1, <1>2 DEF IInv, TypeOK
<1>4. Silent'
  BY <1>2 DEF Silent
<1>5. Lap' /\ Advertised'
  BY <1>1, <1>2, LapKept, AdvertisedKept DEF IInv
<1> QED
  BY <1>2, <1>3, <1>4, <1>5 DEF IInv

\* At the end of a lap the silence of a client is still told from the clock.
LEMMA IdleInTime ==
  ASSUME IInv, Live
  PROVE  /\ IsIdle => Since(last_rx) >= kClientIdleTimeout
         /\ ~IsIdle => Since(last_rx) < kClientIdleTimeout
<1> DEFINE e == Since(last_rx)
           x == millis - last_rx
<1>1. e < Half /\ e \in Nat
  <2>1. e < kClientIdleTimeout + MaxDelay + MaxBlock * Handled /\ e \in Nat
    BY Times DEF IInv, Silent
  <2>2. MaxBlock * Handled \in Nat /\ MaxBlock * Handled <= MaxBlock * (MaxPieces \div 2)
    BY HandledFacts DEF IInv
  <2> HIDE DEF e
  <2> QED
    BY <2>1, <2>2, Constants
<1>2. x \in Int
  BY Times, Constants DEF IInv, Clock
<1>3. e = x % ClockModulus
  BY DEF Since
<1> HIDE DEF e, x
<1>4. Signed(x) = e
  BY <1>1, <1>2, <1>3, SignedFacts
<1>5. IsIdle <=> e >= kClientIdleTimeout
  BY <1>4 DEF IsIdle, elapsedAtLeast, x
<1> QED
  BY <1>1, <1>5, Constants DEF e

\* The next advertisement is due a period after the lap in which this one was
\* sent began.
LEMMA StepAdvertises ==
  ASSUME IInv, NEW d \in 1 .. MaxDelay, Advertises(d)  PROVE IInv'
<1>1. /\ loop = "idle" /\ loop' = "probe" /\ ~Live
      /\ next_advertisement' = (poll_now + kAdvertisementPeriod) % ClockModulus
      /\ millis' = (millis + d) % ClockModulus /\ free' = d
      /\ age' = (millis' - poll_now) % ClockModulus
      /\ UNCHANGED <<poll_now, client, connected, conn, peer, sent, last_rx, silence>>
      /\ UNCHANGED <<taken, parser, events, answered>>
  BY DEF Advertises, LapOnly, sockets, stream
<1> DEFINE L == Since(poll_now)
           k == kAdvertisementPeriod
           M == ClockModulus
<1>2. /\ L \in Nat /\ L + d <= Half /\ Half < M /\ d \in Nat /\ d <= MaxDelay /\ d >= 1
  <2>1. L \in Nat /\ taken \in 0 .. MaxPieces /\ MaxBlock * Handled \in Nat
        /\ MaxBlock * Handled <= MaxBlock * (MaxPieces \div 2)
    BY Times, HandledFacts DEF IInv
  <2>2. L <= taken + MaxBlock * Handled
    BY <1>1 DEF IInv, Lap
  <2> HIDE DEF L
  <2> QED
    BY <2>1, <2>2, Constants
<1>3. age' = L + d
  <2>1. L + d < M
    BY <1>2, Constants
  <2>2. (((millis + d) % ClockModulus) - poll_now) % ClockModulus = L + d
    BY <1>2, <2>1, Times, Later DEF IInv, Since
  <2>3. millis' = (millis + d) % ClockModulus /\ age' = (millis' - poll_now) % ClockModulus
    BY <1>1
  <2> QED
    BY <2>2, <2>3
<1>4. millis \in Int /\ poll_now \in Int /\ k \in Nat /\ M \in Nat
  BY Times, Constants DEF IInv, Clock
<1>5. millis' \in Clock /\ next_advertisement' \in Clock
  <2>1. millis + d \in Int /\ poll_now + kAdvertisementPeriod \in Int
    BY <1>2, <1>4
  <2>2. /\ (millis + d) % ClockModulus \in Clock
        /\ (poll_now + kAdvertisementPeriod) % ClockModulus \in Clock
    BY <2>1, Reading
  <2> QED
    BY <1>1, <2>2
<1>6. TypeOK'
  <2>1. {millis', poll_now, last_rx, next_advertisement'} \subseteq 0 .. ClockModulus - 1
    BY <1>5 DEF IInv, TypeOK, Clock
  <2>2. free' \in 0 .. Half /\ age' \in 0 .. Half + kAdvertisementPeriod
    BY <1>1, <1>2, <1>3, Constants
  <2> QED
    BY <1>1, <2>1, <2>2 DEF IInv, TypeOK
<1>7. Handled' = Handled
  BY <1>1 DEF Handled
<1>8. Session' /\ Stream'
  BY <1>1, <1>7 DEF IInv, Session, Stream
<1>9. Silent' /\ Lap'
  BY <1>1 DEF Silent, Lap, Live
<1>10. next_advertisement' = ((millis' + k) - age') % M
  <2> DEFINE n == millis'
             p0 == poll_now
             m0 == millis
  <2>1. PICK p \in Int : m0 - p0 = L + p * M
    <3>1. m0 - p0 \in Int
      BY <1>4
    <3> QED
      BY <3>1, Reading DEF Since
  <2>2. PICK q \in Int : m0 + d = n + q * M
    <3>1. m0 + d \in Int
      BY <1>2, <1>4
    <3> QED
      BY <1>1, <3>1, Reading
  <2>3. n \in Int /\ m0 \in Int /\ p0 \in Int
    BY <1>4, <1>5, Constants DEF Clock
  <2> HIDE DEF n, p0, m0, L, M, k
  <2>4. (n + k) - (L + d) = (p0 + k) + (p - q) * M
    BY <1>2, <1>4, <2>1, <2>2, <2>3
  <2>5. (n + k) - (L + d) \in Int /\ p0 + k \in Int
    BY <1>2, <1>4, <2>3
  <2>6. ((n + k) - (L + d)) % M = (p0 + k) % M
    BY <2>4, <2>5, SameReading DEF M
  <2> QED
    BY <1>1, <1>3, <2>6 DEF n, p0, M, k
<1>11. Advertised'
  <2>1. d <= kAdvertisementPeriod + MaxDelay /\ d <= L + d
    BY <1>2, <1>4, Constants
  <2> QED
    BY <1>1, <1>3, <1>10, <2>1 DEF Advertised
<1> QED
  BY <1>6, <1>8, <1>9, <1>11 DEF IInv

\* Without a client a lap ends undone only when the period is not over, or
\* when no advertisement has ever been sent and the clock has gone half round.
LEMMA NotDue ==
  ASSUME TypeOK, Advertised, ~Due, loop # "probe",
         age < Half + kAdvertisementPeriod
  PROVE  /\ next_advertisement = ((millis + kAdvertisementPeriod) - age) % ClockModulus
              => free < kAdvertisementPeriod
         /\ next_advertisement = (millis - age) % ClockModulus => age >= Half
<1> DEFINE L == Since(poll_now)
           k == kAdvertisementPeriod
<1>1. /\ L \in Nat /\ free \in Nat /\ age \in Nat /\ k \in Nat /\ Half \in Nat
      /\ L + free <= age /\ age < Half + k
  BY Times, Constants DEF Advertised
<1>2. millis \in Clock /\ poll_now \in Clock /\ millis \in Int
  BY Times, Constants DEF Clock
<1>3. L = (millis - poll_now) % ClockModulus
  BY DEF Since
<1>4. ~(Signed(poll_now - next_advertisement) >= 0)
  BY DEF Due
<1> HIDE DEF L, k
<1>5. ASSUME NEW late \in Int, next_advertisement = (millis - late) % ClockModulus,
             0 <= late - L, late - L < Half
      PROVE  FALSE
  <2>1. Signed(poll_now - ((millis - late) % ClockModulus)) = late - L
    BY <1>2, <1>3, <1>5, DueInTime
  <2>2. Signed(poll_now - next_advertisement) = late - L
    BY <1>5, <2>1
  <2> QED
    BY <1>4, <1>5, <2>2
<1>6. ASSUME next_advertisement = ((millis + k) - age) % ClockModulus
      PROVE  free < k
  <2> DEFINE m == millis
  <2>1. (m + k) - age = m - (age - k) /\ age - k \in Int
    <3>1. m \in Int
      BY <1>2
    <3> HIDE DEF m
    <3> QED
      BY <1>1, <3>1
  <2>2. ~(0 <= (age - k) - L)
    <3>1. (age - k) - L < Half
      BY <1>1
    <3>2. next_advertisement = (millis - (age - k)) % ClockModulus
      BY <1>6, <2>1
    <3> QED
      BY <1>5, <2>1, <3>1, <3>2
  <2> QED
    BY <1>1, <2>2
<1>7. ASSUME next_advertisement = (millis - age) % ClockModulus
      PROVE  age >= Half
  <2>1. ~(age - L < Half)
    <3>1. 0 <= age - L /\ age \in Int
      BY <1>1
    <3> QED
      BY <1>5, <1>7, <3>1
  <2> QED
    BY <1>1, <2>1
<1> QED
  BY <1>6, <1>7 DEF k

\* The time without a client, f before the lap's last delay and g after it,
\* began when the age a of the last advertisement was half a round.
LEMMA HalfRound ==
  ASSUME NEW a \in Nat, NEW f \in Nat, NEW g \in Nat, NEW d \in Nat,
         a >= Half, g <= f + d, f = 0 \/ a >= Half + f
  PROVE  /\ a + d >= Half + g
         /\ a + d < Half + kAdvertisementPeriod
              => g <= kAdvertisementPeriod + MaxDelay /\ g <= a + d
<1>1. Half \in Nat /\ kAdvertisementPeriod \in Nat /\ MaxDelay \in Nat
  BY Constants
<1>2. a + d >= Half + g
  BY <1>1
<1> QED
  BY <1>1, <1>2

\* A lap ends with a client that is not idle, or an advertisement not due.
LEMMA StepLapEnds ==
  ASSUME IInv, NEW d \in 1 .. MaxDelay, LapEnds(d)  PROVE IInv'
<1>1. /\ loop = "idle" /\ loop' = "probe" /\ ~IsIdle
      /\ Live \/ ~Due
      /\ millis' = (millis + d) % ClockModulus
      /\ silence' = IF Live THEN AtMost(silence + d, kClientIdleTimeout) ELSE 0
      /\ free' = IF Live THEN 0 ELSE AtMost(free + d, Half)
      /\ age' = AtMost(age + d, Half + kAdvertisementPeriod)
      /\ UNCHANGED <<poll_now, client, connected, conn, peer, sent, last_rx, next_advertisement>>
      /\ UNCHANGED <<taken, parser, events, answered>>
  BY DEF LapEnds, Passes, LapOnly, sockets, stream
<1>2. /\ d \in Nat /\ d <= MaxDelay /\ silence \in Nat /\ free \in Nat /\ age \in Nat /\ Half \in Nat
      /\ kAdvertisementPeriod \in Nat /\ kClientIdleTimeout \in Nat /\ MaxDelay \in Nat
      /\ millis \in Int
  BY Times, Constants DEF IInv, Clock
<1>3. millis' \in Clock
  <2>1. millis + d \in Int
    BY <1>2
  <2>2. (millis + d) % ClockModulus \in Clock
    BY <2>1, Reading
  <2> QED
    BY <1>1, <2>2
<1>4. TypeOK'
  <2>1. {millis', poll_now', last_rx', next_advertisement'} \subseteq 0 .. ClockModulus - 1
    BY <1>1, <1>3 DEF IInv, TypeOK, Clock
  <2>2. silence + d \in Nat /\ free + d \in Nat /\ age + d \in Nat /\ Half + kAdvertisementPeriod \in Nat
        /\ 0 \in 0 .. Half /\ 0 \in 0 .. kClientIdleTimeout
    BY <1>2
  <2>3. silence' \in 0 .. kClientIdleTimeout /\ free' \in 0 .. Half
        /\ age' \in 0 .. Half + kAdvertisementPeriod
    BY <1>1, <1>2, <2>2, Caps
  <2>4. UNCHANGED <<client, connected, conn, peer, sent, taken, parser, events, answered>>
    BY <1>1
  <2>5. loop' \in {"probe"}
    BY <1>1
  <2> QED
    BY <2>1, <2>3, <2>4, <2>5 DEF IInv, TypeOK
<1>5. Handled' = Handled /\ Live' = Live
  BY <1>1 DEF Handled, Live
<1>6. Session' /\ Stream'
  BY <1>1, <1>5 DEF IInv, Session, Stream
<1>7. Silent'
  <2> SUFFICES ASSUME Live
               PROVE  /\ Since(last_rx)' < kClientIdleTimeout + MaxDelay + MaxBlock * Handled'
                      /\ silence' = AtMost(Since(last_rx)', kClientIdleTimeout)
    BY <1>5 DEF Silent, AtMost
  <2> DEFINE e == Since(last_rx)
  <2>1. e < kClientIdleTimeout /\ e \in Nat /\ silence = AtMost(e, kClientIdleTimeout)
    BY <1>1, IdleInTime, Times DEF IInv, Silent
  <2>2. MaxBlock * Handled' \in Nat
    BY <1>5, HandledFacts DEF IInv
  <2> HIDE DEF e
  <2>3. e + d < kClientIdleTimeout + MaxDelay + MaxBlock * Handled' /\ e + d < ClockModulus
    <3>1. e + d < kClientIdleTimeout + MaxDelay
      BY <1>2, <2>1
    <3>2. kClientIdleTimeout + MaxDelay < ClockModulus
      BY Constants
    <3> QED
      BY <1>2, <2>1, <2>2, <3>1, <3>2, Constants
  <2>4. Since(last_rx)' = e + d
    <3>1. (((millis + d) % ClockModulus) - last_rx) % ClockModulus = e + d
      BY <1>2, <2>3, Times, Later DEF IInv, Since, e
    <3> QED
      BY <1>1, <3>1 DEF Since
  <2>5. silence' = AtMost(e + d, kClientIdleTimeout)
    BY <1>1, <1>2, <2>1, Caps
  <2> QED
    BY <2>3, <2>4, <2>5
<1>8. Lap'
  BY <1>1 DEF Lap
<1>9. CASE Live
  <2>1. Advertised'
    BY <1>1, <1>2, <1>9, AdvertisedLater DEF IInv
  <2> QED
    BY <1>4, <1>6, <1>7, <1>8, <2>1 DEF IInv
<1>10. CASE ~Live
  <2>1. ASSUME age' < Half + kAdvertisementPeriod
        PROVE  /\ free' <= kAdvertisementPeriod + MaxDelay /\ free' <= age'
               /\ \/ next_advertisement' = ((millis' + kAdvertisementPeriod) - age') % ClockModulus
                  \/ /\ next_advertisement' = (millis' - age') % ClockModulus
                     /\ free' = 0 \/ age' >= Half + free'
    <3>1. age' = age + d /\ age < Half + kAdvertisementPeriod
      BY <1>1, <1>2, <2>1 DEF AtMost
    <3>2. free' <= free + d /\ free' \in Nat
      BY <1>1, <1>2, <1>10 DEF AtMost
    <3>3. /\ free <= age
          /\ \/ next_advertisement = ((millis + kAdvertisementPeriod) - age) % ClockModulus
             \/ /\ next_advertisement = (millis - age) % ClockModulus
                /\ free = 0 \/ age >= Half + free
      BY <3>1 DEF IInv, Advertised
    <3>4. \A a \in Int : (millis + a) % ClockModulus = (millis' + (a - d)) % ClockModulus
      BY <1>1, <1>2, Times, SameDue DEF IInv
    <3> DEFINE m == millis
               n == millis'
               k == kAdvertisementPeriod
    <3>5. m \in Int /\ n \in Int /\ k \in Nat
      BY <1>2, <1>3, Constants DEF Clock
    <3> HIDE DEF m, n, k
    <3>6. /\ (m + k) - age = m + (k - age) /\ (n + k) - (age + d) = n + ((k - age) - d)
          /\ m - age = m + (-age) /\ n - (age + d) = n + ((-age) - d)
          /\ k - age \in Int /\ -age \in Int
      BY <1>2, <3>5
    <3>7. CASE next_advertisement = ((m + k) - age) % ClockModulus
      <4>1. free < k
        BY <1>1, <1>10, <3>1, <3>7, NotDue DEF IInv, m, k
      <4>2. free' <= k + MaxDelay /\ free' <= age'
        BY <1>2, <3>1, <3>2, <3>3, <3>5, <4>1
      <4>3. next_advertisement = ((n + k) - age') % ClockModulus
        <5>1. (m + (k - age)) % ClockModulus = (n + ((k - age) - d)) % ClockModulus
          BY <3>4, <3>6 DEF m, n
        <5> QED
          BY <3>1, <3>6, <3>7, <5>1
      <4> QED
        BY <1>1, <4>2, <4>3 DEF n, k
    <3>8. CASE next_advertisement = (m - age) % ClockModulus /\ (free = 0 \/ age >= Half + free)
      <4>1. age >= Half
        BY <1>1, <1>10, <3>1, <3>8, NotDue DEF IInv, m
      <4>2. /\ age + d >= Half + free'
            /\ age + d < Half + kAdvertisementPeriod
                 => free' <= kAdvertisementPeriod + MaxDelay /\ free' <= age + d
        BY <1>2, <3>2, <3>8, <4>1, HalfRound
      <4>3. age' >= Half + free' /\ free' <= k + MaxDelay /\ free' <= age'
        BY <2>1, <3>1, <4>2 DEF k
      <4>4. next_advertisement = (n - age') % ClockModulus
        <5>1. (m + (-age)) % ClockModulus = (n + ((-age) - d)) % ClockModulus
          BY <3>4, <3>6 DEF m, n
        <5> QED
          BY <3>1, <3>6, <3>8, <5>1
      <4> QED
        BY <1>1, <4>3, <4>4 DEF n, k
    <3> QED
      BY <3>3, <3>7, <3>8 DEF m, k
  <2>2. Advertised'
    BY <1>1, <2>1 DEF Advertised
  <2> QED
    BY <1>4, <1>6, <1>7, <1>8, <2>2 DEF IInv
<1> QED
  BY <1>9, <1>10

-----------------------------------------------------------------------------
\* The inductive invariant holds: poll() keeps it at every step, whatever
\* becomes of the clients.
THEOREM Invariance == Spec => []IInv
<1>1. ASSUME IInv, [Next]_vars  PROVE IInv'
  <2>1. CASE Poll
    BY <1>1, <2>1, StepProbes, StepAccepts, StepNothing, StepReceives, StepProcesses,
       StepAnswersShort, StepIdles, StepAdvertises, StepLapEnds DEF Poll
  <2>2. CASE FlagFalls \/ UNCHANGED vars
    BY <1>1, <2>2, StepFlagFalls, StepNothing
  <2>3. CASE \E c \in Client : Connects(c) \/ Sends(c) \/ Leaves(c)
    BY <1>1, <2>3, StepClients
  <2> QED
    BY <1>1, <2>1, <2>2, <2>3 DEF Next
<1> QED
  BY <1>1, InitInv, PTL DEF Spec

\* Sessions do not mix, however many connections there are, however TCP cuts
\* their streams and wherever a client vanishes: what the loop processes are
\* whole frames of the client it serves, and it answers them in their order.
THEOREM SessionsApart == Spec => []OwnFramesInOrder
<1>1. IInv => OwnFramesInOrder
  <2> SUFFICES ASSUME IInv  PROVE OwnFrames /\ RepliesInOrder
    BY DEF IInv, OwnFramesInOrder
  <2>1. Handled \in Nat /\ answered \in Nat /\ answered <= Handled /\ Len(events) \in Nat
    BY HandledFacts DEF IInv, Stream
  <2>2. ASSUME NEW i \in 1 .. Len(events)
        PROVE  /\ IsFrame(events[i]) /\ events[i][1][1] = client
               /\ FrameNumber(events[i]) = Handled + i
    <3>1. events[i] = Frame(client, Handled + i) /\ Handled + i \in Int
      BY <2>1 DEF IInv, Stream
    <3> QED
      BY <3>1, FrameFacts
  <2>3. OwnFrames
    BY <2>2 DEF OwnFrames
  <2>4. RepliesInOrder
    <3> SUFFICES ASSUME NEW i \in 1 .. Len(events)
                 PROVE  /\ FrameNumber(events[i]) > answered
                        /\ \A j \in 1 .. i - 1 : FrameNumber(events[j]) < FrameNumber(events[i])
      BY DEF RepliesInOrder
    <3>1. FrameNumber(events[i]) > answered
      BY <2>1, <2>2
    <3>2. ASSUME NEW j \in 1 .. i - 1  PROVE FrameNumber(events[j]) < FrameNumber(events[i])
      <4>1. j \in 1 .. Len(events) /\ Handled + j < Handled + i
        BY <2>1
      <4> QED
        BY <2>2, <4>1
    <3> QED
      BY <3>1, <3>2
  <2> QED
    BY <2>3, <2>4
<1> QED
  BY <1>1, Invariance, PTL

\* Without a client the bridge advertises once in every period, wherever the
\* clock wraps.
THEOREM AdvertisesInTime == Spec => []AdvertisesPromptly
<1>1. IInv => AdvertisesPromptly
  <2> SUFFICES ASSUME IInv, age < Half + kAdvertisementPeriod
               PROVE  free <= kAdvertisementPeriod + MaxDelay
    BY Times, Constants DEF IInv, AdvertisesPromptly
  <2> QED
    BY DEF IInv, Advertised
<1> QED
  BY <1>1, Invariance, PTL

\* A client whose end is open is closed for silence only, wherever the clock
\* wraps.
THEOREM SilentDropped == Spec => IdleOnlyWhenSilent
<1> DEFINE Kept ==
      \A c \in Client :
        conn[c] = "served" /\ conn'[c] = "closed" /\ peer[c] = "open"
          => silence >= kClientIdleTimeout
<1>1. ASSUME IInv, [Next]_vars  PROVE Kept
  <2> SUFFICES ASSUME NEW c \in Client, conn[c] = "served", conn'[c] = "closed", peer[c] = "open"
               PROVE  silence >= kClientIdleTimeout
    OBVIOUS
  <2>1. c = client /\ client \in Client /\ connected /\ Live
    <3>1. c = client
      BY <1>1 DEF IInv, Session
    <3>2. client # NoClient
      BY <3>1, Constants
    <3>3. connected
      BY <1>1, <3>1 DEF IInv, Session
    <3> QED
      BY <3>1, <3>2, <3>3 DEF Live
  <2>2. ~(conn' = conn)
    OBVIOUS
  <2>3. Idles
    <3>1. CASE Probes
      <4>1. ~PeerGone
        BY <2>1 DEF PeerGone
      <4> QED
        BY <2>2, <3>1, <4>1 DEF Probes, sockets
    <3>2. CASE \E d \in Client : Accepts(d)
      BY <2>1, <3>2 DEF Accepts
    <3>3. CASE AcceptsNobody \/ ReceivesNothing
      BY <2>2, <3>3 DEF AcceptsNobody, ReceivesNothing, sockets
    <3>4. CASE \E n \in 1 .. MaxPieces, d \in {0, 1} : Receives(n, d)
      BY <2>2, <3>4 DEF Receives, sockets
    <3>5. CASE Drops \/ Answers \/ AnswerStops \/ \E d \in 0 .. MaxBlock : AnswersShort(d)
      BY <2>2, <3>5 DEF Drops, Answers, AnswerStops, AnswersShort
    <3>6. CASE \E d \in 1 .. MaxDelay : Advertises(d) \/ LapEnds(d)
      BY <2>2, <3>6 DEF Advertises, LapEnds, LapOnly, sockets
    <3>7. CASE FlagFalls \/ UNCHANGED vars
      BY <2>2, <3>7 DEF FlagFalls, vars, sockets
    <3>8. CASE \E d \in Client : Connects(d) \/ Sends(d) \/ Leaves(d)
      <4>1. PICK d \in Client : conn' = conn \/ conn' = [conn EXCEPT ![d] = "knocking"]
        BY <3>8 DEF Connects, Sends, Leaves
      <4> QED
        BY <1>1, <2>2, <4>1 DEF IInv, TypeOK
    <3> QED
      BY <1>1, <3>1, <3>2, <3>3, <3>4, <3>5, <3>6, <3>7, <3>8 DEF Next, Poll
  <2>4. Since(last_rx) >= kClientIdleTimeout
    BY <1>1, <2>1, <2>3, IdleInTime DEF Idles
  <2>5. silence = AtMost(Since(last_rx), kClientIdleTimeout)
    BY <1>1, <2>1 DEF IInv, Silent
  <2>6. Since(last_rx) \in Nat /\ kClientIdleTimeout \in Nat
    BY <1>1, Times, Constants DEF IInv
  <2> QED
    BY <2>4, <2>5, <2>6 DEF AtMost
<1>2. IInv /\ [Next]_vars => [Kept]_vars
  BY <1>1
<1> HIDE DEF Kept
<1>3. Spec => [][Kept]_vars
  BY <1>2, Invariance, PTL DEF Spec
<1> QED
  BY <1>3, PTL DEF IdleOnlyWhenSilent, Kept
=============================================================================
