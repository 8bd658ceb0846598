-------------------------- MODULE AuxParser_proofs --------------------------
(***************************************************************************)
(* Proofs about AuxParser, for any bytes, limits and streams: that the     *)
(* three parsers find in any stream, however it is cut, what the reference *)
(* definition by positions finds, and that encoder and decoder agree.      *)
(*                                                                         *)
(* The loops of the parsers and the reference definition are recursive     *)
(* functions.  What they compute is proved by minimal counterexample: a    *)
(* set of buffers has a shortest one.  Turns(limit) stands for a loop with *)
(* any limit; all three and the reference are shown to be this function.   *)
(***************************************************************************)
EXTENDS AuxParser, SequenceTheorems, WellFoundedInduction, TLAPS

Bytes == Seq(Byte)

-----------------------------------------------------------------------------
(***************************************************************************)
(* Minimal counterexamples.                                                *)
(***************************************************************************)
\* A set of numbers has a least one.
LEMMA LeastNumber ==
  ASSUME NEW T \in SUBSET Nat, T # {}
  PROVE  \E i \in T : \A j \in T : i <= j
<1>1. \E x \in T : \A y \in T : ~ (<<y, x>> \in OpToRel(<, Nat))
  BY NatLessThanWellFounded, WFMin
<1>2. \E x \in T : \A y \in T : ~ (y < x)
  BY <1>1 DEF OpToRel
<1> QED
  BY <1>2

\* A set of buffers has a shortest one.
LEMMA ShortestBuffer ==
  ASSUME NEW T \in SUBSET Bytes, T # {}
  PROVE  \E s \in T : \A t \in T : Len(s) <= Len(t)
<1> DEFINE L == {Len(s) : s \in T}
<1>0. \A s \in T : Len(s) \in Nat
  BY DEF Bytes
<1>1. L \in SUBSET Nat /\ L # {}
  BY <1>0
<1>2. PICK n \in L : \A m \in L : n <= m
  <2> HIDE DEF L
  <2> QED
    BY <1>1, LeastNumber
<1> QED
  BY <1>2

-----------------------------------------------------------------------------
(***************************************************************************)
(* Dropping the front of a buffer.                                         *)
(***************************************************************************)
\* What Drop(b, n) holds.
LEMMA DropFacts ==
  ASSUME NEW b \in Bytes, NEW n \in 0 .. Len(b)
  PROVE  /\ Drop(b, n) \in Bytes /\ Len(Drop(b, n)) = Len(b) - n
         /\ Len(b) \in Nat /\ Len(b) - n \in Nat
         /\ \A i \in 1 .. Len(b) - n : Drop(b, n)[i] = b[n + i]
<1>1. /\ Len(b) \in Nat /\ n \in Int /\ Len(b) - n \in Nat /\ n + 1 \in Int /\ Len(b) \in Int
      /\ \A i \in n + 1 .. Len(b) : b[i] \in Byte
  BY DEF Bytes
<1>2. /\ Drop(b, n) \in Bytes
      /\ Len(Drop(b, n)) = IF n + 1 <= Len(b) THEN Len(b) - (n + 1) + 1 ELSE 0
      /\ \A i \in 1 .. Len(b) - (n + 1) + 1 : Drop(b, n)[i] = b[(n + 1) + i - 1]
  BY <1>1, SubSeqProperties DEF Drop, Bytes
<1>3. Len(Drop(b, n)) = Len(b) - n /\ Len(b) - (n + 1) + 1 = Len(b) - n
  BY <1>1, <1>2
<1>4. ASSUME NEW i \in 1 .. Len(b) - n  PROVE Drop(b, n)[i] = b[n + i]
  <2>1. i \in 1 .. Len(b) - (n + 1) + 1 /\ (n + 1) + i - 1 = n + i
    BY <1>1
  <2> QED
    BY <1>2, <2>1
<1> QED
  BY <1>1, <1>2, <1>3, <1>4

\* Buffers with the same bytes are the same.
LEMMA SameBytes ==
  ASSUME NEW s \in Bytes, NEW t \in Bytes, Len(s) = Len(t),
         \A i \in 1 .. Len(s) : s[i] = t[i]
  PROVE  s = t
BY SeqEqual DEF Bytes

\* Nothing and everything dropped, and one drop after the other.
LEMMA DropNone ==
  ASSUME NEW b \in Bytes
  PROVE  Drop(b, 0) = b
<1>1. 0 \in 0 .. Len(b) /\ Len(b) \in Nat
  BY DEF Bytes
<1>2. Drop(b, 0) \in Bytes /\ Len(Drop(b, 0)) = Len(b) /\ \A i \in 1 .. Len(b) : Drop(b, 0)[i] = b[i]
  BY <1>1, DropFacts
<1> QED
  BY <1>2, SameBytes

LEMMA DropAll ==
  ASSUME NEW b \in Bytes
  PROVE  Drop(b, Len(b)) = <<>>
<1>1. Len(b) \in Int /\ Len(b) + 1 \in Int /\ Len(b) < Len(b) + 1
  BY DEF Bytes
<1> QED
  BY <1>1, SubSeqEmpty DEF Drop

LEMMA DropDrop ==
  ASSUME NEW b \in Bytes, NEW n \in 0 .. Len(b), NEW m \in 0 .. Len(b) - n
  PROVE  Drop(Drop(b, n), m) = Drop(b, n + m)
<1> DEFINE c == Drop(b, n)
<1>1. /\ c \in Bytes /\ Len(c) = Len(b) - n /\ Len(b) \in Nat
      /\ \A i \in 1 .. Len(b) - n : c[i] = b[n + i]
  BY DropFacts
<1> HIDE DEF c
<1>2. m \in 0 .. Len(c) /\ n + m \in 0 .. Len(b)
  BY <1>1
<1>3. /\ Drop(c, m) \in Bytes /\ Len(Drop(c, m)) = Len(b) - n - m
      /\ \A i \in 1 .. Len(b) - n - m : Drop(c, m)[i] = c[m + i]
  BY <1>1, <1>2, DropFacts
<1>4. /\ Drop(b, n + m) \in Bytes /\ Len(Drop(b, n + m)) = Len(b) - (n + m)
      /\ \A i \in 1 .. Len(b) - (n + m) : Drop(b, n + m)[i] = b[n + m + i]
  BY <1>2, DropFacts
<1>5. ASSUME NEW i \in 1 .. Len(b) - n - m  PROVE Drop(c, m)[i] = Drop(b, n + m)[i]
  <2>1. /\ m + i \in 1 .. Len(b) - n /\ i \in 1 .. Len(b) - (n + m)
        /\ n + (m + i) = n + m + i
    BY <1>1
  <2> QED
    BY <1>1, <1>3, <1>4, <2>1
<1>6. Len(b) - n - m = Len(b) - (n + m)
  BY <1>1
<1>7. Drop(c, m) = Drop(b, n + m)
  BY <1>3, <1>4, <1>5, <1>6, SameBytes
<1> QED
  BY <1>7 DEF c

\* What is dropped from the front does not depend on what follows.
LEMMA DropConcat ==
  ASSUME NEW b \in Bytes, NEW c \in Bytes, NEW n \in 0 .. Len(b)
  PROVE  Drop(b \o c, n) = Drop(b, n) \o c
<1> DEFINE x == b \o c
           d == Drop(b, n)
<1>1. /\ x \in Bytes /\ Len(x) = Len(b) + Len(c) /\ Len(b) \in Nat /\ Len(c) \in Nat
      /\ \A i \in 1 .. Len(b) + Len(c) : x[i] = IF i <= Len(b) THEN b[i] ELSE c[i - Len(b)]
  BY ConcatProperties DEF Bytes
<1>2. d \in Bytes /\ Len(d) = Len(b) - n /\ \A i \in 1 .. Len(b) - n : d[i] = b[n + i]
  BY DropFacts
<1> HIDE DEF x, d
<1>3. n \in 0 .. Len(x) /\ Len(x) - n = Len(b) - n + Len(c)
  BY <1>1
<1>4. /\ Drop(x, n) \in Bytes /\ Len(Drop(x, n)) = Len(x) - n
      /\ \A i \in 1 .. Len(x) - n : Drop(x, n)[i] = x[n + i]
  BY <1>1, <1>3, DropFacts
<1>5. /\ d \o c \in Bytes /\ Len(d \o c) = Len(d) + Len(c)
      /\ \A i \in 1 .. Len(d) + Len(c) : (d \o c)[i] = IF i <= Len(d) THEN d[i] ELSE c[i - Len(d)]
  BY <1>2, ConcatProperties DEF Bytes
<1>6. ASSUME NEW i \in 1 .. Len(x) - n  PROVE Drop(x, n)[i] = (d \o c)[i]
  <2>0. i \in Int /\ i >= 1 /\ i <= Len(b) - n + Len(c) /\ n \in Int /\ i \in 1 .. Len(d) + Len(c)
    BY <1>1, <1>2, <1>3
  <2>1. CASE i <= Len(b) - n
    <3>1. n + i \in 1 .. Len(b) + Len(c) /\ n + i <= Len(b) /\ i \in 1 .. Len(b) - n
      BY <1>1, <2>0, <2>1
    <3> QED
      BY <1>1, <1>2, <1>4, <1>5, <2>0, <2>1, <3>1
  <2>2. CASE ~(i <= Len(b) - n)
    <3>1. n + i \in 1 .. Len(b) + Len(c) /\ ~(n + i <= Len(b)) /\ (n + i) - Len(b) = i - (Len(b) - n)
      BY <1>1, <2>0, <2>2
    <3> QED
      BY <1>1, <1>2, <1>4, <1>5, <2>0, <2>2, <3>1
  <2> QED
    BY <2>1, <2>2
<1>7. Drop(x, n) = d \o c
  BY <1>1, <1>2, <1>3, <1>4, <1>5, <1>6, SameBytes
<1> QED
  BY <1>7 DEF x, d

-----------------------------------------------------------------------------
(***************************************************************************)
(* Where the first SOM is.                                                 *)
(***************************************************************************)
\* The first k bytes are no SOM, and the next, if there is one, is.
FirstSom(b, k) ==
  /\ k \in 0 .. Len(b)
  /\ \A i \in 1 .. k : b[i] # SOM
  /\ k < Len(b) => b[k + 1] = SOM

\* FromSom drops the bytes before the first SOM.
LEMMA FromSomDrops ==
  ASSUME NEW b \in Bytes, NEW k, FirstSom(b, k)
  PROVE  FromSom(b) = Drop(b, k)
<1>1. Len(b) \in Nat /\ k \in 0 .. Len(b)
  BY DEF Bytes, FirstSom
<1>2. CASE k = Len(b)
  <2>1. ~ \E i \in 1 .. Len(b) : b[i] = SOM
    BY <1>2 DEF FirstSom
  <2> QED
    BY <1>2, <2>1, DropAll DEF FromSom
<1>3. CASE k < Len(b)
  <2> DEFINE P(i) == b[i] = SOM /\ \A j \in 1 .. i - 1 : b[j] # SOM
             first == CHOOSE i \in 1 .. Len(b) : P(i)
  <2>1. k + 1 \in 1 .. Len(b) /\ P(k + 1)
    BY <1>1, <1>3 DEF FirstSom
  <2>2. first \in 1 .. Len(b) /\ P(first)
    BY <2>1
  <2>3. FromSom(b) = Drop(b, first - 1)
    BY <2>1 DEF FromSom
  <2> HIDE DEF first
  <2>4. first = k + 1
    <3>1. ~(first <= k)
      BY <1>1, <2>2 DEF FirstSom
    <3>2. ~(k + 1 < first)
      <4> SUFFICES ASSUME k + 1 < first  PROVE FALSE
        OBVIOUS
      <4>1. k + 1 \in 1 .. first - 1
        BY <1>1, <2>2
      <4> QED
        BY <2>1, <2>2, <4>1
    <3> QED
      BY <1>1, <2>2, <3>1, <3>2
  <2>5. first - 1 = k
    BY <1>1, <2>4
  <2> QED
    BY <2>3, <2>5
<1> QED
  BY <1>1, <1>2, <1>3

\* Every buffer has such a place.
LEMMA SomSomewhere ==
  ASSUME NEW b \in Bytes
  PROVE  \E k : FirstSom(b, k)
<1>0. Len(b) \in Nat
  BY DEF Bytes
<1> DEFINE T == {n \in 0 .. Len(b) : n < Len(b) => b[n + 1] = SOM}
<1>1. T \in SUBSET Nat /\ T # {}
  <2>1. Len(b) \in T
    BY <1>0
  <2> QED
    BY <1>0, <2>1
<1>2. PICK k \in T : \A j \in T : k <= j
  <2> HIDE DEF T
  <2> QED
    BY <1>1, LeastNumber
<1>3. ASSUME NEW i \in 1 .. k  PROVE b[i] # SOM
  <2>1. i - 1 \in 0 .. Len(b) /\ ~(k <= i - 1) /\ (i - 1) + 1 = i
    BY <1>0, <1>2
  <2>2. i - 1 \notin T
    BY <1>2, <2>1
  <2> QED
    BY <1>0, <2>1, <2>2
<1> QED
  BY <1>2, <1>3 DEF FirstSom

\* What FromSom leaves is a buffer that is empty or begins with SOM.
LEMMA FromSomFacts ==
  ASSUME NEW b \in Bytes
  PROVE  /\ FromSom(b) \in Bytes /\ Len(FromSom(b)) \in 0 .. Len(b) /\ Len(b) \in Nat
         /\ FromSom(b) # <<>> => FromSom(b)[1] = SOM
         /\ \A i \in 1 .. Len(FromSom(b)) : FromSom(b)[i] \in Byte
<1>1. PICK k : FirstSom(b, k)
  BY SomSomewhere
<1>2. k \in 0 .. Len(b) /\ Len(b) \in Nat /\ FromSom(b) = Drop(b, k)
  BY <1>1, FromSomDrops DEF FirstSom, Bytes
<1>3. /\ FromSom(b) \in Bytes /\ Len(FromSom(b)) = Len(b) - k
      /\ \A i \in 1 .. Len(b) - k : FromSom(b)[i] = b[k + i]
  BY <1>2, DropFacts
<1>4. ASSUME FromSom(b) # <<>>  PROVE FromSom(b)[1] = SOM
  <2>1. Len(FromSom(b)) \in Nat \ {0}
    BY <1>3, <1>4, EmptySeq DEF Bytes
  <2>2. 1 \in 1 .. Len(b) - k /\ k < Len(b)
    BY <1>2, <1>3, <2>1
  <2> QED
    BY <1>1, <1>3, <2>2 DEF FirstSom
<1>5. \A i \in 1 .. Len(FromSom(b)) : FromSom(b)[i] \in Byte
  BY <1>3, ElementOfSeq DEF Bytes
<1> QED
  BY <1>2, <1>3, <1>4, <1>5

\* A buffer that begins with SOM, or is empty, is left alone.
LEMMA FromSomKeeps ==
  ASSUME NEW b \in Bytes, b # <<>> => b[1] = SOM
  PROVE  FromSom(b) = b
<1>1. Len(b) \in Nat /\ (0 < Len(b) => b # <<>>)
  BY EmptySeq DEF Bytes
<1>2. FirstSom(b, 0)
  BY <1>1 DEF FirstSom
<1> QED
  BY <1>2, FromSomDrops, DropNone

\* Whether the bytes before the first SOM are dropped before or after more
\* bytes have come makes no difference.
LEMMA FromSomConcat ==
  ASSUME NEW b \in Bytes, NEW c \in Bytes
  PROVE  /\ FromSom(b \o c) = FromSom(FromSom(b) \o c)
         /\ FromSom(b) # <<>> => FromSom(b \o c) = FromSom(b) \o c
<1>1. PICK k : FirstSom(b, k)
  BY SomSomewhere
<1>2. k \in 0 .. Len(b) /\ Len(b) \in Nat /\ Len(c) \in Nat /\ FromSom(b) = Drop(b, k)
  BY <1>1, FromSomDrops DEF FirstSom, Bytes
<1>3. /\ b \o c \in Bytes /\ Len(b \o c) = Len(b) + Len(c)
      /\ \A i \in 1 .. Len(b) + Len(c) : (b \o c)[i] = IF i <= Len(b) THEN b[i] ELSE c[i - Len(b)]
  BY ConcatProperties DEF Bytes
<1>4. CASE k < Len(b)
  <2>1. FirstSom(b \o c, k)
    <3>1. k \in 0 .. Len(b \o c) /\ k + 1 \in 1 .. Len(b) + Len(c) /\ k + 1 <= Len(b)
      BY <1>2, <1>3, <1>4
    <3>2. \A i \in 1 .. k : i \in 1 .. Len(b) + Len(c) /\ i <= Len(b)
      BY <1>2
    <3> QED
      BY <1>1, <1>3, <1>4, <3>1, <3>2 DEF FirstSom
  <2>2. FromSom(b \o c) = FromSom(b) \o c
    BY <1>2, <1>3, <2>1, FromSomDrops, DropConcat
  <2>3. FromSom(b) \o c \in Bytes /\ (FromSom(b) \o c)[1] = SOM
    <3>1. /\ FromSom(b) \in Bytes /\ Len(FromSom(b)) = Len(b) - k
          /\ FromSom(b)[1] = b[k + 1] /\ b[k + 1] = SOM
      <4>1. 1 \in 1 .. Len(b) - k
        BY <1>2, <1>4
      <4> QED
        BY <1>1, <1>2, <1>4, <4>1, DropFacts DEF FirstSom
    <3>2. 1 \in 1 .. Len(FromSom(b)) + Len(c) /\ 1 <= Len(FromSom(b))
      BY <1>2, <1>4, <3>1
    <3> QED
      BY <3>1, <3>2, ConcatProperties DEF Bytes
  <2>4. FromSom(FromSom(b) \o c) = FromSom(b) \o c
    BY <2>3, FromSomKeeps
  <2> QED
    BY <2>2, <2>4
<1>5. CASE k = Len(b)
  <2>1. FromSom(b) = <<>>
    BY <1>2, <1>5, DropAll
  <2>2. FromSom(b) \o c = c
    BY <2>1, ConcatEmptySeq DEF Bytes
  <2>3. PICK m : FirstSom(c, m)
    BY SomSomewhere
  <2>4. m \in 0 .. Len(c) /\ FromSom(c) = Drop(c, m)
    BY <2>3, FromSomDrops DEF FirstSom
  <2>5. FirstSom(b \o c, k + m)
    <3>1. k + m \in 0 .. Len(b \o c)
      BY <1>2, <1>3, <1>5, <2>4
    <3>2. ASSUME NEW i \in 1 .. k + m  PROVE (b \o c)[i] # SOM
      <4>1. CASE i <= Len(b)
        BY <1>1, <1>2, <1>3, <1>5, <2>4, <4>1 DEF FirstSom
      <4>2. CASE ~(i <= Len(b))
        <5>1. i - Len(b) \in 1 .. m /\ i \in 1 .. Len(b) + Len(c)
          BY <1>2, <1>5, <2>4, <4>2
        <5> QED
          BY <1>3, <2>3, <4>2, <5>1 DEF FirstSom
      <4> QED
        BY <4>1, <4>2
    <3>3. ASSUME k + m < Len(b \o c)  PROVE (b \o c)[k + m + 1] = SOM
      <4>1. /\ m < Len(c) /\ k + m + 1 \in 1 .. Len(b) + Len(c) /\ ~(k + m + 1 <= Len(b))
            /\ (k + m + 1) - Len(b) = m + 1
        BY <1>2, <1>3, <1>5, <2>4, <3>3
      <4> QED
        BY <1>3, <2>3, <4>1 DEF FirstSom
    <3> QED
      BY <3>1, <3>2, <3>3 DEF FirstSom
  <2>6. Drop(b \o c, k + m) = Drop(c, m)
    <3>1. Drop(b \o c, k) = c
      BY <1>2, <1>5, <2>1, <2>2, DropConcat
    <3>2. k \in 0 .. Len(b \o c) /\ m \in 0 .. Len(b \o c) - k
      BY <1>2, <1>3, <1>5, <2>4
    <3>3. Drop(Drop(b \o c, k), m) = Drop(b \o c, k + m)
      BY <1>3, <3>2, DropDrop
    <3> QED
      BY <3>1, <3>3
  <2> QED
    BY <1>3, <2>1, <2>2, <2>4, <2>5, <2>6, FromSomDrops
<1> QED
  BY <1>2, <1>4, <1>5

-----------------------------------------------------------------------------
(***************************************************************************)
(* A parser's loop, with any limit.                                        *)
(***************************************************************************)
\* How many bytes of a candidate one turn of the loop takes, none if it has
\* to wait for more, and what it tells of them.
Takes(limit, c) ==
  IF Len(c) < 2 THEN 0
  ELSE IF c[2] < MIN_LENGTH \/ Total(c) > limit THEN 1
  ELSE IF Len(c) >= Total(c) THEN Total(c) ELSE 0

Tells(limit, c) ==
  IF c[2] < MIN_LENGTH THEN [kind |-> "impossible_length", raw |-> SubSeq(c, 1, 2)]
  ELSE IF Total(c) > limit THEN [kind |-> "frame_exceeds_buffer_limit", raw |-> SubSeq(c, 1, 2)]
  ELSE deserialize(SubSeq(c, 1, Total(c)))

Waits(c) == [events |-> <<>>, buffer |-> c]
Then(event, rest) == [events |-> <<event>> \o rest.events, buffer |-> rest.buffer]

\* One turn with a buffer, and g for the turns after it.
Turn(limit, g, b) ==
  LET c == FromSom(b)
      n == Takes(limit, c)
  IN  IF n = 0 THEN Waits(c) ELSE Then(Tells(limit, c), g[Drop(c, n)])

UpTo(n) == {b \in Bytes : Len(b) <= n}

Looping(limit, g, S) == g = [b \in S |-> Turn(limit, g, b)]

Turns(limit) ==
  [b \in Bytes |-> (CHOOSE g : Looping(limit, g, UpTo(Len(b))))[b]]

\* A turn takes no more than there is, and leaves less than there was.
LEMMA TakesFacts ==
  ASSUME NEW limit \in Nat, NEW c \in Bytes
  PROVE  /\ Takes(limit, c) \in 0 .. Len(c) /\ Len(c) \in Nat
         /\ Drop(c, Takes(limit, c)) \in Bytes
         /\ Len(Drop(c, Takes(limit, c))) = Len(c) - Takes(limit, c)
         /\ Len(c) >= 2 => c[2] \in Byte /\ Total(c) \in Nat /\ Total(c) >= 3
<1>1. Len(c) \in Nat
  BY DEF Bytes
<1>2. ASSUME Len(c) >= 2  PROVE c[2] \in Byte /\ Total(c) \in Nat /\ Total(c) >= 3
  <2>1. c[2] \in Byte
    BY <1>1, <1>2, ElementOfSeq DEF Bytes
  <2> QED
    BY <2>1, ByteAssumption DEF Byte, Total
<1>3. Takes(limit, c) \in 0 .. Len(c)
  BY <1>1, <1>2 DEF Takes
<1> QED
  BY <1>1, <1>2, <1>3, DropFacts

\* A turn takes something only of a candidate with a length.
LEMMA TakesLength ==
  ASSUME NEW limit \in Nat, NEW c \in Bytes, Takes(limit, c) # 0
  PROVE  /\ Len(c) \in Nat /\ Len(c) >= 2 /\ c # <<>>
         /\ c[2] \in Byte /\ Total(c) \in Nat /\ Total(c) >= 3
<1>1. Len(c) \in Nat
  BY DEF Bytes
<1>2. Len(c) >= 2
  BY <1>1 DEF Takes
<1> QED
  BY <1>1, <1>2, TakesFacts, EmptySeq

\* What is left of a buffer after a turn that takes something of it.
LEMMA TurnShortens ==
  ASSUME NEW limit \in Nat, NEW b \in Bytes, Takes(limit, FromSom(b)) # 0
  PROVE  /\ Drop(FromSom(b), Takes(limit, FromSom(b))) \in Bytes
         /\ Len(Drop(FromSom(b), Takes(limit, FromSom(b)))) < Len(b)
<1>1. FromSom(b) \in Bytes /\ Len(FromSom(b)) \in 0 .. Len(b) /\ Len(b) \in Nat
  BY FromSomFacts
<1> DEFINE c == FromSom(b)
<1>2. /\ Drop(c, Takes(limit, c)) \in Bytes
      /\ Len(Drop(c, Takes(limit, c))) = Len(c) - Takes(limit, c)
      /\ Takes(limit, c) \in 0 .. Len(c)
  BY <1>1, TakesFacts
<1> QED
  BY <1>1, <1>2

\* A turn looks at what comes after it only for shorter buffers.
LEMMA TurnLocal ==
  ASSUME NEW limit \in Nat, NEW b \in Bytes, NEW g, NEW h,
         \A t \in Bytes : Len(t) < Len(b) => g[t] = h[t]
  PROVE  Turn(limit, g, b) = Turn(limit, h, b)
<1>1. CASE Takes(limit, FromSom(b)) = 0
  BY <1>1 DEF Turn
<1>2. CASE Takes(limit, FromSom(b)) # 0
  BY <1>2, TurnShortens DEF Turn
<1> QED
  BY <1>1, <1>2

\* The loop's equation has a solution on the buffers of any length.
LEMMA LoopExists ==
  ASSUME NEW limit \in Nat
  PROVE  \A n \in Nat : \E g : Looping(limit, g, UpTo(n))
<1> DEFINE T == {n \in Nat : ~ \E g : Looping(limit, g, UpTo(n))}
<1> SUFFICES ASSUME T # {}  PROVE FALSE
  OBVIOUS
<1>1. PICK n \in T : \A m \in T : n <= m
  <2>1. T \in SUBSET Nat
    OBVIOUS
  <2> HIDE DEF T
  <2> QED
    BY <2>1, LeastNumber
<1>2. PICK g : \A t \in Bytes : Len(t) < n => g[t] = Turn(limit, g, t)
  <2>1. CASE n = 0
    <3>1. \A t \in Bytes : ~(Len(t) < n)
      BY <2>1 DEF Bytes
    <3> QED
      BY <3>1
  <2>2. CASE n # 0
    <3>1. n - 1 \in Nat /\ n - 1 \notin T
      BY <1>1, <2>2
    <3>2. PICK g : Looping(limit, g, UpTo(n - 1))
      BY <3>1
    <3>3. \A t \in Bytes : Len(t) < n => t \in UpTo(n - 1)
      BY <1>1 DEF UpTo, Bytes
    <3> QED
      BY <3>2, <3>3 DEF Looping
  <2> QED
    BY <2>1, <2>2
<1> DEFINE h == [b \in UpTo(n) |-> Turn(limit, g, b)]
<1>3. \A t \in Bytes : Len(t) < n => h[t] = g[t]
  <2>1. \A t \in Bytes : Len(t) < n => t \in UpTo(n)
    BY <1>1 DEF UpTo, Bytes
  <2> QED
    BY <1>2, <2>1
<1>4. ASSUME NEW b \in UpTo(n)  PROVE Turn(limit, g, b) = Turn(limit, h, b)
  <2>1. b \in Bytes /\ \A t \in Bytes : Len(t) < Len(b) => Len(t) < n
    BY <1>1 DEF UpTo, Bytes
  <2> HIDE DEF h
  <2> QED
    BY <1>3, <2>1, TurnLocal
<1>5. h = [b \in UpTo(n) |-> Turn(limit, h, b)]
  BY <1>4
<1>6. Looping(limit, h, UpTo(n))
  BY <1>5 DEF Looping
<1> QED
  BY <1>1, <1>6

\* Two solutions agree on the buffers they share.
LEMMA LoopUnique ==
  ASSUME NEW limit \in Nat, NEW g, NEW h, NEW R, NEW S,
         R \subseteq Bytes, S \subseteq Bytes,
         Looping(limit, g, R), Looping(limit, h, S),
         \A b \in R : b \in S /\ \A t \in Bytes : Len(t) < Len(b) => t \in R
  PROVE  \A b \in R : g[b] = h[b]
<1> DEFINE T == {b \in R : g[b] # h[b]}
<1> SUFFICES ASSUME T # {}  PROVE FALSE
  OBVIOUS
<1>1. PICK b \in T : \A t \in T : Len(b) <= Len(t)
  <2>1. T \in SUBSET Bytes
    OBVIOUS
  <2> HIDE DEF T
  <2> QED
    BY <2>1, ShortestBuffer
<1>2. \A t \in Bytes : Len(t) < Len(b) => g[t] = h[t]
  <2> SUFFICES ASSUME NEW t \in Bytes, Len(t) < Len(b), g[t] # h[t]  PROVE FALSE
    OBVIOUS
  <2>1. t \in T
    BY <1>1
  <2>2. Len(t) \in Nat /\ Len(b) \in Nat
    BY <1>1 DEF Bytes
  <2> QED
    BY <1>1, <2>1, <2>2
<1>3. g[b] = Turn(limit, g, b) /\ h[b] = Turn(limit, h, b)
  BY <1>1 DEF Looping
<1> QED
  BY <1>1, <1>2, <1>3, TurnLocal

\* Turns(limit) is the loop with that limit, on every buffer.
LEMMA TurnsLoop ==
  ASSUME NEW limit \in Nat
  PROVE  Looping(limit, Turns(limit), Bytes)
<1> DEFINE G(n) == CHOOSE g : Looping(limit, g, UpTo(n))
           F == Turns(limit)
<1>1. ASSUME NEW n \in Nat  PROVE Looping(limit, G(n), UpTo(n))
  BY LoopExists
<1>2. F = [b \in Bytes |-> G(Len(b))[b]]
  BY DEF Turns
<1> HIDE DEF G, F
<1>3. ASSUME NEW b \in Bytes  PROVE G(Len(b))[b] = Turn(limit, F, b)
  <2>1. Len(b) \in Nat /\ b \in UpTo(Len(b))
    BY DEF Bytes, UpTo
  <2>2. G(Len(b))[b] = Turn(limit, G(Len(b)), b)
    BY <1>1, <2>1 DEF Looping
  <2>3. ASSUME NEW t \in Bytes, Len(t) < Len(b)  PROVE G(Len(b))[t] = F[t]
    <3>1. Len(t) \in Nat /\ t \in UpTo(Len(t))
      BY DEF Bytes, UpTo
    <3>2. \A s \in UpTo(Len(t)) : s \in UpTo(Len(b)) /\ \A r \in Bytes : Len(r) < Len(s) => r \in UpTo(Len(t))
      BY <2>1, <2>3, <3>1 DEF UpTo, Bytes
    <3>3. UpTo(Len(t)) \subseteq Bytes /\ UpTo(Len(b)) \subseteq Bytes
      BY DEF UpTo
    <3>4. Looping(limit, G(Len(t)), UpTo(Len(t))) /\ Looping(limit, G(Len(b)), UpTo(Len(b)))
      BY <1>1, <2>1, <3>1
    <3>5. G(Len(t))[t] = G(Len(b))[t]
      BY <3>1, <3>2, <3>3, <3>4, LoopUnique
    <3> QED
      BY <1>2, <3>5
  <2>4. Turn(limit, G(Len(b)), b) = Turn(limit, F, b)
    BY <2>3, TurnLocal
  <2> QED
    BY <2>2, <2>4
<1>4. F = [b \in Bytes |-> Turn(limit, F, b)]
  BY <1>2, <1>3
<1> QED
  BY <1>4 DEF Looping, F

\* The loop's equation, turn by turn.
LEMMA TurnsAt ==
  ASSUME NEW limit \in Nat, NEW b \in Bytes
  PROVE  Turns(limit)[b] = Turn(limit, Turns(limit), b)
BY TurnsLoop DEF Looping

\* Nothing else solves it.
LEMMA TurnsOnly ==
  ASSUME NEW limit \in Nat, NEW h, Looping(limit, h, Bytes)
  PROVE  h = Turns(limit)
<1>1. Looping(limit, Turns(limit), Bytes)
  BY TurnsLoop
<1>2. \A b \in Bytes : h[b] = Turns(limit)[b]
  BY <1>1, LoopUnique
<1>3. h = [b \in Bytes |-> h[b]] /\ Turns(limit) = [b \in Bytes |-> Turns(limit)[b]]
  BY <1>1 DEF Looping
<1> QED
  BY <1>2, <1>3

-----------------------------------------------------------------------------
(***************************************************************************)
(* What a loop yields and keeps.                                           *)
(***************************************************************************)
\* A byte sequence with the form and the checksum of a frame.
FrameBytes(raw) ==
  /\ raw \in Bytes /\ Len(raw) >= 2 /\ raw[1] = SOM
  /\ raw[2] >= MIN_LENGTH /\ Len(raw) = Total(raw)
  /\ Sum(Tail(raw)) % Base = 0

Sound(e) == e.kind = "frame" => FrameBytes(e.raw)

\* Nothing more can be taken of c, which begins with SOM.
Settled(limit, c) == Takes(limit, c) = 0 /\ (c # <<>> => c[1] = SOM)

Outcome(limit) ==
  {r \in [events : Seq(Event), buffer : Bytes] :
     Settled(limit, r.buffer) /\ \A i \in 1 .. Len(r.events) : Sound(r.events[i])}

\* A turn tells an event, and calls nothing a frame that is none.
LEMMA TellsFacts ==
  ASSUME NEW limit \in Nat, NEW c \in Bytes, c # <<>> => c[1] = SOM, Takes(limit, c) # 0
  PROVE  Tells(limit, c) \in Event /\ Sound(Tells(limit, c))
<1>1. /\ Len(c) \in Nat /\ Len(c) >= 2
      /\ c[2] \in Byte /\ Total(c) \in Nat /\ Total(c) >= 3
  BY TakesLength
<1>2. c # <<>> /\ c[1] = SOM
  BY <1>1, EmptySeq
<1>3. \A n \in 2 .. Len(c) :
        /\ SubSeq(c, 1, n) \in Bytes /\ Len(SubSeq(c, 1, n)) = n
        /\ SubSeq(c, 1, n)[1] = c[1] /\ SubSeq(c, 1, n)[2] = c[2]
  <2> SUFFICES ASSUME NEW n \in 2 .. Len(c)
               PROVE  /\ SubSeq(c, 1, n) \in Bytes /\ Len(SubSeq(c, 1, n)) = n
                      /\ SubSeq(c, 1, n)[1] = c[1] /\ SubSeq(c, 1, n)[2] = c[2]
    OBVIOUS
  <2>1. /\ 1 \in Int /\ n \in Int /\ 1 <= n /\ n - 1 + 1 = n /\ \A i \in 1 .. n : c[i] \in Byte
        /\ 1 \in 1 .. n - 1 + 1 /\ 2 \in 1 .. n - 1 + 1
    BY <1>1, ElementOfSeq DEF Bytes
  <2>2. /\ SubSeq(c, 1, n) \in Bytes /\ Len(SubSeq(c, 1, n)) = n
        /\ \A i \in 1 .. n - 1 + 1 : SubSeq(c, 1, n)[i] = c[1 + i - 1]
    BY <2>1, SubSeqProperties DEF Bytes
  <2> QED
    BY <2>1, <2>2
<1>4. CASE c[2] < MIN_LENGTH \/ Total(c) > limit
  <2>1. SubSeq(c, 1, 2) \in Bytes
    BY <1>1, <1>3
  <2>2. Tells(limit, c) \in {[kind |-> "impossible_length", raw |-> SubSeq(c, 1, 2)],
                            [kind |-> "frame_exceeds_buffer_limit", raw |-> SubSeq(c, 1, 2)]}
    BY <1>4 DEF Tells
  <2> QED
    BY <2>1, <2>2 DEF Event, Sound, Bytes
<1>5. CASE ~(c[2] < MIN_LENGTH \/ Total(c) > limit)
  <2> DEFINE raw == SubSeq(c, 1, Total(c))
  <2>1. Total(c) \in 2 .. Len(c)
    BY <1>1, <1>5 DEF Takes
  <2>2. raw \in Bytes /\ Len(raw) = Total(c) /\ raw[1] = SOM /\ raw[2] = c[2]
    BY <1>2, <1>3, <2>1
  <2>3. Tells(limit, c) = deserialize(raw)
    BY <1>5 DEF Tells
  <2> HIDE DEF raw
  <2>4. Total(raw) = Total(c) /\ raw[2] >= MIN_LENGTH /\ Len(raw) >= 2
    BY <1>1, <1>5, <2>1, <2>2, ByteAssumption DEF Total, Byte
  <2>5. deserialize(raw) \in Event
    BY <2>2 DEF deserialize, Event, Bytes
  <2>6. Sound(deserialize(raw))
    BY <2>2, <2>4 DEF deserialize, Sound, FrameBytes
  <2> QED
    BY <2>3, <2>5, <2>6
<1> QED
  BY <1>4, <1>5

\* Every buffer has an outcome.
LEMMA TurnsOutcome ==
  ASSUME NEW limit \in Nat
  PROVE  \A b \in Bytes : Turns(limit)[b] \in Outcome(limit)
<1> DEFINE T == {b \in Bytes : Turns(limit)[b] \notin Outcome(limit)}
<1> SUFFICES ASSUME T # {}  PROVE FALSE
  OBVIOUS
<1>1. PICK b \in T : \A t \in T : Len(b) <= Len(t)
  <2>1. T \in SUBSET Bytes
    OBVIOUS
  <2> HIDE DEF T
  <2> QED
    BY <2>1, ShortestBuffer
<1> DEFINE c == FromSom(b)
           n == Takes(limit, c)
<1>2. /\ b \in Bytes /\ c \in Bytes /\ Len(c) \in 0 .. Len(b) /\ Len(b) \in Nat
      /\ c # <<>> => c[1] = SOM
  BY <1>1, FromSomFacts
<1>3. Turns(limit)[b] = IF n = 0 THEN Waits(c) ELSE Then(Tells(limit, c), Turns(limit)[Drop(c, n)])
  BY <1>2, TurnsAt DEF Turn
<1>4. CASE n = 0
  <2>1. Waits(c) \in Outcome(limit)
    <3> HIDE DEF c
    <3>1. <<>> \in Seq(Event) /\ Len(<<>>) = 0
      BY EmptySeq
    <3> QED
      BY <1>2, <1>4, <3>1 DEF Outcome, Waits, Settled
  <2> QED
    BY <1>1, <1>3, <1>4, <2>1
<1>5. CASE n # 0
  <2> DEFINE d == Drop(c, n)
             r == Turns(limit)[d]
             e == Tells(limit, c)
  <2>1. d \in Bytes /\ Len(d) < Len(b) /\ Len(d) \in Nat
    BY <1>2, <1>5, TurnShortens DEF Bytes
  <2>2. r \in Outcome(limit)
    <3> HIDE DEF d
    <3>1. d \notin T
      BY <1>1, <1>2, <2>1
    <3> QED
      BY <2>1, <3>1
  <2>3. e \in Event /\ Sound(e)
    BY <1>2, <1>5, TellsFacts
  <2> HIDE DEF d, r, e, c
  <2>4. /\ r.events \in Seq(Event) /\ r.buffer \in Bytes /\ Settled(limit, r.buffer)
        /\ \A i \in 1 .. Len(r.events) : Sound(r.events[i])
    BY <2>2 DEF Outcome
  <2>5. /\ <<e>> \in Seq(Event) /\ Len(<<e>>) = 1 /\ <<e>>[1] = e
    BY <2>3
  <2>6. /\ <<e>> \o r.events \in Seq(Event) /\ Len(<<e>> \o r.events) = 1 + Len(r.events)
        /\ \A i \in 1 .. 1 + Len(r.events) :
             (<<e>> \o r.events)[i] = IF i <= 1 THEN <<e>>[i] ELSE r.events[i - 1]
    BY <2>4, <2>5, ConcatProperties
  <2>7. ASSUME NEW i \in 1 .. Len(<<e>> \o r.events)  PROVE Sound((<<e>> \o r.events)[i])
    <3>1. Len(r.events) \in Nat
      BY <2>4
    <3>2. CASE i = 1
      BY <2>3, <2>5, <2>6, <3>1, <3>2
    <3>3. CASE i # 1
      <4>1. i - 1 \in 1 .. Len(r.events) /\ ~(i <= 1) /\ i \in 1 .. 1 + Len(r.events)
        BY <2>6, <3>1, <3>3
      <4> QED
        BY <2>4, <2>6, <4>1
    <3> QED
      BY <3>2, <3>3
  <2>8. Then(e, r) \in Outcome(limit)
    BY <2>4, <2>6, <2>7 DEF Then, Outcome
  <2> QED
    BY <1>1, <1>3, <1>5, <2>8 DEF d, r, e
<1> QED
  BY <1>4, <1>5

\* A settled buffer is kept as it is.
LEMMA SettledStays ==
  ASSUME NEW limit \in Nat, NEW c \in Bytes, Settled(limit, c)
  PROVE  Turns(limit)[c] = Waits(c)
<1>1. FromSom(c) = c
  BY FromSomKeeps DEF Settled
<1> QED
  BY <1>1, TurnsAt DEF Turn, Settled

\* The bytes before the first SOM make no difference.
LEMMA TurnsFromSom ==
  ASSUME NEW limit \in Nat, NEW b \in Bytes, NEW c \in Bytes, FromSom(b) = FromSom(c)
  PROVE  Turns(limit)[b] = Turns(limit)[c]
BY TurnsAt DEF Turn

-----------------------------------------------------------------------------
(***************************************************************************)
(* A stream in two parts.                                                  *)
(***************************************************************************)
\* What a turn takes and tells of a candidate does not depend on what follows.
LEMMA TakesConcat ==
  ASSUME NEW limit \in Nat, NEW c \in Bytes, NEW d \in Bytes, Takes(limit, c) # 0
  PROVE  Takes(limit, c \o d) = Takes(limit, c) /\ Tells(limit, c \o d) = Tells(limit, c)
<1> DEFINE x == c \o d
<1>1. /\ Len(c) \in Nat /\ Len(c) >= 2 /\ Len(d) \in Nat
      /\ c[2] \in Byte /\ Total(c) \in Nat /\ Total(c) >= 3
  BY TakesLength DEF Bytes
<1>2. /\ x \in Bytes /\ Len(x) = Len(c) + Len(d)
      /\ \A i \in 1 .. Len(c) + Len(d) : x[i] = IF i <= Len(c) THEN c[i] ELSE d[i - Len(c)]
  BY ConcatProperties DEF Bytes
<1>3. \A n \in 1 .. Len(c) : SubSeq(x, 1, n) = SubSeq(c, 1, n)
  BY <1>1, SubSeqOfConcat1 DEF Bytes
<1> HIDE DEF x
<1>4. x[2] = c[2] /\ Len(x) >= 2 /\ 2 \in 1 .. Len(c)
  <2>1. 2 \in 1 .. Len(c) + Len(d) /\ 2 <= Len(c)
    BY <1>1
  <2> QED
    BY <1>1, <1>2, <2>1
<1>5. Total(x) = Total(c)
  BY <1>4 DEF Total
<1>6. SubSeq(x, 1, 2) = SubSeq(c, 1, 2)
  BY <1>3, <1>4
<1>7. CASE c[2] < MIN_LENGTH \/ Total(c) > limit
  BY <1>1, <1>4, <1>5, <1>6, <1>7 DEF Takes, Tells, x
<1>8. CASE ~(c[2] < MIN_LENGTH \/ Total(c) > limit)
  <2>1. Len(c) >= Total(c) /\ Len(x) >= Total(c) /\ Total(c) \in 1 .. Len(c)
    BY <1>1, <1>2, <1>8 DEF Takes
  <2>2. SubSeq(x, 1, Total(c)) = SubSeq(c, 1, Total(c))
    BY <1>3, <2>1
  <2>3. Takes(limit, x) = Takes(limit, c)
    BY <1>1, <1>4, <1>5, <1>8, <2>1 DEF Takes
  <2>4. Tells(limit, x) = Tells(limit, c)
    BY <1>1, <1>4, <1>5, <1>8, <2>2 DEF Tells
  <2> QED
    BY <2>3, <2>4 DEF x
<1> QED
  BY <1>7, <1>8

Joined(r, q) == [events |-> r.events \o q.events, buffer |-> q.buffer]

\* A loop that has been given the first part, and then the second with what
\* it kept of the first, has done what it does with both at once.
LEMMA TurnsConcat ==
  ASSUME NEW limit \in Nat, NEW e \in Bytes
  PROVE  \A b \in Bytes :
           Turns(limit)[b \o e] =
             Joined(Turns(limit)[b], Turns(limit)[Turns(limit)[b].buffer \o e])
<1> DEFINE P(b) == Turns(limit)[b \o e] =
                     Joined(Turns(limit)[b], Turns(limit)[Turns(limit)[b].buffer \o e])
           T == {b \in Bytes : ~P(b)}
<1> SUFFICES ASSUME T # {}  PROVE FALSE
  OBVIOUS
<1>1. PICK b \in T : \A t \in T : Len(b) <= Len(t)
  <2>1. T \in SUBSET Bytes
    OBVIOUS
  <2> HIDE DEF T
  <2> QED
    BY <2>1, ShortestBuffer
<1> DEFINE c == FromSom(b)
           n == Takes(limit, c)
           F == Turns(limit)
<1>2. /\ b \in Bytes /\ c \in Bytes /\ Len(c) \in 0 .. Len(b) /\ Len(b) \in Nat
      /\ c # <<>> => c[1] = SOM
  BY <1>1, FromSomFacts
<1>3. F[b] = IF n = 0 THEN Waits(c) ELSE Then(Tells(limit, c), F[Drop(c, n)])
  BY <1>2, TurnsAt DEF Turn
<1>4. \A s \in Bytes : s \o e \in Bytes
  BY ConcatProperties DEF Bytes
<1>5. \A s \in Bytes : /\ F[s].events \in Seq(Event) /\ F[s].buffer \in Bytes
                       /\ F[s] = [events |-> F[s].events, buffer |-> F[s].buffer]
  <2>1. \A s \in Bytes : F[s] \in [events : Seq(Event), buffer : Bytes]
    BY TurnsOutcome DEF Outcome
  <2> QED
    BY <2>1
<1>6. CASE n = 0
  <2>1. F[b \o e] = F[c \o e]
    BY <1>2, <1>4, FromSomConcat, TurnsFromSom
  <2> HIDE DEF c, F
  <2>2. Joined(Waits(c), F[c \o e]) = F[c \o e]
    <3>1. <<>> \o F[c \o e].events = F[c \o e].events
      BY <1>2, <1>4, <1>5, ConcatEmptySeq
    <3> QED
      BY <1>2, <1>4, <1>5, <3>1 DEF Joined, Waits
  <2>3. F[b] = Waits(c) /\ F[b].buffer = c
    BY <1>3, <1>6 DEF Waits
  <2> QED
    BY <1>1, <2>1, <2>2, <2>3 DEF F
<1>7. CASE n # 0
  <2> DEFINE d == Drop(c, n)
             x == Tells(limit, c)
  <2>1. d \in Bytes /\ Len(d) < Len(b) /\ Len(d) \in Nat
    BY <1>2, <1>7, TurnShortens DEF Bytes
  <2>2. P(d)
    <3> HIDE DEF d, P
    <3>1. d \notin T
      BY <1>1, <1>2, <2>1
    <3> QED
      BY <2>1, <3>1
  <2>3. FromSom(b \o e) = c \o e /\ Takes(limit, c \o e) = n /\ Tells(limit, c \o e) = x
    <3>1. c # <<>>
      BY <1>2, <1>7, TakesLength
    <3> QED
      BY <1>2, <1>7, <3>1, FromSomConcat, TakesConcat
  <2>4. Drop(c \o e, n) = d \o e
    BY <1>2, TakesFacts, DropConcat
  <2>5. F[b \o e] = Then(x, F[d \o e])
    <3>1. F[b \o e] = Turn(limit, F, b \o e)
      BY <1>2, <1>4, TurnsAt
    <3>2. Turn(limit, F, b \o e) = Then(x, F[Drop(c \o e, n)])
      <4> HIDE DEF F, x, c
      <4> QED
        BY <1>7, <2>3 DEF Turn
    <3> QED
      BY <2>4, <3>1, <3>2
  <2>6. F[b] = Then(x, F[d])
    BY <1>3, <1>7
  <2>7. x \in Event
    BY <1>2, <1>7, TellsFacts
  <2>8. F[d \o e] = Joined(F[d], F[F[d].buffer \o e])
    BY <2>2
  <2> HIDE DEF d, x, F, c, P
  <2> DEFINE q == F[F[d].buffer \o e]
  <2>9. q.events \in Seq(Event) /\ F[d].events \in Seq(Event) /\ <<x>> \in Seq(Event)
    <3>1. F[d].events \in Seq(Event) /\ F[d].buffer \in Bytes
      BY <1>5, <2>1
    <3>2. F[d].buffer \o e \in Bytes
      BY <1>4, <3>1
    <3>3. q.events \in Seq(Event)
      BY <1>5, <3>2
    <3>4. <<x>> \in Seq(Event)
      BY <2>7
    <3> HIDE DEF q
    <3> QED
      BY <3>1, <3>3, <3>4
  <2> HIDE DEF q
  <2>10. <<x>> \o (F[d].events \o q.events) = (<<x>> \o F[d].events) \o q.events
    <3> DEFINE u == <<x>>
               v == F[d].events
               w == q.events
    <3>1. u \in Seq(Event) /\ v \in Seq(Event) /\ w \in Seq(Event)
      BY <2>9
    <3> HIDE DEF u, v, w
    <3>2. u \o (v \o w) = (u \o v) \o w
      BY <3>1, ConcatAssociative
    <3> QED
      BY <3>2 DEF u, v, w
  <2>11. F[b].buffer = F[d].buffer /\ F[b].events = <<x>> \o F[d].events
    BY <2>6 DEF Then
  <2>12. F[b \o e] = [events |-> <<x>> \o (F[d].events \o q.events), buffer |-> q.buffer]
    BY <2>5, <2>8 DEF Then, Joined, q
  <2>13. F[b \o e] = Joined(F[b], q)
    BY <2>10, <2>11, <2>12 DEF Joined
  <2> QED
    BY <1>1, <2>11, <2>13 DEF q, F, P
<1> QED
  BY <1>6, <1>7

-----------------------------------------------------------------------------
(***************************************************************************)
(* The three loops and the reference definition.                           *)
(***************************************************************************)
\* What the model calls a turn, with the limit of the two bridges.
LEMMA BridgeTurn ==
  ASSUME NEW c \in Bytes
  PROVE  /\ Yields(c) <=> Takes(max_buffer, c) # 0
         /\ Yields(c) => /\ EventOf(c) = Tells(max_buffer, c)
                         /\ Leaves(c) = Drop(c, Takes(max_buffer, c))
<1>1. Len(c) \in Nat /\ max_buffer \in Nat
  BY BufferAssumption DEF Bytes
<1>2. CASE Len(c) < 2
  BY <1>1, <1>2 DEF Yields, Impossible, TooLarge, Complete, Takes
<1>3. CASE Len(c) >= 2
  <2>1. /\ c[2] \in Byte /\ c[2] \in Int /\ Total(c) \in Nat /\ Total(c) >= 3
        /\ max_buffer \in Int /\ MIN_LENGTH \in Int /\ ~(Len(c) < 2)
    BY <1>1, <1>3, TakesFacts, ByteAssumption DEF Byte
  <2>2. CASE c[2] < MIN_LENGTH
    BY <1>3, <2>1, <2>2
       DEF Yields, Impossible, TooLarge, Complete, Takes, Tells, EventOf, Leaves
  <2>3. CASE ~(c[2] < MIN_LENGTH) /\ Total(c) > max_buffer
    BY <1>3, <2>1, <2>3
       DEF Yields, Impossible, TooLarge, Complete, Takes, Tells, EventOf, Leaves
  <2>4. CASE ~(c[2] < MIN_LENGTH) /\ ~(Total(c) > max_buffer)
    BY <1>1, <1>3, <2>1, <2>4
       DEF Yields, Impossible, TooLarge, Complete, Takes, Tells, EventOf, Leaves
  <2> QED
    BY <2>2, <2>3, <2>4
<1> QED
  BY <1>1, <1>2, <1>3

\* The loop of feed.
LEMMA ParsedIsTurns == Parsed = Turns(max_buffer)
<1> DEFINE Body(g) ==
             [bytes \in Seq(Byte) |->
                LET candidate == FromSom(bytes)
                IN  IF Yields(candidate)
                      THEN LET rest == g[Leaves(candidate)]
                           IN  [events |-> <<EventOf(candidate)>> \o rest.events,
                                buffer |-> rest.buffer]
                      ELSE [events |-> <<>>, buffer |-> candidate]]
<1>1. ASSUME NEW g  PROVE Body(g) = [b \in Bytes |-> Turn(max_buffer, g, b)]
  <2> DEFINE At(b) == LET candidate == FromSom(b)
                IN  IF Yields(candidate)
                      THEN LET rest == g[Leaves(candidate)]
                           IN  [events |-> <<EventOf(candidate)>> \o rest.events,
                                buffer |-> rest.buffer]
                      ELSE [events |-> <<>>, buffer |-> candidate]
  <2>1. ASSUME NEW b \in Bytes  PROVE At(b) = Turn(max_buffer, g, b)
    <3>1. FromSom(b) \in Bytes
      BY FromSomFacts
    <3>2. CASE Yields(FromSom(b))
      <4>1. /\ Takes(max_buffer, FromSom(b)) # 0
            /\ EventOf(FromSom(b)) = Tells(max_buffer, FromSom(b))
            /\ Leaves(FromSom(b)) = Drop(FromSom(b), Takes(max_buffer, FromSom(b)))
        BY <3>1, <3>2, BridgeTurn
      <4> QED
        BY <3>2, <4>1 DEF Turn, Then
    <3>3. CASE ~Yields(FromSom(b))
      <4>1. Takes(max_buffer, FromSom(b)) = 0
        BY <3>1, <3>3, BridgeTurn
      <4> QED
        BY <3>3, <4>1 DEF Turn, Waits
    <3> QED
      BY <3>2, <3>3
  <2>2. Body(g) = [b \in Bytes |-> At(b)]
    BY DEF Bytes
  <2> HIDE DEF At, Body
  <2> QED
    BY <2>1, <2>2
<1>2. Parsed = CHOOSE g : g = Body(g)
  BY DEF Parsed
<1> HIDE DEF Body
<1>3. \E g : g = Body(g)
  BY <1>1, TurnsLoop, BufferAssumption DEF Looping
<1>4. Parsed = Body(Parsed)
  BY <1>2, <1>3
<1>5. Looping(max_buffer, Parsed, Bytes)
  BY <1>1, <1>4 DEF Looping
<1> QED
  BY <1>5, TurnsOnly, BufferAssumption

\* The loop of the probe: no length is too large for it.
LEMMA CandidatesIsTurns == Candidates = Turns(AnyLength)
<1>0. AnyLength \in Nat /\ AnyLength \in Int /\ MIN_LENGTH \in Int
  BY ByteAssumption DEF AnyLength
<1> DEFINE At(g, bytes) ==
             LET candidate == FromSom(bytes)
                 On(event, n) ==
                   LET rest == g[Drop(candidate, n)]
                   IN  [events |-> <<event>> \o rest.events, buffer |-> rest.buffer]
             IN  IF Impossible(candidate)
                   THEN On([kind |-> "impossible_length", raw |-> SubSeq(candidate, 1, 2)], 1)
                 ELSE IF Len(candidate) >= 2 /\ Len(candidate) >= Total(candidate)
                   THEN On(deserialize(SubSeq(candidate, 1, Total(candidate))), Total(candidate))
                 ELSE [events |-> <<>>, buffer |-> candidate]
           Body(g) == [bytes \in Seq(Byte) |-> At(g, bytes)]
<1>1. ASSUME NEW g  PROVE Body(g) = [b \in Bytes |-> Turn(AnyLength, g, b)]
  <2>1. ASSUME NEW b \in Bytes  PROVE At(g, b) = Turn(AnyLength, g, b)
    <3> DEFINE c == FromSom(b)
    <3>1. c \in Bytes /\ Len(c) \in Nat
      BY FromSomFacts DEF Bytes
    <3>2. CASE Len(c) < 2
      <4>1. ~Impossible(c) /\ ~(Len(c) >= 2) /\ Takes(AnyLength, c) = 0
        BY <3>1, <3>2 DEF Impossible, Takes
      <4> QED
        BY <4>1 DEF Turn, Waits
    <3>3. CASE Len(c) >= 2
      <4>1. /\ c[2] \in Byte /\ c[2] \in Int /\ Total(c) \in Nat
            /\ ~(Len(c) < 2) /\ ~(Total(c) > AnyLength)
        <5>1. c[2] \in Byte /\ Total(c) \in Nat
          BY <1>0, <3>1, <3>3, TakesFacts
        <5>2. c[2] \in Int /\ c[2] <= Base - 1 /\ Base \in Int
          BY <5>1, ByteAssumption DEF Byte
        <5>3. Total(c) = c[2] + 3 /\ AnyLength = Base + 2
          BY DEF Total, AnyLength
        <5> HIDE DEF c
        <5> QED
          BY <3>1, <3>3, <5>1, <5>2, <5>3
      <4>2. CASE c[2] < MIN_LENGTH
        <5>1. /\ Impossible(c) /\ Takes(AnyLength, c) = 1
              /\ Tells(AnyLength, c) = [kind |-> "impossible_length", raw |-> SubSeq(c, 1, 2)]
          BY <3>3, <4>1, <4>2 DEF Impossible, Takes, Tells
        <5> QED
          BY <5>1 DEF Turn, Then
      <4>3. CASE ~(c[2] < MIN_LENGTH) /\ Len(c) >= Total(c)
        <5>1. /\ ~Impossible(c) /\ Takes(AnyLength, c) = Total(c) /\ Total(c) # 0
              /\ Tells(AnyLength, c) = deserialize(SubSeq(c, 1, Total(c)))
          <6>1. Total(c) # 0
            BY <1>0, <3>1, <3>3, TakesFacts
          <6> QED
            BY <3>3, <4>1, <4>3, <6>1 DEF Impossible, Takes, Tells
        <5> QED
          BY <3>3, <4>3, <5>1 DEF Turn, Then
      <4>4. CASE ~(c[2] < MIN_LENGTH) /\ ~(Len(c) >= Total(c))
        <5>1. ~Impossible(c) /\ Takes(AnyLength, c) = 0
          BY <3>3, <4>1, <4>4 DEF Impossible, Takes
        <5> QED
          BY <4>4, <5>1 DEF Turn, Waits
      <4> QED
        BY <4>2, <4>3, <4>4
    <3> QED
      BY <3>1, <3>2, <3>3
  <2> HIDE DEF At
  <2> QED
    BY <2>1 DEF Bytes
<1>2. Candidates = CHOOSE g : g = Body(g)
  BY DEF Candidates
<1> HIDE DEF Body
<1>3. \E g : g = Body(g)
  BY <1>0, <1>1, TurnsLoop DEF Looping
<1>4. Candidates = Body(Candidates)
  BY <1>2, <1>3
<1>5. Looping(AnyLength, Candidates, Bytes)
  BY <1>1, <1>4 DEF Looping
<1> QED
  BY <1>0, <1>5, TurnsOnly

\* The stream from position p on.
Suffix(p) == IF p <= Len(stream) + 1 THEN Drop(stream, p - 1) ELSE <<>>

\* The body of the reference definition, with g for what is found later,
\* when soms are the places of SOM and som is the next.
FoundBy(g, limit, soms, som) ==
  LET length == stream[som + 1]
      raw == SubSeq(stream, som, som + length + 2)
  IN  IF soms = {} \/ som = Len(stream) THEN <<>>
      ELSE IF length < MIN_LENGTH
        THEN <<[kind |-> "impossible_length", raw |-> <<SOM, length>>]>> \o g[som + 1]
      ELSE IF length + 3 > limit
        THEN <<[kind |-> "frame_exceeds_buffer_limit", raw |-> <<SOM, length>>]>> \o g[som + 1]
      ELSE IF som + length + 2 > Len(stream) THEN <<>>
      ELSE <<[kind |-> IF Sum(Tail(raw)) % Base = 0 THEN "frame" ELSE "checksum_mismatch",
              raw |-> raw]>> \o g[som + length + 3]

FoundAt(g, limit, p) ==
  LET soms == {i \in p .. Len(stream) : stream[i] = SOM}
      som == CHOOSE i \in soms : \A j \in soms : i <= j
  IN  FoundBy(g, limit, soms, som)

\* If what is found later is what a loop makes of the rest of the stream, so
\* is what is found from p on.
LEMMA FoundStep ==
  ASSUME stream \in Bytes, NEW limit \in Nat, NEW p \in Nat \ {0}, NEW g,
         \A q \in Nat \ {0} : p < q => g[q] = Turns(limit)[Suffix(q)].events
  PROVE  FoundAt(g, limit, p) = Turns(limit)[Suffix(p)].events
<1> DEFINE N == Len(stream)
           soms == {i \in p .. N : stream[i] = SOM}
           som == CHOOSE i \in soms : \A j \in soms : i <= j
           b == Suffix(p)
<1>1. N \in Nat
  BY DEF Bytes
<1>2. /\ b \in Bytes /\ Len(b) = IF p <= N + 1 THEN N + 1 - p ELSE 0
      /\ \A i \in 1 .. N + 1 - p : b[i] = stream[p - 1 + i]
  <2>1. CASE p <= N + 1
    <3>1. p - 1 \in 0 .. N /\ N - (p - 1) = N + 1 - p
      BY <1>1, <2>1
    <3> QED
      BY <2>1, <3>1, DropFacts DEF Suffix
  <2>2. CASE ~(p <= N + 1)
    <3>1. <<>> \in Bytes /\ Len(<<>>) = 0
      BY EmptySeq DEF Bytes
    <3>2. \A i \in 1 .. N + 1 - p : FALSE
      BY <1>1, <2>2
    <3> QED
      BY <2>2, <3>1, <3>2 DEF Suffix
  <2> QED
    BY <2>1, <2>2
<1>3. Turns(limit)[b] = Turn(limit, Turns(limit), b)
  BY <1>2, TurnsAt
<1> HIDE DEF b
<1>4. CASE soms = {}
  <2>1. FirstSom(b, Len(b))
    <3>1. ASSUME NEW i \in 1 .. Len(b)  PROVE b[i] # SOM
      <4>1. i \in 1 .. N + 1 - p /\ p - 1 + i \in p .. N
        BY <1>1, <1>2
      <4> QED
        BY <1>2, <1>4, <4>1
    <3> QED
      BY <1>1, <1>2, <3>1 DEF FirstSom
  <2>2. FromSom(b) = <<>>
    BY <1>2, <2>1, FromSomDrops, DropAll
  <2>3. Takes(limit, <<>>) = 0
    BY DEF Takes
  <2>4. Turns(limit)[b].events = <<>>
    BY <1>3, <2>2, <2>3 DEF Turn, Waits
  <2>5. FoundAt(g, limit, p) = <<>>
    BY <1>4 DEF FoundAt, FoundBy
  <2> QED
    BY <2>4, <2>5 DEF b
<1>5. CASE soms # {}
  <2>1. som \in p .. N /\ stream[som] = SOM /\ \A j \in soms : som <= j
    <3>1. \E i \in soms : \A j \in soms : i <= j
      <4>1. soms \in SUBSET Nat
        BY <1>1
      <4> HIDE DEF soms
      <4> QED
        BY <1>5, <4>1, LeastNumber
    <3>2. som \in soms /\ \A j \in soms : som <= j
      BY <3>1
    <3> QED
      BY <3>2
  <2> DEFINE length == stream[som + 1]
             raw == SubSeq(stream, som, som + length + 2)
  <2>2. FoundAt(g, limit, p) =
          IF som = N THEN <<>>
          ELSE IF length < MIN_LENGTH
            THEN <<[kind |-> "impossible_length", raw |-> <<SOM, length>>]>> \o g[som + 1]
          ELSE IF length + 3 > limit
            THEN <<[kind |-> "frame_exceeds_buffer_limit", raw |-> <<SOM, length>>]>> \o g[som + 1]
          ELSE IF som + length + 2 > N THEN <<>>
          ELSE <<deserialize(raw)>> \o g[som + length + 3]
    <3>1. FoundAt(g, limit, p) = FoundBy(g, limit, soms, som)
      BY DEF FoundAt
    <3>2. deserialize(raw) =
            [kind |-> IF Sum(Tail(raw)) % Base = 0 THEN "frame" ELSE "checksum_mismatch",
             raw |-> raw]
      <4> HIDE DEF raw
      <4> QED
        BY DEF deserialize
    <3> HIDE DEF soms, som
    <3> QED
      BY <1>5, <3>1, <3>2 DEF FoundBy
  <2> HIDE DEF som
  <2> DEFINE c == FromSom(b)
  <2>3. c = Drop(stream, som - 1)
    <3>1. p <= N + 1 /\ som - p \in 0 .. Len(b) /\ Len(b) = N + 1 - p /\ p - 1 \in 0 .. N
          /\ som - p \in 0 .. N - (p - 1) /\ (p - 1) + (som - p) = som - 1
      BY <1>1, <1>2, <2>1
    <3>2. \A i \in 1 .. som - p : b[i] # SOM
      <4> SUFFICES ASSUME NEW i \in 1 .. som - p, b[i] = SOM  PROVE FALSE
        OBVIOUS
      <4>1. i \in 1 .. N + 1 - p /\ p - 1 + i \in p .. N /\ ~(som <= p - 1 + i)
        BY <1>1, <2>1
      <4> QED
        BY <1>2, <2>1, <4>1
    <3>3. b[som - p + 1] = SOM
      <4>1. som - p + 1 \in 1 .. N + 1 - p /\ p - 1 + (som - p + 1) = som
        BY <1>1, <2>1
      <4> QED
        BY <1>2, <2>1, <4>1
    <3>4. FirstSom(b, som - p)
      BY <3>1, <3>2, <3>3 DEF FirstSom
    <3>5. c = Drop(b, som - p)
      BY <1>2, <3>4, FromSomDrops
    <3>6. b = Drop(stream, p - 1)
      BY <3>1 DEF b, Suffix
    <3> QED
      BY <3>1, <3>5, <3>6, DropDrop
  <2>4. /\ c \in Bytes /\ Len(c) = N + 1 - som /\ som - 1 \in 0 .. N /\ N - (som - 1) = N + 1 - som
        /\ \A i \in 1 .. N + 1 - som : c[i] = stream[som - 1 + i]
    <3>1. som - 1 \in 0 .. N /\ N - (som - 1) = N + 1 - som
      BY <1>1, <2>1
    <3> HIDE DEF c
    <3> QED
      BY <2>3, <3>1, DropFacts
  <2>5. \A n \in 0 .. N + 1 - som :
          /\ Drop(c, n) = Suffix(som + n)
          /\ n # 0 => g[som + n] = Turns(limit)[Drop(c, n)].events
    <3> SUFFICES ASSUME NEW n \in 0 .. N + 1 - som
                 PROVE  /\ Drop(c, n) = Suffix(som + n)
                        /\ n # 0 => g[som + n] = Turns(limit)[Drop(c, n)].events
      OBVIOUS
    <3>1. /\ som + n <= N + 1 /\ n \in 0 .. N - (som - 1) /\ (som - 1) + n = (som + n) - 1
          /\ som + n \in Nat \ {0} /\ (n # 0 => p < som + n)
      BY <1>1, <2>1
    <3>2. Drop(c, n) = Drop(stream, (som - 1) + n)
      BY <2>3, <2>4, <3>1, DropDrop
    <3>3. Drop(c, n) = Suffix(som + n)
      BY <3>1, <3>2 DEF Suffix
    <3> QED
      BY <3>1, <3>3
  <2>6. Turns(limit)[b] = IF Takes(limit, c) = 0 THEN Waits(c)
                          ELSE Then(Tells(limit, c), Turns(limit)[Drop(c, Takes(limit, c))])
    BY <1>3 DEF Turn
  <2> HIDE DEF c
  <2>7. CASE som = N
    <3>1. Takes(limit, c) = 0
      BY <1>1, <2>1, <2>4, <2>7 DEF Takes
    <3> QED
      BY <2>2, <2>6, <2>7, <3>1 DEF Waits, b
  <2>8. CASE som # N
    <3>1. /\ Len(c) >= 2 /\ ~(Len(c) < 2) /\ c[1] = SOM /\ c[2] = length /\ Len(c) \in Nat
          /\ 1 \in 0 .. N + 1 - som /\ Total(c) = length + 3
      <4>1. /\ 1 \in 1 .. N + 1 - som /\ 2 \in 1 .. N + 1 - som
            /\ som - 1 + 1 = som /\ som - 1 + 2 = som + 1
        BY <1>1, <2>1, <2>8
      <4>2. c[1] = SOM /\ c[2] = length
        BY <2>1, <2>4, <4>1
      <4> HIDE DEF length
      <4> QED
        BY <1>1, <2>1, <2>4, <2>8, <4>1, <4>2 DEF Total
    <3>2. length \in Byte /\ length \in Nat
      <4>1. c[2] \in Byte
        BY <2>4, <3>1, TakesFacts
      <4> HIDE DEF length
      <4> QED
        BY <3>1, <4>1, ByteAssumption DEF Byte
    <3> HIDE DEF length
    <3>3. SubSeq(c, 1, 2) = <<SOM, length>>
      <4>1. /\ 1 \in Int /\ 2 \in Int /\ \A i \in 1 .. 2 : c[i] \in Byte
            /\ 1 \in 1 .. 2 - 1 + 1 /\ 2 \in 1 .. 2 - 1 + 1
        BY <2>4, <3>1, ElementOfSeq DEF Bytes
      <4>2. /\ SubSeq(c, 1, 2) \in Bytes /\ Len(SubSeq(c, 1, 2)) = 2
            /\ \A i \in 1 .. 2 - 1 + 1 : SubSeq(c, 1, 2)[i] = c[1 + i - 1]
        BY <4>1, SubSeqProperties DEF Bytes
      <4>3. SubSeq(c, 1, 2)[1] = SOM /\ SubSeq(c, 1, 2)[2] = length
        BY <3>1, <4>1, <4>2
      <4>4. SOM \in Byte
        BY ByteAssumption DEF Byte
      <4>5. /\ <<SOM, length>> \in Bytes /\ Len(<<SOM, length>>) = 2
            /\ <<SOM, length>>[1] = SOM /\ <<SOM, length>>[2] = length
        BY <3>2, <4>4 DEF Bytes
      <4>6. \A i \in 1 .. 2 : SubSeq(c, 1, 2)[i] = <<SOM, length>>[i]
        BY <4>3, <4>5
      <4> QED
        BY <4>2, <4>5, <4>6, SameBytes
    <3>4. CASE length < MIN_LENGTH \/ length + 3 > limit
      <4>1. Takes(limit, c) = 1
        BY <3>1, <3>4 DEF Takes
      <4>2. <<Tells(limit, c)>> \o g[som + 1] = FoundAt(g, limit, p)
        BY <2>2, <2>8, <3>1, <3>3, <3>4 DEF Tells
      <4>3. g[som + 1] = Turns(limit)[Drop(c, 1)].events
        BY <2>5, <3>1
      <4> QED
        BY <2>6, <4>1, <4>2, <4>3 DEF Then, b
    <3>5. CASE ~(length < MIN_LENGTH) /\ ~(length + 3 > limit) /\ som + length + 2 > N
      <4>1. ~(Len(c) >= Total(c))
        BY <1>1, <2>1, <2>4, <3>1, <3>2, <3>5
      <4>2. Takes(limit, c) = 0
        BY <3>1, <3>5, <4>1 DEF Takes
      <4>3. FoundAt(g, limit, p) = <<>>
        BY <2>2, <2>8, <3>5
      <4> QED
        BY <2>6, <4>2, <4>3 DEF Waits, b
    <3>6. CASE ~(length < MIN_LENGTH) /\ ~(length + 3 > limit) /\ ~(som + length + 2 > N)
      <4>1. /\ Len(c) >= Total(c) /\ Total(c) # 0 /\ length + 3 \in 0 .. N + 1 - som
            /\ length + 3 # 0 /\ som + (length + 3) = som + length + 3
        BY <1>1, <2>1, <2>4, <3>1, <3>2, <3>6
      <4>2. Takes(limit, c) = length + 3
        BY <3>1, <3>6, <4>1 DEF Takes
      <4>3. SubSeq(c, 1, Total(c)) = raw
        <5>1. c = SubSeq(stream, som, N)
          <6>1. (som - 1) + 1 = som
            BY <1>1, <2>1
          <6> QED
            BY <2>3, <6>1 DEF Drop
        <5>2. /\ som \in 1 .. N /\ N \in 1 .. N
              /\ 1 \in 1 .. N - som + 1 /\ length + 3 \in 1 .. N - som + 1
              /\ som + 1 - 1 = som /\ som + (length + 3) - 1 = som + length + 2
          BY <1>1, <2>1, <2>4, <3>2, <3>6
        <5>3. SubSeq(c, 1, length + 3) = SubSeq(stream, som + 1 - 1, som + (length + 3) - 1)
          BY <5>1, <5>2, SubSeqOfSubSeq DEF Bytes
        <5> QED
          BY <3>1, <5>2, <5>3
      <4>4. Tells(limit, c) = deserialize(raw)
        BY <3>1, <3>6, <4>3 DEF Tells
      <4>5. g[som + length + 3] = Turns(limit)[Drop(c, length + 3)].events
        BY <2>5, <4>1
      <4> HIDE DEF raw
      <4>6. FoundAt(g, limit, p) = <<deserialize(raw)>> \o g[som + length + 3]
        BY <2>2, <2>8, <3>6
      <4> QED
        BY <2>6, <4>1, <4>2, <4>4, <4>5, <4>6 DEF Then, b
    <3> QED
      BY <3>4, <3>5, <3>6
  <2> QED
    BY <2>7, <2>8
<1> QED
  BY <1>4, <1>5

\* The reference definition finds what a loop with that limit tells of the
\* stream from there on.
LEMMA FoundIsTurns ==
  ASSUME stream \in Bytes
  PROVE  \A limit \in Nat, p \in Nat \ {0} :
           Found(limit)[p] = Turns(limit)[Suffix(p)].events
<1> SUFFICES ASSUME NEW limit \in Nat
             PROVE  \A p \in Nat \ {0} : Found(limit)[p] = Turns(limit)[Suffix(p)].events
  OBVIOUS
<1> DEFINE Body(g) == [p \in Nat \ {0} |-> FoundAt(g, limit, p)]
           F == [p \in Nat \ {0} |-> Turns(limit)[Suffix(p)].events]
<1>1. Found(limit) = CHOOSE g : g = Body(g)
  BY DEF Found, FoundAt, FoundBy
<1>2. F = Body(F)
  <2>1. ASSUME NEW p \in Nat \ {0}
        PROVE  FoundAt(F, limit, p) = Turns(limit)[Suffix(p)].events
    <3>1. \A q \in Nat \ {0} : p < q => F[q] = Turns(limit)[Suffix(q)].events
      OBVIOUS
    <3> HIDE DEF F
    <3> QED
      BY <3>1, FoundStep
  <2> QED
    BY <2>1
<1> DEFINE found == Found(limit)
<1>3. found = Body(found)
  <2> HIDE DEF Body, F
  <2> QED
    BY <1>1, <1>2
<1> HIDE DEF found
<1>4. ASSUME NEW p \in Nat \ {0}
      PROVE  found[p] = FoundAt(found, limit, p)
  BY <1>3
<1> SUFFICES \A p \in Nat \ {0} : found[p] = Turns(limit)[Suffix(p)].events
  BY DEF found
<1> HIDE DEF Body, F
<1>5. Len(stream) \in Nat
  BY DEF Bytes
\* Beyond the end of the stream nothing is found, so a counterexample nearest to the end would be one.
<1> DEFINE Wrong(p) == found[p] # Turns(limit)[Suffix(p)].events
           T == {d \in Nat : \E p \in Nat \ {0} : p + d = Len(stream) + 1 /\ Wrong(p)}
<1>6. \A p \in Nat \ {0} : p > Len(stream) => ~Wrong(p)
  <2> SUFFICES ASSUME NEW p \in Nat \ {0}, p > Len(stream)  PROVE ~Wrong(p)
    OBVIOUS
  <2>1. {i \in p .. Len(stream) : stream[i] = SOM} = {}
    BY <1>5
  <2>2. found[p] = <<>>
    BY <1>4, <2>1 DEF FoundAt, FoundBy
  <2>3. Suffix(p) = <<>>
    <3>1. CASE p = Len(stream) + 1
      <4>1. p - 1 = Len(stream) /\ p <= Len(stream) + 1
        BY <1>5, <3>1
      <4> QED
        BY <4>1, DropAll DEF Suffix
    <3>2. CASE p # Len(stream) + 1
      <4>1. ~(p <= Len(stream) + 1)
        BY <1>5, <3>2
      <4> QED
        BY <4>1 DEF Suffix
    <3> QED
      BY <3>1, <3>2
  <2>4. Turns(limit)[<<>>].events = <<>>
    <3>1. <<>> \in Bytes /\ Settled(limit, <<>>)
      BY EmptySeq DEF Bytes, Settled, Takes
    <3>2. Turns(limit)[<<>>] = Waits(<<>>)
      BY <3>1, SettledStays
    <3> QED
      BY <3>2 DEF Waits
  <2> QED
    BY <2>2, <2>3, <2>4
<1>7. T = {}
  <2> SUFFICES ASSUME T # {}  PROVE FALSE
    OBVIOUS
  <2>1. PICK d \in T : \A e \in T : d <= e
    <3>1. T \in SUBSET Nat
      OBVIOUS
    <3> HIDE DEF T
    <3> QED
      BY <3>1, LeastNumber
  <2>2. PICK p \in Nat \ {0} : p + d = Len(stream) + 1 /\ Wrong(p)
    BY <2>1
  <2>3. ASSUME NEW q \in Nat \ {0}, p < q  PROVE ~Wrong(q)
    <3>1. CASE q > Len(stream)
      BY <1>6, <3>1
    <3>2. CASE ~(q > Len(stream))
      <4> DEFINE e == Len(stream) + 1 - q
      <4>1. e \in Nat /\ q + e = Len(stream) + 1 /\ ~(d <= e)
        BY <1>5, <2>1, <2>2, <2>3, <3>2
      <4> HIDE DEF e, Wrong
      <4> QED
        BY <2>1, <4>1
    <3> QED
      BY <3>1, <3>2
  <2>4. \A q \in Nat \ {0} : p < q => found[q] = Turns(limit)[Suffix(q)].events
    BY <2>3
  <2> QED
    BY <1>4, <2>2, <2>4, FoundStep
<1>8. ASSUME NEW p \in Nat \ {0}  PROVE ~Wrong(p)
  <2>1. CASE p > Len(stream)
    BY <1>6, <2>1
  <2>2. CASE ~(p > Len(stream))
    <3> DEFINE d == Len(stream) + 1 - p
    <3>1. d \in Nat /\ p + d = Len(stream) + 1
      BY <1>5, <2>2
    <3> HIDE DEF d, Wrong
    <3> QED
      BY <1>7, <3>1
  <2> QED
    BY <2>1, <2>2
<1> QED
  BY <1>8


-----------------------------------------------------------------------------
(***************************************************************************)
(* The checksum.                                                           *)
(***************************************************************************)
\* g holds the sums of the first n bytes of b.
Summing(b, n, g) == g = [i \in 0 .. n |-> IF i = 0 THEN 0 ELSE g[i - 1] + b[i]]

\* Values of a partial sum.
LEMMA SummingAt ==
  ASSUME NEW b, NEW n \in Nat, NEW g, Summing(b, n, g)
  PROVE  /\ g = [i \in 0 .. n |-> g[i]] /\ g[0] = 0
         /\ \A i \in 1 .. n : g[i] = g[i - 1] + b[i]
<1> DEFINE S == [i \in 0 .. n |-> IF i = 0 THEN 0 ELSE g[i - 1] + b[i]]
<1>1. g = S
  BY DEF Summing
<1>2. S = [i \in 0 .. n |-> S[i]]
  OBVIOUS
<1>3. 0 \in 0 .. n /\ \A i \in 1 .. n : i \in 0 .. n /\ i # 0
  OBVIOUS
<1>4. S[0] = 0 /\ \A i \in 1 .. n : S[i] = g[i - 1] + b[i]
  BY <1>3
<1> HIDE DEF S
<1> QED
  BY <1>1, <1>2, <1>4

\* The partial sums depend on no bytes but those they add.
LEMMA SumsAgree ==
  ASSUME NEW b \in Bytes, NEW c \in Bytes, NEW n \in Nat, NEW m \in 0 .. n,
         NEW g, NEW h, Summing(b, n, g), Summing(c, m, h),
         \A i \in 1 .. m : b[i] = c[i]
  PROVE  \A i \in 0 .. m : g[i] = h[i]
<1> DEFINE T == {i \in 0 .. m : g[i] # h[i]}
<1> SUFFICES ASSUME T # {}  PROVE FALSE
  OBVIOUS
<1>1. PICK k \in T : \A j \in T : k <= j
  <2>1. T \in SUBSET Nat
    OBVIOUS
  <2> HIDE DEF T
  <2> QED
    BY <2>1, LeastNumber
<1>2. k \in 0 .. m /\ g[k] # h[k] /\ m \in Nat
  BY <1>1
<1>3. /\ g[0] = 0 /\ \A i \in 1 .. n : g[i] = g[i - 1] + b[i]
  BY SummingAt
<1>4. /\ h[0] = 0 /\ \A i \in 1 .. m : h[i] = h[i - 1] + c[i]
  BY <1>2, SummingAt
<1>5. k # 0
  BY <1>2, <1>3, <1>4
<1>6. k \in 1 .. m /\ k \in 1 .. n /\ k - 1 \in 0 .. m /\ ~(k <= k - 1)
  BY <1>2, <1>5
<1>7. g[k - 1] = h[k - 1]
  <2>1. k - 1 \notin T
    BY <1>1, <1>6
  <2> QED
    BY <1>6, <2>1
<1> QED
  BY <1>2, <1>3, <1>4, <1>6, <1>7

\* Every buffer has its partial sums.
LEMMA SumsExist ==
  ASSUME NEW b \in Bytes
  PROVE  \A n \in 0 .. Len(b) : \E g \in [0 .. n -> Int] : Summing(b, n, g)
<1> DEFINE P(n) == \E g \in [0 .. n -> Int] : Summing(b, n, g)
           T == {n \in 0 .. Len(b) : ~P(n)}
<1> SUFFICES ASSUME T # {}  PROVE FALSE
  OBVIOUS
<1>0. Len(b) \in Nat
  BY DEF Bytes
<1>1. PICK n \in T : \A m \in T : n <= m
  <2>1. T \in SUBSET Nat
    BY <1>0
  <2> HIDE DEF T
  <2> QED
    BY <2>1, LeastNumber
<1>2. n \in 0 .. Len(b) /\ n \in Nat /\ ~P(n)
  BY <1>0, <1>1
<1>3. CASE n = 0
  <2> DEFINE g == [i \in 0 .. 0 |-> 0]
  <2>1. g \in [0 .. 0 -> Int]
    OBVIOUS
  <2>2. \A i \in 0 .. 0 : i = 0
    OBVIOUS
  <2>3. Summing(b, 0, g)
    BY <2>2 DEF Summing
  <2> QED
    BY <1>2, <1>3, <2>1, <2>3
<1>4. CASE n # 0
  <2>1. n - 1 \in 0 .. Len(b) /\ n - 1 \in Nat /\ ~(n <= n - 1)
    BY <1>0, <1>2, <1>4
  <2>2. P(n - 1)
    <3>1. n - 1 \notin T
      BY <1>1, <2>1
    <3> HIDE DEF P
    <3> QED
      BY <2>1, <3>1
  <2>3. PICK g \in [0 .. n - 1 -> Int] : Summing(b, n - 1, g)
    BY <2>2
  <2>4. /\ g[0] = 0 /\ \A i \in 1 .. n - 1 : g[i] = g[i - 1] + b[i]
        /\ \A i \in 0 .. n - 1 : g[i] \in Int
    BY <2>1, <2>3, SummingAt
  <2>5. b[n] \in Int
    <3>1. n \in 1 .. Len(b)
      BY <1>0, <1>2, <1>4
    <3>2. b[n] \in Byte
      BY <3>1, ElementOfSeq DEF Bytes
    <3> QED
      BY <3>2, ByteAssumption DEF Byte
  <2> DEFINE h == [i \in 0 .. n |-> IF i = n THEN g[n - 1] + b[n] ELSE g[i]]
  <2>6. \A i \in 0 .. n : i # n => i \in 0 .. n - 1
    BY <1>2
  <2>7. n - 1 \in 0 .. n - 1
    BY <2>1
  <2>8. h \in [0 .. n -> Int]
    <3>1. g[n - 1] + b[n] \in Int
      BY <2>4, <2>5, <2>7
    <3> QED
      BY <2>4, <2>6, <3>1
  <2>9. \A i \in 0 .. n : h[i] = IF i = 0 THEN 0 ELSE h[i - 1] + b[i]
    <3> SUFFICES ASSUME NEW i \in 0 .. n
                 PROVE  h[i] = IF i = 0 THEN 0 ELSE h[i - 1] + b[i]
      OBVIOUS
    <3>1. CASE i = n
      <4>1. n - 1 \in 0 .. n /\ n - 1 # n
        BY <1>2, <2>1
      <4>2. h[n - 1] = g[n - 1]
        BY <4>1
      <4>3. h[n] = g[n - 1] + b[n]
        BY <1>2
      <4> HIDE DEF h
      <4> QED
        BY <1>4, <3>1, <4>2, <4>3
    <3>2. CASE i # n
      <4>1. i \in 0 .. n - 1 /\ h[i] = g[i]
        BY <2>6, <3>2
      <4>2. CASE i = 0
        BY <2>4, <4>1, <4>2
      <4>3. CASE i # 0
        <5>1. i - 1 \in 0 .. n /\ i - 1 # n
          BY <1>2, <4>1, <4>3
        <5>2. h[i - 1] = g[i - 1]
          BY <5>1
        <5> HIDE DEF h
        <5> QED
          BY <2>4, <4>1, <4>3, <5>1, <5>2
      <4> QED
        BY <4>2, <4>3
    <3> QED
      BY <3>1, <3>2
  <2>10. Summing(b, n, h)
    <3> HIDE DEF P
    <3>1. h = [i \in 0 .. n |-> h[i]]
      OBVIOUS
    <3> HIDE DEF h
    <3> QED
      BY <2>9, <3>1 DEF Summing
  <2> HIDE DEF h
  <2> QED
    BY <1>2, <2>8, <2>10
<1> QED
  BY <1>3, <1>4

\* The sum of a buffer is the last of its partial sums.
LEMMA SumIs ==
  ASSUME NEW b \in Bytes
  PROVE  \E g \in [0 .. Len(b) -> Int] : Summing(b, Len(b), g) /\ Sum(b) = g[Len(b)]
<1>0. Len(b) \in Nat /\ Len(b) \in 0 .. Len(b)
  BY DEF Bytes
<1> DEFINE g == CHOOSE sum : Summing(b, Len(b), sum)
<1>1. Sum(b) = g[Len(b)]
  BY DEF Sum, Summing
<1>2. \E sum : Summing(b, Len(b), sum)
  BY <1>0, SumsExist
<1>3. Summing(b, Len(b), g)
  BY <1>2
<1>4. PICK h \in [0 .. Len(b) -> Int] : Summing(b, Len(b), h)
  BY <1>0, SumsExist
<1> HIDE DEF g
<1>5. \A i \in 0 .. Len(b) : g[i] = h[i]
  BY <1>0, <1>3, <1>4, SumsAgree
<1>6. Sum(b) = h[Len(b)]
  BY <1>0, <1>1, <1>5
<1> QED
  BY <1>4, <1>6

\* The last byte of a buffer adds itself to the sum of the others.
LEMMA SumLast ==
  ASSUME NEW t \in Bytes, NEW f \in Bytes, Len(t) = Len(f) + 1,
         \A i \in 1 .. Len(f) : t[i] = f[i]
  PROVE  Sum(f) \in Int /\ Sum(t) = Sum(f) + t[Len(t)]
<1>0. Len(f) \in Nat /\ Len(t) \in Nat /\ Len(f) \in 0 .. Len(t) /\ Len(f) \in 0 .. Len(f)
      /\ Len(t) \in 1 .. Len(t) /\ Len(t) - 1 = Len(f)
  BY DEF Bytes
<1>1. PICK g \in [0 .. Len(t) -> Int] : Summing(t, Len(t), g) /\ Sum(t) = g[Len(t)]
  BY SumIs
<1>2. PICK h \in [0 .. Len(f) -> Int] : Summing(f, Len(f), h) /\ Sum(f) = h[Len(f)]
  BY SumIs
<1>3. g[Len(f)] = h[Len(f)]
  BY <1>0, <1>1, <1>2, SumsAgree
<1>4. g[Len(t)] = g[Len(f)] + t[Len(t)]
  <2>1. \A i \in 1 .. Len(t) : g[i] = g[i - 1] + t[i]
    BY <1>0, <1>1, SummingAt
  <2> QED
    BY <1>0, <2>1
<1>5. h[Len(f)] \in Int
  BY <1>0, <1>2
<1> QED
  BY <1>1, <1>2, <1>3, <1>4, <1>5

\* A byte that makes a sum zero is the one that the encoder would append.
LEMMA ChecksumByte ==
  ASSUME NEW s \in Int, NEW x \in Byte, (s + x) % Base = 0
  PROVE  (-s) % Base = x
<1>1. Base \in Nat /\ Base > 0 /\ x \in Int /\ 0 <= x /\ x < Base
  BY ByteAssumption DEF Byte
<1> DEFINE q == (s + x) \div Base
           k == (-s) \div Base
           r == (-s) % Base
<1>2. q \in Int /\ s + x = Base * q
  BY <1>1
<1>3. k \in Int /\ r \in Int /\ -s = Base * k + r /\ 0 <= r /\ r < Base
  BY <1>1
<1> HIDE DEF q, k, r
<1>4. x - r = Base * (q + k) /\ q + k \in Int
  BY <1>1, <1>2, <1>3
<1> DEFINE d == q + k
<1>5. d \in Int /\ x - r = Base * d
  BY <1>4
<1> HIDE DEF d
<1>6. ~(d >= 1)
  <2> SUFFICES ASSUME d >= 1  PROVE FALSE
    OBVIOUS
  <2>1. Base * d >= Base
    BY <1>1, <1>5
  <2> QED
    BY <1>1, <1>3, <1>5, <2>1
<1>7. ~(d <= -1)
  <2> SUFFICES ASSUME d <= -1  PROVE FALSE
    OBVIOUS
  <2>1. Base * d <= -Base
    BY <1>1, <1>5
  <2> QED
    BY <1>1, <1>3, <1>5, <2>1
<1>8. d = 0
  BY <1>5, <1>6, <1>7
<1>9. x = r
  BY <1>1, <1>3, <1>5, <1>8
<1> QED
  BY <1>9 DEF r

\* What a slice of a buffer holds.
LEMMA SliceFacts ==
  ASSUME NEW b \in Bytes, NEW m \in 1 .. Len(b) + 1, NEW n \in m - 1 .. Len(b)
  PROVE  /\ SubSeq(b, m, n) \in Bytes /\ Len(SubSeq(b, m, n)) = n - m + 1
         /\ \A i \in 1 .. n - m + 1 : SubSeq(b, m, n)[i] = b[m + i - 1]
<1>1. Len(b) \in Nat
  BY DEF Bytes
<1>2. m \in Int /\ n \in Int /\ \A i \in m .. n : i \in 1 .. Len(b)
  BY <1>1
<1>3. \A i \in m .. n : b[i] \in Byte
  BY <1>2, ElementOfSeq DEF Bytes
<1>4. /\ SubSeq(b, m, n) \in Bytes
      /\ Len(SubSeq(b, m, n)) = IF m <= n THEN n - m + 1 ELSE 0
      /\ \A i \in 1 .. n - m + 1 : SubSeq(b, m, n)[i] = b[m + i - 1]
  BY <1>2, <1>3, SubSeqProperties DEF Bytes
<1>5. ~(m <= n) => n - m + 1 = 0
  BY <1>1
<1> QED
  BY <1>4, <1>5

\* What a concatenation of two buffers holds.
LEMMA ConcatFacts ==
  ASSUME NEW b \in Bytes, NEW c \in Bytes
  PROVE  /\ b \o c \in Bytes /\ Len(b \o c) = Len(b) + Len(c) /\ Len(b) \in Nat /\ Len(c) \in Nat
         /\ \A i \in 1 .. Len(b) : (b \o c)[i] = b[i]
         /\ \A i \in 1 .. Len(c) : (b \o c)[Len(b) + i] = c[i]
<1>1. /\ b \o c \in Bytes /\ Len(b \o c) = Len(b) + Len(c) /\ Len(b) \in Nat /\ Len(c) \in Nat
      /\ \A i \in 1 .. Len(b) + Len(c) : (b \o c)[i] = IF i <= Len(b) THEN b[i] ELSE c[i - Len(b)]
  BY ConcatProperties DEF Bytes
<1>2. \A i \in 1 .. Len(b) : i \in 1 .. Len(b) + Len(c) /\ i <= Len(b)
  BY <1>1
<1>3. \A i \in 1 .. Len(c) : /\ Len(b) + i \in 1 .. Len(b) + Len(c) /\ ~(Len(b) + i <= Len(b))
                             /\ (Len(b) + i) - Len(b) = i
  BY <1>1
<1> QED
  BY <1>1, <1>2, <1>3

\* One byte is a buffer.
LEMMA OneByte ==
  ASSUME NEW x \in Byte
  PROVE  <<x>> \in Bytes /\ Len(<<x>>) = 1 /\ <<x>>[1] = x
BY DEF Bytes

\* The encoder, given what the decoder makes of the bytes of a frame, makes
\* these bytes again.
LEMMA FrameEncodes ==
  ASSUME NEW raw, FrameBytes(raw)
  PROVE  serialize(FrameOf(raw)) = raw
<1> DEFINE N == Len(raw)
           M == MIN_LENGTH
           header == SubSeq(raw, 3, M + 2)
           payload == SubSeq(raw, M + 3, N - 1)
           body == (<<raw[2]>> \o header) \o payload
<1>1. /\ raw \in Bytes /\ N \in Nat /\ raw[1] = SOM /\ raw[2] \in Byte /\ raw[2] \in Nat
      /\ M \in Nat /\ M >= 1 /\ raw[2] >= M /\ N = raw[2] + 3
      /\ raw[N] \in Byte /\ Sum(Tail(raw)) % Base = 0
  <2>1. raw \in Bytes /\ N \in Nat /\ N >= 2
    BY DEF FrameBytes, Bytes
  <2>2. 2 \in 1 .. N /\ N \in 1 .. N
    BY <2>1
  <2>3. raw[2] \in Byte /\ raw[N] \in Byte
    BY <2>1, <2>2, ElementOfSeq DEF Bytes
  <2> QED
    BY <2>1, <2>3, ByteAssumption DEF FrameBytes, Byte, Total
<1> HIDE DEF N
<1>2. /\ header \in Bytes /\ Len(header) = M /\ \A i \in 1 .. M : header[i] = raw[i + 2]
  <2>1. /\ 3 \in 1 .. N + 1 /\ M + 2 \in 3 - 1 .. N /\ (M + 2) - 3 + 1 = M
        /\ \A i \in 1 .. M : 3 + i - 1 = i + 2
    BY <1>1
  <2> QED
    BY <1>1, <2>1, SliceFacts DEF N
<1>3. /\ payload \in Bytes /\ Len(payload) = raw[2] - M
      /\ \A i \in 1 .. raw[2] - M : payload[i] = raw[M + i + 2]
  <2>1. /\ M + 3 \in 1 .. N + 1 /\ N - 1 \in (M + 3) - 1 .. N /\ (N - 1) - (M + 3) + 1 = raw[2] - M
        /\ \A i \in 1 .. raw[2] - M : (M + 3) + i - 1 = M + i + 2
    BY <1>1
  <2>2. /\ payload \in Bytes /\ Len(payload) = (N - 1) - (M + 3) + 1
        /\ \A i \in 1 .. (N - 1) - (M + 3) + 1 : payload[i] = raw[(M + 3) + i - 1]
    BY <1>1, <2>1, SliceFacts DEF N
  <2> HIDE DEF payload
  <2> QED
    BY <2>1, <2>2
<1> HIDE DEF header, payload
<1>4. /\ <<raw[2]>> \in Bytes /\ Len(<<raw[2]>>) = 1 /\ <<raw[2]>>[1] = raw[2]
  BY <1>1, OneByte
<1>5. body \in Bytes /\ Len(body) = N - 2 /\ \A i \in 1 .. N - 2 : body[i] = raw[i + 1]
  <2> DEFINE front == <<raw[2]>> \o header
  <2>1. /\ front \in Bytes /\ Len(front) = 1 + M
        /\ front[1] = raw[2]
        /\ \A i \in 1 .. M : front[1 + i] = raw[i + 2]
    <3>1. /\ front \in Bytes /\ Len(front) = 1 + M
          /\ \A i \in 1 .. 1 : front[i] = <<raw[2]>>[i]
          /\ \A i \in 1 .. M : front[1 + i] = header[i]
      BY <1>2, <1>4, ConcatFacts
    <3> QED
      BY <1>2, <1>4, <3>1
  <2> HIDE DEF front
  <2>2. /\ body \in Bytes /\ Len(body) = (1 + M) + (raw[2] - M)
        /\ \A i \in 1 .. 1 + M : body[i] = front[i]
        /\ \A i \in 1 .. raw[2] - M : body[(1 + M) + i] = payload[i]
    <3>1. /\ body \in Bytes /\ Len(body) = Len(front) + Len(payload)
          /\ \A i \in 1 .. Len(front) : body[i] = front[i]
          /\ \A i \in 1 .. Len(payload) : body[Len(front) + i] = payload[i]
      BY <1>3, <2>1, ConcatFacts DEF front
    <3> HIDE DEF body
    <3> QED
      BY <1>3, <2>1, <3>1
  <2> HIDE DEF body
  <2>3. (1 + M) + (raw[2] - M) = N - 2
    BY <1>1
  <2>4. ASSUME NEW i \in 1 .. N - 2  PROVE body[i] = raw[i + 1]
    <3>1. CASE i = 1
      BY <1>1, <2>1, <2>2, <3>1
    <3>2. CASE i # 1 /\ i <= 1 + M
      <4>1. i - 1 \in 1 .. M /\ i \in 1 .. 1 + M /\ 1 + (i - 1) = i /\ (i - 1) + 2 = i + 1
        BY <1>1, <3>2
      <4> QED
        BY <2>1, <2>2, <4>1
    <3>3. CASE ~(i <= 1 + M)
      <4>1. /\ i - 1 - M \in 1 .. raw[2] - M /\ (1 + M) + (i - 1 - M) = i
            /\ M + (i - 1 - M) + 2 = i + 1
        BY <1>1, <3>3
      <4> QED
        BY <1>3, <2>2, <4>1
    <3> QED
      BY <3>1, <3>2, <3>3
  <2> QED
    BY <2>2, <2>3, <2>4
<1>6. serialize(FrameOf(raw)) = (<<SOM>> \o body) \o <<checksum(body)>>
  <2>1. M + Len(payload) = raw[2]
    BY <1>1, <1>3
  <2>2. FrameOf(raw).header = header /\ FrameOf(raw).payload = payload
    BY DEF FrameOf, header, payload, N
  <2> HIDE DEF body
  <2>3. body = (<<M + Len(FrameOf(raw).payload)>> \o FrameOf(raw).header) \o FrameOf(raw).payload
    BY <2>1, <2>2 DEF body
  <2> QED
    BY <2>3 DEF serialize
<1> HIDE DEF body
<1>7. checksum(body) = raw[N]
  <2> DEFINE t == Tail(raw)
  <2>1. t \in Bytes /\ Len(t) = N - 1 /\ \A i \in 1 .. N - 1 : t[i] = raw[i + 1]
    <3>1. raw # <<>>
      BY <1>1, EmptySeq DEF N
    <3>2. t \in Bytes /\ Len(t) = N - 1 /\ \A i \in 1 .. Len(t) : t[i] = raw[i + 1]
      BY <1>1, <3>1, HeadTailProperties DEF Bytes, N
    <3> QED
      BY <3>2
  <2> HIDE DEF t
  <2>2. /\ Len(t) = Len(body) + 1 /\ \A i \in 1 .. Len(body) : t[i] = body[i]
        /\ Len(t) \in 1 .. N - 1 /\ Len(t) + 1 = N
    <3>1. \A i \in 1 .. N - 2 : i \in 1 .. N - 1
      BY <1>1
    <3>2. N - 1 = (N - 2) + 1 /\ N - 1 \in 1 .. N - 1 /\ (N - 1) + 1 = N
      BY <1>1
    <3> QED
      BY <1>5, <2>1, <3>1, <3>2
  <2>3. t[Len(t)] = raw[N]
    BY <2>1, <2>2
  <2>4. Sum(body) \in Int /\ Sum(t) = Sum(body) + raw[N]
    BY <1>5, <2>1, <2>2, <2>3, SumLast
  <2>5. (Sum(body) + raw[N]) % Base = 0
    BY <1>1, <2>4 DEF t
  <2> QED
    BY <1>1, <2>4, <2>5, ChecksumByte DEF checksum
<1>8. /\ SOM \in Byte /\ <<SOM>> \in Bytes /\ Len(<<SOM>>) = 1 /\ <<SOM>>[1] = SOM
      /\ <<raw[N]>> \in Bytes /\ Len(<<raw[N]>>) = 1 /\ <<raw[N]>>[1] = raw[N]
  <2>1. SOM \in Byte
    BY ByteAssumption DEF Byte
  <2> QED
    BY <1>1, <2>1, OneByte
<1> DEFINE start == <<SOM>> \o body
           whole == start \o <<raw[N]>>
<1>9. /\ start \in Bytes /\ Len(start) = N - 1
      /\ start[1] = SOM /\ \A i \in 1 .. N - 2 : start[1 + i] = raw[i + 1]
  <2>1. /\ start \in Bytes /\ Len(start) = 1 + (N - 2)
        /\ \A i \in 1 .. 1 : start[i] = <<SOM>>[i]
        /\ \A i \in 1 .. N - 2 : start[1 + i] = body[i]
    <3>1. /\ start \in Bytes /\ Len(start) = Len(<<SOM>>) + Len(body)
          /\ \A i \in 1 .. Len(<<SOM>>) : start[i] = <<SOM>>[i]
          /\ \A i \in 1 .. Len(body) : start[Len(<<SOM>>) + i] = body[i]
      BY <1>5, <1>8, ConcatFacts
    <3> HIDE DEF start
    <3> QED
      BY <1>5, <1>8, <3>1
  <2> HIDE DEF start
  <2>2. 1 + (N - 2) = N - 1 /\ 1 \in 1 .. 1
    BY <1>1
  <2> QED
    BY <1>5, <1>8, <2>1, <2>2
<1> HIDE DEF start
<1>10. /\ whole \in Bytes /\ Len(whole) = (N - 1) + 1
       /\ \A i \in 1 .. N - 1 : whole[i] = start[i]
       /\ \A i \in 1 .. 1 : whole[(N - 1) + i] = <<raw[N]>>[i]
  <2>1. /\ whole \in Bytes /\ Len(whole) = Len(start) + Len(<<raw[N]>>)
        /\ \A i \in 1 .. Len(start) : whole[i] = start[i]
        /\ \A i \in 1 .. Len(<<raw[N]>>) : whole[Len(start) + i] = <<raw[N]>>[i]
    BY <1>8, <1>9, ConcatFacts
  <2> HIDE DEF whole
  <2> QED
    BY <1>8, <1>9, <2>1
<1> HIDE DEF whole
<1>11. ASSUME NEW i \in 1 .. N  PROVE whole[i] = raw[i]
  <2>1. CASE i = 1
    <3>1. 1 \in 1 .. N - 1
      BY <1>1
    <3> QED
      BY <1>1, <1>9, <1>10, <2>1, <3>1
  <2>2. CASE i # 1 /\ i <= N - 1
    <3>1. i - 1 \in 1 .. N - 2 /\ i \in 1 .. N - 1 /\ 1 + (i - 1) = i /\ (i - 1) + 1 = i
      BY <1>1, <2>2
    <3> QED
      BY <1>9, <1>10, <3>1
  <2>3. CASE ~(i <= N - 1)
    <3>1. i = N /\ (N - 1) + 1 = N /\ 1 \in 1 .. 1
      BY <1>1, <2>3
    <3> QED
      BY <1>8, <1>10, <3>1
  <2> QED
    BY <2>1, <2>2, <2>3
<1>12. whole = raw
  <2>1. Len(whole) = N
    BY <1>1, <1>10
  <2> QED
    BY <1>1, <1>10, <1>11, <2>1, SameBytes DEF N
<1> QED
  BY <1>6, <1>7, <1>12 DEF whole, start

-----------------------------------------------------------------------------
(***************************************************************************)
(* What an encoder writes.                                                 *)
(***************************************************************************)
\* A frame whose length fits into its byte.
Writable(frame) ==
  /\ frame \in [header : Bytes, payload : Bytes]
  /\ Len(frame.header) = MIN_LENGTH /\ MIN_LENGTH + Len(frame.payload) < Base

\* The checksum byte makes the sum of what it is appended to zero.
LEMMA ChecksumZero ==
  ASSUME NEW s \in Int
  PROVE  (-s) % Base \in Byte /\ (s + ((-s) % Base)) % Base = 0
<1>1. Base \in Nat /\ Base > 0
  BY ByteAssumption DEF Byte
<1> DEFINE k == (-s) \div Base
           r == (-s) % Base
<1>2. k \in Int /\ r \in Int /\ -s = Base * k + r /\ 0 <= r /\ r < Base
  BY <1>1
<1>3. r \in Byte
  BY <1>1, <1>2 DEF Byte
<1> HIDE DEF k, r
<1>4. s + r = Base * (-k) /\ -k \in Int
  BY <1>1, <1>2
<1> DEFINE m == -k
<1>5. s + r = Base * m /\ m \in Int
  BY <1>4
<1> HIDE DEF m
<1> DEFINE q == (Base * m) \div Base
           t == (Base * m) % Base
<1>6. q \in Int /\ t \in Int /\ Base * m = Base * q + t /\ 0 <= t /\ t < Base /\ Base * m \in Int
  BY <1>1, <1>5
<1> HIDE DEF q, t
<1> DEFINE d == m - q
<1>7. t = Base * d /\ d \in Int
  BY <1>1, <1>5, <1>6
<1> HIDE DEF d
<1>8. ~(d >= 1)
  <2> SUFFICES ASSUME d >= 1  PROVE FALSE
    OBVIOUS
  <2>1. Base * d >= Base
    BY <1>1, <1>7
  <2> QED
    BY <1>1, <1>6, <1>7, <2>1
<1>9. ~(d <= -1)
  <2> SUFFICES ASSUME d <= -1  PROVE FALSE
    OBVIOUS
  <2>1. Base * d <= -Base
    BY <1>1, <1>7
  <2> QED
    BY <1>1, <1>6, <1>7, <2>1
<1>10. t = 0
  BY <1>1, <1>7, <1>8, <1>9
<1>11. (s + r) % Base = 0
  BY <1>5, <1>10 DEF t
<1> QED
  BY <1>3, <1>11 DEF r

\* What an encoder writes has the form of a frame, and the decoder reads the
\* header and the payload in it that were written.
LEMMA WrittenFacts ==
  ASSUME NEW frame, Writable(frame)
  PROVE  /\ FrameBytes(serialize(frame)) /\ FrameOf(serialize(frame)) = frame
         /\ Total(serialize(frame)) = MIN_LENGTH + Len(frame.payload) + 3
<1> DEFINE M == MIN_LENGTH
           h == frame.header
           p == frame.payload
           k == Len(p)
           body == (<<M + k>> \o h) \o p
           x == checksum(body)
           raw == (<<SOM>> \o body) \o <<x>>
<1>1. /\ h \in Bytes /\ p \in Bytes /\ Len(h) = M /\ k \in Nat /\ M \in Nat /\ M >= 1
      /\ M + k < Base /\ frame = [header |-> h, payload |-> p]
  BY ByteAssumption DEF Writable, Bytes
<1>2. serialize(frame) = raw
  BY DEF serialize
<1> HIDE DEF h, p
<1>3. M + k \in Byte /\ M + k \in Nat /\ SOM \in Byte
  BY <1>1, ByteAssumption DEF Byte
<1> HIDE DEF k
<1>4. /\ <<M + k>> \in Bytes /\ Len(<<M + k>>) = 1 /\ <<M + k>>[1] = M + k
      /\ <<SOM>> \in Bytes /\ Len(<<SOM>>) = 1 /\ <<SOM>>[1] = SOM
  BY <1>3, OneByte
<1>5. /\ body \in Bytes /\ Len(body) = 1 + M + k /\ body[1] = M + k
      /\ \A i \in 1 .. M : body[1 + i] = h[i]
      /\ \A i \in 1 .. k : body[1 + M + i] = p[i]
  <2> DEFINE front == <<M + k>> \o h
  <2>1. /\ front \in Bytes /\ Len(front) = 1 + M /\ front[1] = M + k
        /\ \A i \in 1 .. M : front[1 + i] = h[i]
    <3>1. /\ front \in Bytes /\ Len(front) = Len(<<M + k>>) + Len(h)
          /\ \A i \in 1 .. Len(<<M + k>>) : front[i] = <<M + k>>[i]
          /\ \A i \in 1 .. Len(h) : front[Len(<<M + k>>) + i] = h[i]
      BY <1>1, <1>4, ConcatFacts
    <3> HIDE DEF front
    <3> QED
      BY <1>1, <1>4, <3>1
  <2> HIDE DEF front
  <2>2. /\ body \in Bytes /\ Len(body) = Len(front) + Len(p)
        /\ \A i \in 1 .. Len(front) : body[i] = front[i]
        /\ \A i \in 1 .. Len(p) : body[Len(front) + i] = p[i]
    BY <1>1, <2>1, ConcatFacts DEF front
  <2> HIDE DEF body
  <2>3. \A i \in 0 .. M : 1 + i \in 1 .. 1 + M
    BY <1>1
  <2>4. body[1] = M + k /\ \A i \in 1 .. M : body[1 + i] = h[i]
    <3>1. 1 \in 1 .. 1 + M /\ \A i \in 1 .. M : 1 + i \in 1 .. 1 + M
      BY <1>1
    <3> QED
      BY <2>1, <2>2, <3>1
  <2>5. Len(body) = 1 + M + k /\ \A i \in 1 .. k : body[1 + M + i] = p[i]
    BY <2>1, <2>2 DEF k
  <2> QED
    BY <2>2, <2>4, <2>5
<1> HIDE DEF body
<1>6. Sum(body) \in Int /\ x \in Byte /\ (Sum(body) + x) % Base = 0
  <2>1. Sum(body) \in Int
    <3>1. PICK g \in [0 .. Len(body) -> Int] : Sum(body) = g[Len(body)]
      BY <1>5, SumIs
    <3>2. Len(body) \in 0 .. Len(body)
      BY <1>1, <1>3, <1>5
    <3> QED
      BY <3>1, <3>2
  <2> QED
    BY <2>1, ChecksumZero DEF checksum
<1> HIDE DEF x
<1>7. <<x>> \in Bytes /\ Len(<<x>>) = 1 /\ <<x>>[1] = x
  BY <1>6, OneByte
<1> DEFINE N == M + k + 3
<1>8. /\ raw \in Bytes /\ Len(raw) = N /\ raw[1] = SOM /\ raw[N] = x
      /\ \A i \in 1 .. 1 + M + k : raw[1 + i] = body[i]
  <2> DEFINE start == <<SOM>> \o body
  <2>1. /\ start \in Bytes /\ Len(start) = 1 + (1 + M + k) /\ start[1] = SOM
        /\ \A i \in 1 .. 1 + M + k : start[1 + i] = body[i]
    <3>1. /\ start \in Bytes /\ Len(start) = Len(<<SOM>>) + Len(body)
          /\ \A i \in 1 .. Len(<<SOM>>) : start[i] = <<SOM>>[i]
          /\ \A i \in 1 .. Len(body) : start[Len(<<SOM>>) + i] = body[i]
      BY <1>4, <1>5, ConcatFacts
    <3> HIDE DEF start
    <3> QED
      BY <1>4, <1>5, <3>1
  <2> HIDE DEF start
  <2>2. /\ raw \in Bytes /\ Len(raw) = Len(start) + Len(<<x>>)
        /\ \A i \in 1 .. Len(start) : raw[i] = start[i]
        /\ \A i \in 1 .. Len(<<x>>) : raw[Len(start) + i] = <<x>>[i]
    BY <1>7, <2>1, ConcatFacts DEF start
  <2> HIDE DEF raw
  <2>3. /\ 1 + (1 + M + k) + 1 = N /\ 1 \in 1 .. 1 /\ 1 \in 1 .. 1 + (1 + M + k)
        /\ \A i \in 1 .. 1 + M + k : 1 + i \in 1 .. 1 + (1 + M + k)
    BY <1>1, <1>3
  <2>4. Len(raw) = N /\ raw[N] = x
    BY <1>7, <2>1, <2>2, <2>3
  <2>5. raw[1] = SOM /\ \A i \in 1 .. 1 + M + k : raw[1 + i] = body[i]
    BY <2>1, <2>2, <2>3
  <2> QED
    BY <2>2, <2>4, <2>5
<1> HIDE DEF raw
<1>9. k \in Nat /\ N \in Nat /\ N >= 4
  BY <1>1 DEF k
<1>10. raw[2] = M + k
  <2>1. 1 \in 1 .. 1 + M + k /\ 1 + 1 = 2
    BY <1>1, <1>9
  <2> QED
    BY <1>5, <1>8, <2>1
<1>11. Total(raw) = N
  BY <1>10 DEF Total
<1>12. Sum(Tail(raw)) % Base = 0
  <2> DEFINE t == Tail(raw)
  <2>1. t \in Bytes /\ Len(t) = N - 1 /\ \A i \in 1 .. N - 1 : t[i] = raw[i + 1]
    <3>1. raw # <<>>
      BY <1>8, <1>9, EmptySeq
    <3>2. t \in Bytes /\ Len(t) = Len(raw) - 1 /\ \A i \in 1 .. Len(t) : t[i] = raw[i + 1]
      BY <1>8, <3>1, HeadTailProperties DEF Bytes
    <3> HIDE DEF t
    <3> QED
      BY <1>8, <3>2
  <2> HIDE DEF t
  <2>2. /\ N - 1 = (1 + M + k) + 1 /\ N - 1 \in 1 .. N - 1 /\ (N - 1) + 1 = N
        /\ \A i \in 1 .. 1 + M + k : i \in 1 .. N - 1 /\ i + 1 = 1 + i
    BY <1>1, <1>9
  <2>3. /\ Len(t) = Len(body) + 1 /\ \A i \in 1 .. Len(body) : t[i] = body[i]
        /\ t[Len(t)] = x
    BY <1>5, <1>8, <2>1, <2>2
  <2>4. Sum(t) = Sum(body) + x
    BY <1>5, <2>1, <2>3, SumLast
  <2> QED
    BY <1>6, <2>4 DEF t
<1>13. FrameBytes(raw)
  BY <1>1, <1>8, <1>9, <1>10, <1>11, <1>12 DEF FrameBytes
<1>14. SubSeq(raw, 3, M + 2) = h
  <2>1. /\ 3 \in 1 .. N + 1 /\ M + 2 \in 3 - 1 .. N /\ (M + 2) - 3 + 1 = M
        /\ \A i \in 1 .. M : 1 + i \in 1 .. 1 + M + k /\ 3 + i - 1 = 1 + (1 + i)
    BY <1>1, <1>9
  <2>2. /\ SubSeq(raw, 3, M + 2) \in Bytes /\ Len(SubSeq(raw, 3, M + 2)) = (M + 2) - 3 + 1
        /\ \A i \in 1 .. (M + 2) - 3 + 1 : SubSeq(raw, 3, M + 2)[i] = raw[3 + i - 1]
    BY <1>8, <2>1, SliceFacts
  <2>3. \A i \in 1 .. M : SubSeq(raw, 3, M + 2)[i] = h[i]
    BY <1>5, <1>8, <2>1, <2>2
  <2> QED
    BY <1>1, <2>1, <2>2, <2>3, SameBytes
<1>15. SubSeq(raw, M + 3, Len(raw) - 1) = p
  <2>1. /\ M + 3 \in 1 .. N + 1 /\ N - 1 \in (M + 3) - 1 .. N /\ (N - 1) - (M + 3) + 1 = k
        /\ \A i \in 1 .. k : 1 + M + i \in 1 .. 1 + M + k /\ (M + 3) + i - 1 = 1 + (1 + M + i)
    BY <1>1, <1>9
  <2> DEFINE s == SubSeq(raw, M + 3, N - 1)
  <2>2. /\ s \in Bytes /\ Len(s) = (N - 1) - (M + 3) + 1
        /\ \A i \in 1 .. (N - 1) - (M + 3) + 1 : s[i] = raw[(M + 3) + i - 1]
    <3> DEFINE m == M + 3
               n == N - 1
    <3>1. m \in 1 .. Len(raw) + 1 /\ n \in m - 1 .. Len(raw)
      BY <1>8, <2>1
    <3> HIDE DEF m, n
    <3>2. /\ SubSeq(raw, m, n) \in Bytes /\ Len(SubSeq(raw, m, n)) = n - m + 1
          /\ \A i \in 1 .. n - m + 1 : SubSeq(raw, m, n)[i] = raw[m + i - 1]
      BY <1>8, <3>1, SliceFacts
    <3> QED
      BY <3>2 DEF m, n
  <2> HIDE DEF s
  <2>3. Len(s) = Len(p) /\ Len(s) = k
    BY <2>1, <2>2 DEF k
  <2>4. \A i \in 1 .. k : s[i] = p[i]
    BY <1>5, <1>8, <2>1, <2>2
  <2>5. s = p
    BY <1>1, <2>2, <2>3, <2>4, SameBytes
  <2> QED
    BY <1>8, <2>5 DEF s
<1>16. FrameOf(raw) = frame
  BY <1>1, <1>14, <1>15 DEF FrameOf
<1> QED
  BY <1>2, <1>11, <1>13, <1>16 DEF k, p

\* A loop takes what was written as one frame, whatever follows it.
LEMMA WrittenTurn ==
  ASSUME NEW limit \in Nat, NEW frame, Writable(frame),
         MIN_LENGTH + Len(frame.payload) + 3 <= limit, NEW rest \in Bytes
  PROVE  Turns(limit)[serialize(frame) \o rest] =
           Then([kind |-> "frame", raw |-> serialize(frame)], Turns(limit)[rest])
<1> DEFINE raw == serialize(frame)
<1>1. /\ raw \in Bytes /\ Len(raw) >= 2 /\ raw[1] = SOM /\ raw[2] >= MIN_LENGTH
      /\ Len(raw) = Total(raw) /\ Sum(Tail(raw)) % Base = 0 /\ Total(raw) <= limit
  BY WrittenFacts DEF FrameBytes
<1> HIDE DEF raw
<1>2. Len(raw) \in Nat /\ raw[2] \in Byte /\ raw # <<>>
  <2>1. Len(raw) \in Nat /\ raw # <<>>
    BY <1>1, EmptySeq DEF Bytes
  <2> QED
    BY <1>1, <2>1, TakesFacts
<1>3. ~(Len(raw) < 2) /\ ~(raw[2] < MIN_LENGTH) /\ ~(Total(raw) > limit) /\ Len(raw) >= Total(raw)
  BY <1>1, <1>2, ByteAssumption DEF Byte
<1>4. Takes(limit, raw) = Len(raw) /\ Takes(limit, raw) # 0
  BY <1>1, <1>2, <1>3 DEF Takes
<1>5. SubSeq(raw, 1, Total(raw)) = raw
  BY <1>1, SubSeqFull DEF Bytes
<1>6. Tells(limit, raw) = [kind |-> "frame", raw |-> raw]
  BY <1>1, <1>3, <1>5 DEF Tells, deserialize
<1> DEFINE whole == raw \o rest
<1>7. whole \in Bytes /\ FromSom(whole) = whole
  <2>1. FromSom(raw) = raw
    BY <1>1, FromSomKeeps
  <2> QED
    BY <1>1, <1>2, <2>1, FromSomConcat, ConcatFacts
<1>8. Takes(limit, whole) = Len(raw) /\ Tells(limit, whole) = [kind |-> "frame", raw |-> raw]
  BY <1>1, <1>4, <1>6, TakesConcat
<1>9. Drop(whole, Len(raw)) = rest
  <2>1. Len(raw) \in 0 .. Len(raw) /\ Drop(raw, Len(raw)) = <<>>
    BY <1>1, <1>2, DropAll
  <2>2. Drop(whole, Len(raw)) = <<>> \o rest
    BY <1>1, <2>1, DropConcat
  <2> QED
    BY <2>2, ConcatEmptySeq DEF Bytes
<1> HIDE DEF whole
<1>10. Turns(limit)[whole] = Then([kind |-> "frame", raw |-> raw], Turns(limit)[rest])
  <2>1. Turns(limit)[whole] = Turn(limit, Turns(limit), whole)
    BY <1>7, TurnsAt
  <2> QED
    BY <1>4, <1>7, <1>8, <1>9, <2>1 DEF Turn
<1> QED
  BY <1>10 DEF whole, raw

-----------------------------------------------------------------------------
(***************************************************************************)
(* One byte at a time.                                                     *)
(***************************************************************************)
\* What a loop keeps is shorter than its limit: it waits only for bytes of
\* a frame that is no longer than that.
LEMMA SettledShort ==
  ASSUME NEW limit \in Nat, limit >= 2, NEW c \in Bytes, Settled(limit, c)
  PROVE  Len(c) < limit
<1>1. Len(c) \in Nat
  BY DEF Bytes
<1>2. CASE Len(c) < 2
  BY <1>1, <1>2
<1>3. CASE Len(c) >= 2
  <2>1. c[2] \in Byte /\ Total(c) \in Nat /\ Total(c) >= 3
    BY <1>3, TakesFacts
  <2>2. ~(c[2] < MIN_LENGTH) /\ ~(Total(c) > limit) /\ ~(Len(c) >= Total(c))
    BY <1>1, <1>3, <2>1 DEF Settled, Takes
  <2> QED
    BY <1>1, <2>1, <2>2
<1> QED
  BY <1>1, <1>2, <1>3

\* When nothing could be taken before a byte came, at most one byte is left
\* after the turn that it allows: a frame ends with this byte, and a refused
\* length is this byte.
LEMMA OneTurnIsEnough ==
  ASSUME NEW limit \in Nat, NEW s \in Bytes, Settled(limit, s), NEW byte \in Byte,
         NEW c, c = FromSom(s \o <<byte>>), Takes(limit, c) # 0
  PROVE  Drop(c, Takes(limit, c)) \in Bytes /\ Len(Drop(c, Takes(limit, c))) \in 0 .. 1
<1> DEFINE n == Takes(limit, c)
<1>1. <<byte>> \in Bytes /\ Len(<<byte>>) = 1 /\ Len(s) \in Nat
  BY OneByte DEF Bytes
<1>2. /\ s \o <<byte>> \in Bytes /\ Len(s \o <<byte>>) = Len(s) + 1
      /\ \A i \in 1 .. Len(s) : (s \o <<byte>>)[i] = s[i]
  BY <1>1, ConcatFacts
<1>3. c \in Bytes /\ Len(c) \in 0 .. Len(s) + 1 /\ Len(c) \in Nat
  BY <1>2, FromSomFacts DEF Bytes
<1>4. /\ n \in 0 .. Len(c) /\ n # 0 /\ Drop(c, n) \in Bytes /\ Len(Drop(c, n)) = Len(c) - n
      /\ Len(c) >= 2 /\ Total(c) \in Nat
  BY <1>3, TakesFacts, TakesLength
<1>5. CASE Len(s) < 2
  <2> HIDE DEF n
  <2>1. Len(c) - n \in 0 .. 1
    BY <1>1, <1>3, <1>4, <1>5
  <2> QED
    BY <1>4, <2>1 DEF n
<1>6. CASE Len(s) >= 2
  <2>1. s # <<>> /\ s[1] = SOM
    BY <1>6, EmptySeq DEF Settled
  <2>2. c = s \o <<byte>>
    <3>1. FromSom(s) = s
      BY <2>1, FromSomKeeps
    <3> QED
      BY <1>1, <2>1, <3>1, FromSomConcat
  <2>3. c[2] = s[2]
    BY <1>2, <1>6, <2>2
  <2>4. s[2] \in Byte /\ ~(s[2] < MIN_LENGTH) /\ ~(Total(s) > limit) /\ ~(Len(s) >= Total(s))
        /\ Total(s) \in Nat
    <3>1. s[2] \in Byte /\ Total(s) \in Nat /\ Total(s) >= 3
      BY <1>6, TakesFacts
    <3> QED
      BY <1>1, <1>6, <3>1 DEF Settled, Takes
  <2>5. Total(c) = Total(s)
    BY <2>3 DEF Total
  <2>6. n = Total(c)
    <3>1. ~(c[2] < MIN_LENGTH \/ Total(c) > limit) /\ ~(Len(c) < 2)
      BY <1>3, <1>4, <2>3, <2>4, <2>5
    <3> QED
      BY <1>4, <3>1 DEF Takes
  <2> HIDE DEF n
  <2>7. Len(c) = Len(s) + 1
    BY <1>2, <2>2
  <2> QED
    BY <1>1, <1>4, <2>4, <2>5, <2>6, <2>7 DEF n
<1> QED
  BY <1>1, <1>5, <1>6

\* Of one byte at most, nothing can be taken.
LEMMA ShortStays ==
  ASSUME NEW limit \in Nat, NEW d \in Bytes, Len(d) \in 0 .. 1
  PROVE  Turns(limit)[d] = Waits(FromSom(d))
<1>1. ASSUME NEW k \in Nat, NEW m \in 0 .. k, k \in 0 .. 1  PROVE m < 2
  BY <1>1
<1>2. Len(FromSom(d)) < 2
  BY <1>1, FromSomFacts
<1>3. Takes(limit, FromSom(d)) = 0
  BY <1>2 DEF Takes
<1> QED
  BY <1>3, TurnsAt DEF Turn

-----------------------------------------------------------------------------
(***************************************************************************)
(* The inductive invariant.  Each parser has told and keeps what its loop  *)
(* would make of all its bytes at once: the firmware those that have       *)
(* arrived, but for bytes before the next SOM, the Python parser those fed *)
(* to it, and the probe those since it last threw its buffer away.         *)
(***************************************************************************)
CppInv ==
  /\ cpp_buffer \in Bytes /\ Len(cpp_buffer) < max_buffer
  /\ Len(cpp_buffer) > 1 => cpp_buffer[1] = SOM
  /\ Turns(max_buffer)[stream] = [events |-> cpp_events, buffer |-> FromSom(cpp_buffer)]

FedInv(fed) ==
  /\ stream = fed \o chunk
  /\ Turns(max_buffer)[fed] = [events |-> py_events, buffer |-> py_buffer]
  /\ probe_from \in 1 .. Len(fed) + 1
  /\ Turns(AnyLength)[Drop(fed, probe_from - 1)] =
       [events |-> probe_events, buffer |-> probe_buffer]

IInv ==
  /\ stream \in Bytes /\ chunk \in Bytes
  /\ CppInv
  /\ \E fed \in Bytes : FedInv(fed)

\* The numbers that limit the buffers.
LEMMA Limits ==
  /\ max_buffer \in Nat /\ max_buffer >= 2 /\ 1 < max_buffer
  /\ AnyLength \in Nat /\ max_parser_buffer \in Nat
<1>1. Base \in Nat /\ MIN_LENGTH \in Nat /\ MIN_LENGTH >= 1
  BY ByteAssumption
<1>2. AnyLength \in Nat
  BY <1>1 DEF AnyLength
<1> QED
  BY <1>1, <1>2, BufferAssumption

\* A loop makes nothing of nothing.
LEMMA TurnsEmpty ==
  ASSUME NEW limit \in Nat
  PROVE  Turns(limit)[<<>>] = Waits(<<>>) /\ <<>> \in Bytes /\ Len(<<>>) = 0
<1>1. <<>> \in Bytes /\ Settled(limit, <<>>) /\ Len(<<>>) = 0
  BY EmptySeq DEF Bytes, Settled, Takes
<1> QED
  BY <1>1, SettledStays

\* What an outcome is made of.
LEMMA OutcomeFacts ==
  ASSUME NEW limit \in Nat, NEW b \in Bytes, NEW r, r = Turns(limit)[b]
  PROVE  /\ r.events \in Seq(Event) /\ r.buffer \in Bytes
         /\ r = [events |-> r.events, buffer |-> r.buffer]
         /\ Settled(limit, r.buffer)
         /\ \A i \in 1 .. Len(r.events) : Sound(r.events[i])
<1>1. r \in Outcome(limit)
  BY TurnsOutcome
<1> QED
  BY <1>1 DEF Outcome

\* The invariant holds when nothing has arrived.
LEMMA InitIInv == Init => IInv
<1> SUFFICES ASSUME Init  PROVE IInv
  OBVIOUS
<1>1. <<>> \in Bytes /\ Len(<<>>) = 0 /\ <<>> \o <<>> = <<>>
  BY EmptySeq, ConcatEmptySeq DEF Bytes
<1>2. /\ Turns(max_buffer)[<<>>] = [events |-> <<>>, buffer |-> <<>>]
      /\ Turns(AnyLength)[<<>>] = [events |-> <<>>, buffer |-> <<>>]
  BY Limits, TurnsEmpty DEF Waits
<1>3. FromSom(<<>>) = <<>> /\ Drop(<<>>, 0) = <<>>
  BY <1>1, FromSomKeeps, DropNone
<1>4. CppInv
  BY <1>1, <1>2, <1>3, Limits DEF Init, CppInv
<1>5. FedInv(<<>>)
  <2>1. 1 \in 1 .. Len(<<>>) + 1 /\ 1 - 1 = 0
    BY <1>1
  <2> QED
    BY <1>1, <1>2, <1>3, <2>1 DEF Init, FedInv
<1> QED
  BY <1>1, <1>4, <1>5 DEF Init, IInv

\* A byte arrives.
LEMMA ArrivesIInv ==
  ASSUME IInv, NEW byte \in Byte, Arrives(byte)
  PROVE  IInv'
<1> DEFINE F == Turns(max_buffer)
           s == FromSom(cpp_buffer)
           b == FromSom(Append(cpp_buffer, byte))
           n == Takes(max_buffer, b)
<1>1. /\ stream \in Bytes /\ chunk \in Bytes /\ cpp_buffer \in Bytes
      /\ Len(cpp_buffer) \in Nat /\ Len(cpp_buffer) < max_buffer
      /\ F[stream] = [events |-> cpp_events, buffer |-> s]
  BY DEF IInv, CppInv, Bytes
<1>2. <<byte>> \in Bytes
  BY OneByte
<1>3. /\ stream' = stream \o <<byte>> /\ chunk' = chunk \o <<byte>>
      /\ Append(cpp_buffer, byte) = cpp_buffer \o <<byte>>
      /\ cpp_buffer \o <<byte>> \in Bytes /\ stream' \in Bytes /\ chunk' \in Bytes
  <2>1. /\ Append(stream, byte) = stream \o <<byte>> /\ Append(chunk, byte) = chunk \o <<byte>>
        /\ Append(cpp_buffer, byte) = cpp_buffer \o <<byte>>
    BY <1>1, AppendIsConcat DEF Bytes
  <2>2. stream' = Append(stream, byte) /\ chunk' = Append(chunk, byte)
    BY DEF Arrives
  <2> QED
    BY <1>1, <1>2, <2>1, <2>2, ConcatFacts
<1>4. /\ cpp_events \in Seq(Event) /\ s \in Bytes /\ Settled(max_buffer, s)
  <2>1. F[stream].events = cpp_events /\ F[stream].buffer = s
    BY <1>1
  <2> HIDE DEF s
  <2> QED
    BY <1>1, <2>1, Limits, OutcomeFacts
<1>5. b \in Bytes /\ b = FromSom(s \o <<byte>>) /\ (b # <<>> => b[1] = SOM) /\ FromSom(b) = b
  <2>1. b = FromSom(cpp_buffer \o <<byte>>)
    BY <1>3
  <2> HIDE DEF b
  <2>2. b \in Bytes /\ (b # <<>> => b[1] = SOM)
    BY <1>3, <2>1, FromSomFacts
  <2>3. FromSom(cpp_buffer \o <<byte>>) = FromSom(s \o <<byte>>)
    BY <1>1, <1>2, FromSomConcat
  <2> QED
    BY <2>1, <2>2, <2>3, FromSomKeeps
<1>6. F[stream'] = Joined(F[stream], F[b])
  <2>1. F[stream'] = Joined(F[stream], F[s \o <<byte>>])
    <3>1. F[stream].buffer = s
      BY <1>1
    <3> HIDE DEF s
    <3> QED
      BY <1>1, <1>2, <1>3, <3>1, Limits, TurnsConcat
  <2>2. F[s \o <<byte>>] = F[b]
    <3>1. s \o <<byte>> \in Bytes
      BY <1>2, <1>4, ConcatFacts
    <3> HIDE DEF s, b
    <3> QED
      BY <1>5, <3>1, Limits, TurnsFromSom
  <2> QED
    BY <2>1, <2>2
<1>7. F[b] = IF n = 0 THEN Waits(b) ELSE Then(Tells(max_buffer, b), F[Drop(b, n)])
  <2> HIDE DEF b
  <2> QED
    BY <1>5, Limits, TurnsAt DEF Turn
<1>8. /\ Yields(b) <=> n # 0
      /\ Yields(b) => EventOf(b) = Tells(max_buffer, b) /\ Leaves(b) = Drop(b, n)
  <2> HIDE DEF b
  <2> QED
    BY <1>5, BridgeTurn
<1>9. IF Yields(b)
        THEN cpp_buffer' = Leaves(b) /\ cpp_events' = Append(cpp_events, EventOf(b))
        ELSE cpp_buffer' = b /\ cpp_events' = cpp_events
  BY <1>1, Limits DEF Arrives, feedByte
<1> HIDE DEF b, s, F
<1>10. /\ cpp_buffer' \in Bytes /\ Len(cpp_buffer') < max_buffer
       /\ Len(cpp_buffer') > 1 => cpp_buffer'[1] = SOM
       /\ F[stream'] = [events |-> cpp_events', buffer |-> FromSom(cpp_buffer')]
  <2>1. CASE n = 0
    <3>1. cpp_buffer' = b /\ cpp_events' = cpp_events
      BY <1>8, <1>9, <2>1
    <3>2. Settled(max_buffer, b)
      BY <1>5, <2>1 DEF Settled
    <3>3. Len(b) < max_buffer /\ Len(b) \in Nat
      BY <1>5, <3>2, Limits, SettledShort DEF Bytes
    <3>4. Len(b) > 1 => b[1] = SOM
      BY <1>5, <3>3, EmptySeq
    <3>5. F[stream'] = [events |-> cpp_events \o <<>>, buffer |-> b]
      BY <1>1, <1>6, <1>7, <2>1 DEF Joined, Waits
    <3>6. cpp_events \o <<>> = cpp_events
      BY <1>4, ConcatEmptySeq
    <3> QED
      BY <1>5, <3>1, <3>3, <3>4, <3>5, <3>6
  <2>2. CASE n # 0
    <3> DEFINE d == Drop(b, n)
               e == Tells(max_buffer, b)
    <3>1. cpp_buffer' = d /\ cpp_events' = Append(cpp_events, e)
      BY <1>8, <1>9, <2>2
    <3>2. d \in Bytes /\ Len(d) \in 0 .. 1
      BY <1>4, <1>5, <2>2, Limits, OneTurnIsEnough
    <3>3. e \in Event
      BY <1>5, <2>2, Limits, TellsFacts
    <3>4. F[d] = Waits(FromSom(d))
      <4> HIDE DEF d
      <4> QED
        BY <3>2, Limits, ShortStays DEF F
    <3> HIDE DEF d, e
    <3>5. F[b] = Then(e, Waits(FromSom(d)))
      BY <1>7, <2>2, <3>4 DEF d, e
    <3>6. F[stream'] = [events |-> cpp_events \o (<<e>> \o <<>>), buffer |-> FromSom(d)]
      BY <1>1, <1>6, <3>5 DEF Joined, Then, Waits
    <3>7. cpp_events \o (<<e>> \o <<>>) = Append(cpp_events, e)
      <4>1. <<e>> \in Seq(Event)
        BY <3>3
      <4>2. <<e>> \o <<>> = <<e>>
        BY <4>1, ConcatEmptySeq
      <4> QED
        BY <1>4, <3>3, <4>2, AppendIsConcat
    <3>8. Len(d) < max_buffer /\ ~(Len(d) > 1)
      BY <3>2, Limits
    <3> QED
      BY <3>1, <3>2, <3>6, <3>7, <3>8
  <2> QED
    BY <2>1, <2>2
<1>11. CppInv'
  BY <1>10 DEF CppInv, F
<1>12. PICK fed \in Bytes : FedInv(fed)
  BY DEF IInv
<1>13. FedInv(fed)'
  <2>1. stream' = fed \o chunk'
    <3>1. stream' = (fed \o chunk) \o <<byte>>
      BY <1>3, <1>12 DEF FedInv
    <3>2. (fed \o chunk) \o <<byte>> = fed \o (chunk \o <<byte>>)
      BY <1>1, <1>2, ConcatAssociative DEF Bytes
    <3> QED
      BY <1>3, <3>1, <3>2
  <2>2. /\ py_buffer' = py_buffer /\ py_events' = py_events /\ probe_buffer' = probe_buffer
        /\ probe_events' = probe_events /\ probe_from' = probe_from
    BY DEF Arrives, probe
  <2> QED
    BY <1>12, <2>1, <2>2 DEF FedInv
<1> QED
  BY <1>3, <1>11, <1>13 DEF IInv

\* The bridge and the probe are given what has arrived.
LEMMA FeedIInv ==
  ASSUME IInv, feed
  PROVE  IInv'
<1>1. PICK fed \in Bytes : FedInv(fed)
  BY DEF IInv
<1>2. /\ stream \in Bytes /\ chunk \in Bytes /\ stream = fed \o chunk
      /\ Len(fed) \in Nat /\ Len(stream) \in Nat /\ Len(stream) = Len(fed) + Len(chunk)
      /\ Len(chunk) \in Nat
  BY <1>1, ConcatFacts DEF IInv, FedInv, Bytes
<1>3. /\ stream' = stream /\ chunk' = <<>> /\ cpp_buffer' = cpp_buffer /\ cpp_events' = cpp_events
      /\ <<>> \in Bytes /\ stream \o <<>> = stream
  BY <1>2, EmptySeq, ConcatEmptySeq DEF feed, Bytes
<1>4. CppInv'
  BY <1>3 DEF IInv, CppInv
<1>5. Turns(max_buffer)[stream] = [events |-> py_events', buffer |-> py_buffer']
  <2> DEFINE r == Turns(max_buffer)[fed]
             q == Turns(max_buffer)[py_buffer \o chunk]
  <2>1. r = [events |-> py_events, buffer |-> py_buffer]
    BY <1>1 DEF FedInv
  <2>2. r.events \in Seq(Event) /\ r.buffer \in Bytes
    <3> HIDE DEF r
    <3>1. r = Turns(max_buffer)[fed]
      BY DEF r
    <3> QED
      BY <3>1, Limits, OutcomeFacts
  <2>3. py_events \in Seq(Event) /\ py_buffer \in Bytes /\ r.buffer = py_buffer
    <3>1. r.events = py_events /\ r.buffer = py_buffer
      BY <2>1
    <3> QED
      BY <2>2, <3>1
  <2>4. py_buffer \o chunk \in Bytes
    BY <1>2, <2>3, ConcatFacts
  <2>5. Turns(max_buffer)[stream] = Joined(r, q)
    BY <1>2, <2>3, Limits, TurnsConcat
  <2>6. q.events \in Seq(Event) /\ q.buffer \in Bytes /\ Settled(max_buffer, q.buffer)
    <3> HIDE DEF q
    <3>1. q = Turns(max_buffer)[py_buffer \o chunk]
      BY DEF q
    <3> QED
      BY <2>4, <3>1, Limits, OutcomeFacts
  <2>7. ~(Len(q.buffer) > max_buffer)
    <3> HIDE DEF q
    <3>1. Len(q.buffer) < max_buffer /\ Len(q.buffer) \in Nat
      BY <2>6, Limits, SettledShort DEF Bytes
    <3> QED
      BY <3>1, Limits
  <2>8. Parse(py_buffer \o chunk) = q
    BY ParsedIsTurns DEF Parse
  <2> HIDE DEF q, r
  <2>9. py_buffer' = q.buffer /\ py_events' = (py_events \o q.events) \o <<>>
    BY <2>7, <2>8 DEF feed
  <2>10. (py_events \o q.events) \o <<>> = py_events \o q.events
    <3>1. py_events \o q.events \in Seq(Event)
      BY <2>3, <2>6, ConcatProperties
    <3> QED
      BY <3>1, ConcatEmptySeq
  <2> QED
    BY <2>1, <2>5, <2>9, <2>10 DEF Joined
<1>6. /\ probe_from' \in 1 .. Len(stream) + 1
      /\ Turns(AnyLength)[Drop(stream, probe_from' - 1)] =
           [events |-> probe_events', buffer |-> probe_buffer']
  <2>1. _receive_tcp(chunk)
    BY DEF feed
  <2>2. CASE Len(probe_buffer \o chunk) > max_parser_buffer
    <3>1. probe_buffer' = <<>> /\ probe_events' = <<>> /\ probe_from' = Len(stream) + 1
      BY <2>1, <2>2 DEF _receive_tcp
    <3>2. probe_from' \in 1 .. Len(stream) + 1 /\ probe_from' - 1 = Len(stream)
      BY <1>2, <3>1
    <3>3. Drop(stream, probe_from' - 1) = <<>>
      BY <1>2, <3>2, DropAll
    <3>4. Turns(AnyLength)[<<>>] = [events |-> <<>>, buffer |-> <<>>]
      BY Limits, TurnsEmpty DEF Waits
    <3> QED
      BY <3>1, <3>2, <3>3, <3>4
  <2>3. CASE ~(Len(probe_buffer \o chunk) > max_parser_buffer)
    <3> DEFINE d == Drop(fed, probe_from - 1)
               r == Turns(AnyLength)[d]
               q == Turns(AnyLength)[probe_buffer \o chunk]
    <3>1. candidate_aux_frames(probe_buffer \o chunk) = q
      BY CandidatesIsTurns DEF candidate_aux_frames
    <3>2. probe_buffer' = q.buffer /\ probe_events' = probe_events \o q.events
          /\ probe_from' = probe_from
      <4> HIDE DEF q
      <4> QED
        BY <2>1, <2>3, <3>1 DEF _receive_tcp
    <3>3. probe_from - 1 \in 0 .. Len(fed) /\ probe_from \in 1 .. Len(stream) + 1
      BY <1>1, <1>2 DEF FedInv
    <3>4. d \in Bytes /\ Drop(stream, probe_from - 1) = d \o chunk
      BY <1>2, <3>3, DropFacts, DropConcat
    <3>5. r = [events |-> probe_events, buffer |-> probe_buffer]
      BY <1>1 DEF FedInv
    <3>6. r.events = probe_events /\ r.buffer = probe_buffer
      <4> HIDE DEF r
      <4> QED
        BY <3>5
    <3> HIDE DEF d
    <3>7. Turns(AnyLength)[d \o chunk] = Joined(r, q)
      BY <1>2, <3>4, <3>6, Limits, TurnsConcat
    <3> HIDE DEF q, r
    <3> QED
      BY <3>2, <3>3, <3>4, <3>6, <3>7 DEF Joined
  <2> QED
    BY <2>2, <2>3
<1>7. FedInv(stream)'
  BY <1>3, <1>5, <1>6 DEF FedInv
<1> QED
  BY <1>2, <1>3, <1>4, <1>7 DEF IInv

\* Nothing else happens.
LEMMA NextIInv == IInv /\ [Next]_vars => IInv'
<1>1. ASSUME IInv, feed  PROVE IInv'
  BY <1>1, FeedIInv
<1>2. ASSUME IInv, NEW byte \in Byte, Arrives(byte)  PROVE IInv'
  BY <1>2, ArrivesIInv
<1>3. ASSUME IInv, UNCHANGED vars  PROVE IInv'
  <2>1. PICK fed \in Bytes : FedInv(fed)
    BY <1>3 DEF IInv
  <2>2. FedInv(fed)'
    BY <1>3, <2>1 DEF FedInv, vars, probe
  <2>3. CppInv'
    BY <1>3 DEF IInv, CppInv, vars
  <2>4. stream' = stream /\ chunk' = chunk
    BY <1>3 DEF vars
  <2> QED
    BY <1>3, <2>2, <2>3, <2>4 DEF IInv
<1> QED
  BY <1>1, <1>2, <1>3 DEF Next

\* The invariant holds in every state.
LEMMA SpecIInv == Spec => []IInv
BY InitIInv, NextIInv, PTL DEF Spec

-----------------------------------------------------------------------------
(***************************************************************************)
(* The theorems.                                                           *)
(***************************************************************************)
\* The reference definition from a position in the stream.
LEMMA FoundFrom ==
  ASSUME stream \in Bytes, NEW limit \in Nat, NEW p \in 1 .. Len(stream) + 1
  PROVE  Found(limit)[p] = Turns(limit)[Drop(stream, p - 1)].events
<1>1. Len(stream) \in Nat
  BY DEF Bytes
<1>2. p \in Nat \ {0} /\ p <= Len(stream) + 1
  BY <1>1
<1> QED
  BY <1>2, FoundIsTurns DEF Suffix

\* In any stream, cut into any chunks, the firmware's feedByte, the bridge's
\* feed and the probe's candidate_aux_frames tell what the reference
\* definition finds: whatever the limits of their buffers are, none loses,
\* delays, repeats or invents a frame, and no bridge's buffer overflows.
THEOREM FindAll == Spec => []AllFindAll
<1>1. IInv => AllFindAll
  <2> SUFFICES ASSUME IInv  PROVE AllFindAll
    OBVIOUS
  <2>1. stream \in Bytes /\ chunk \in Bytes /\ Len(stream) \in Nat
        /\ Drop(stream, 0) = stream /\ 1 \in 1 .. Len(stream) + 1 /\ 1 - 1 = 0
    BY DropNone DEF IInv, Bytes
  <2>2. Turns(max_buffer)[stream] = [events |-> cpp_events, buffer |-> FromSom(cpp_buffer)]
    BY DEF IInv, CppInv
  <2>3. Found(max_buffer)[1] = Turns(max_buffer)[stream].events
    <3>1. Found(max_buffer)[1] = Turns(max_buffer)[Drop(stream, 1 - 1)].events
      BY <2>1, Limits, FoundFrom
    <3> QED
      BY <2>1, <3>1
  <2>4. CppFindsAll
    BY <2>2, <2>3 DEF CppFindsAll
  <2>5. PICK fed \in Bytes : FedInv(fed)
    BY DEF IInv
  <2>6. ASSUME chunk = <<>>  PROVE fed = stream
    BY <2>5, <2>6, ConcatEmptySeq DEF FedInv, Bytes
  <2>7. PyFindsAll
    <3> SUFFICES ASSUME chunk = <<>>
                 PROVE  py_events = Found(max_buffer)[1] /\ py_buffer = FromSom(cpp_buffer)
      BY DEF PyFindsAll
    <3>1. Turns(max_buffer)[stream] = [events |-> py_events, buffer |-> py_buffer]
      BY <2>5, <2>6 DEF FedInv
    <3> QED
      BY <2>2, <2>3, <3>1
  <2>8. ProbeFindsAll
    <3> SUFFICES ASSUME chunk = <<>>
                 PROVE  probe_events = Found(AnyLength)[probe_from]
      BY DEF ProbeFindsAll
    <3>1. /\ probe_from \in 1 .. Len(stream) + 1
          /\ Turns(AnyLength)[Drop(stream, probe_from - 1)] =
               [events |-> probe_events, buffer |-> probe_buffer]
      BY <2>5, <2>6 DEF FedInv
    <3>2. Found(AnyLength)[probe_from] = Turns(AnyLength)[Drop(stream, probe_from - 1)].events
      BY <2>1, <3>1, Limits, FoundFrom
    <3> QED
      BY <3>1, <3>2
  <2> QED
    BY <2>4, <2>7, <2>8 DEF AllFindAll
<1> QED
  BY <1>1, SpecIInv, PTL

\* After every byte the firmware's buffer holds no complete candidate and
\* has room for the next byte, so that one event for each call of feedByte
\* is enough and its test for a full buffer never succeeds.
THEOREM NonePending == Spec => []NothingPending
<1>1. IInv => NothingPending
  <2> SUFFICES ASSUME IInv  PROVE NothingPending
    OBVIOUS
  <2> DEFINE s == FromSom(cpp_buffer)
  <2>1. /\ stream \in Bytes /\ chunk \in Bytes /\ cpp_buffer \in Bytes
        /\ Len(cpp_buffer) < max_buffer /\ (Len(cpp_buffer) > 1 => cpp_buffer[1] = SOM)
        /\ Turns(max_buffer)[stream] = [events |-> cpp_events, buffer |-> s]
    BY DEF IInv, CppInv
  <2>2. cpp_events \in Seq(Event) /\ s \in Bytes /\ Settled(max_buffer, s)
    <3> HIDE DEF s
    <3>1. [events |-> cpp_events, buffer |-> s].events = cpp_events
          /\ [events |-> cpp_events, buffer |-> s].buffer = s
      OBVIOUS
    <3>2. Turns(max_buffer)[stream].events = cpp_events /\ Turns(max_buffer)[stream].buffer = s
      BY <2>1, <3>1
    <3> QED
      BY <2>1, <3>2, Limits, OutcomeFacts
  <2>3. ~Yields(s)
    <3> HIDE DEF s
    <3> QED
      BY <2>2, BridgeTurn DEF Settled
  <2>4. PICK fed \in Bytes : FedInv(fed)
    BY DEF IInv
  <2>5. /\ Len(fed) \in Nat /\ Len(chunk) \in Nat /\ Len(stream) = Len(fed) + Len(chunk)
        /\ probe_from \in 1 .. Len(fed) + 1
    BY <2>1, <2>4, ConcatFacts DEF FedInv
  <2>6. /\ py_events \in Seq(Event) /\ py_buffer \in Bytes /\ Settled(max_buffer, py_buffer)
    <3>1. /\ Turns(max_buffer)[fed].events = py_events
          /\ Turns(max_buffer)[fed].buffer = py_buffer
      BY <2>4 DEF FedInv
    <3> QED
      BY <3>1, Limits, OutcomeFacts
  <2>7. /\ probe_events \in Seq(Event) /\ probe_buffer \in Bytes
        /\ Settled(AnyLength, probe_buffer)
    <3> DEFINE d == Drop(fed, probe_from - 1)
    <3>1. Turns(AnyLength)[d].events = probe_events /\ Turns(AnyLength)[d].buffer = probe_buffer
      BY <2>4 DEF FedInv
    <3>2. d \in Bytes
      <4>1. probe_from - 1 \in 0 .. Len(fed)
        BY <2>5
      <4> QED
        BY <4>1, DropFacts
    <3> HIDE DEF d
    <3> QED
      BY <3>1, <3>2, Limits, OutcomeFacts
  <2>8. ASSUME NEW limit, NEW b \in Bytes, Settled(limit, b), Len(b) > 1
        PROVE  b[1] = SOM
    <3>1. b # <<>>
      BY <2>8, EmptySeq
    <3> QED
      BY <2>8, <3>1 DEF Settled
  <2>9. TypeOK
    <3>1. probe_from \in 1 .. Len(stream) + 1
      BY <2>5
    <3>2. \A buffer \in {py_buffer, cpp_buffer, probe_buffer} : Len(buffer) > 1 => buffer[1] = SOM
      BY <2>1, <2>6, <2>7, <2>8
    <3> QED
      BY <2>1, <2>2, <2>6, <2>7, <3>1, <3>2 DEF TypeOK, Bytes
  <2> QED
    BY <2>1, <2>3, <2>9 DEF NothingPending
<1> QED
  BY <1>1, SpecIInv, PTL

\* Whatever the firmware's parser takes for a frame is what the encoder
\* makes of the header and the payload that it reads in it.
THEOREM AllCanonical == Spec => []Canonical
<1>1. IInv => Canonical
  <2> SUFFICES ASSUME IInv, NEW i \in 1 .. Len(cpp_events), cpp_events[i].kind = "frame"
               PROVE  serialize(FrameOf(cpp_events[i].raw)) = cpp_events[i].raw
    BY DEF Canonical
  <2>1. stream \in Bytes /\ Turns(max_buffer)[stream].events = cpp_events
    BY DEF IInv, CppInv
  <2>2. Sound(cpp_events[i])
    BY <2>1, Limits, OutcomeFacts
  <2> QED
    BY <2>2, FrameEncodes DEF Sound
<1> QED
  BY <1>1, SpecIInv, PTL

\* The converse, for the bridge and the probe: every frame that an encoder
\* writes, of any header and any payload whose length fits into its byte, is
\* read as that frame, whatever follows it, unless it is longer than the
\* bridge's limit.
THEOREM WrittenIsRead ==
  ASSUME NEW frame, Writable(frame), NEW rest \in Bytes
  PROVE  LET raw == serialize(frame)
             event == [kind |-> "frame", raw |-> raw]
         IN  /\ FrameOf(raw) = frame
             /\ Len(raw) <= max_buffer => Parse(raw \o rest) = Then(event, Parse(rest))
             /\ candidate_aux_frames(raw \o rest) = Then(event, candidate_aux_frames(rest))
<1> DEFINE raw == serialize(frame)
           n == MIN_LENGTH + Len(frame.payload) + 3
<1>1. FrameOf(raw) = frame /\ Len(raw) = n
  BY WrittenFacts DEF FrameBytes
<1>2. n <= AnyLength
  <2>1. Len(frame.payload) \in Nat /\ MIN_LENGTH + Len(frame.payload) < Base
    BY DEF Writable, Bytes
  <2> QED
    BY <2>1, ByteAssumption DEF AnyLength
<1>3. ASSUME n <= max_buffer
      PROVE  Parse(raw \o rest) = Then([kind |-> "frame", raw |-> raw], Parse(rest))
  BY <1>3, Limits, WrittenTurn, ParsedIsTurns DEF Parse
<1>4. candidate_aux_frames(raw \o rest) =
        Then([kind |-> "frame", raw |-> raw], candidate_aux_frames(rest))
  BY <1>2, Limits, WrittenTurn, CandidatesIsTurns DEF candidate_aux_frames
<1> QED
  BY <1>1, <1>3, <1>4
=============================================================================
