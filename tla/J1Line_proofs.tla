---------------------------- MODULE J1Line_proofs ----------------------------
(***************************************************************************)
(* Proofs about J1Line, for any threads and every bound on queries, lost   *)
(* bytes and noise.  IInv is the inductive invariant: who is in a          *)
(* transaction, and what the bytes on their way belong to.                 *)
(***************************************************************************)
EXTENDS J1Line, SequenceTheorems, TLAPS

Wire == Byte \cup {Noise}

\* Everything of a transaction that has been sent and not been dropped: read
\* by the thread, received, or on the line.
Flow(t) == (reader[t].got \o rx) \o line

\* s consists of bytes of the reply to query q, in their order, none twice.
InOrder(s, q) ==
  /\ \A i \in 1 .. Len(s) : s[i][1] = q /\ s[i][2] \in 1 .. 3
  /\ \A i, j \in 1 .. Len(s) : i < j => s[i][2] < s[j][2]

\* _transaction_lock is held by the thread that is in a transaction, and by
\* no other.
Exclusive ==
  /\ \A t \in Thread : reader[t].at # "idle" => owner = t
  /\ \A t \in Thread : reader[t].at # "reading" => reader[t].got = <<>>

\* Between the writes of a STOP its thread is in the transaction.
StopHeld ==
  \A t \in Thread : last_tx = <<"stop1", t>> => reader[t].at = "stopping"

\* Out of step is said of the firmware only, of it after every timeout, and
\* with no query under way.
LatchHolds ==
  /\ desynced => program = "firmware" /\ \A t \in Thread : reader[t].at # "reading"
  /\ program = "firmware" /\ timeouts > 0 => desynced

\* A query under way is none of those that timed out.
Counted ==
  /\ timeouts <= queries
  /\ \A t \in Thread : reader[t].at = "reading" => timeouts < queries

\* While nothing has gone wrong the bytes on their way belong to the query
\* under way, and without one there are none.
Clean ==
  noise = 0 /\ timeouts = 0 =>
    /\ \A t \in Thread : reader[t].at = "reading" => InOrder(Flow(t), reader[t].query)
    /\ (\A t \in Thread : reader[t].at # "reading") => rx = <<>> /\ line = <<>>

IInv ==
  /\ TypeOK /\ Exclusive /\ StopHeld /\ LatchHolds /\ Counted
  /\ Clean /\ OwnReply /\ MixedOnlyAfterTimeout

-----------------------------------------------------------------------------
(***************************************************************************)
(* Lemmas about sequences of bytes.                                        *)
(***************************************************************************)

\* Moving the first element of b to the end of a changes nothing of a \o b.
LEMMA Shift ==
  ASSUME NEW S, NEW a \in Seq(S), NEW b \in Seq(S), b # <<>>
  PROVE  /\ Append(a, Head(b)) \in Seq(S) /\ Tail(b) \in Seq(S)
         /\ Append(a, Head(b)) \o Tail(b) = a \o b
  <1> DEFINE l == Append(a, Head(b)) \o Tail(b)
             r == a \o b
  <1>1. /\ Head(b) \in S /\ Tail(b) \in Seq(S) /\ Len(b) \in Nat \ {0}
        /\ Len(Tail(b)) = Len(b) - 1 /\ Head(b) = b[1]
        /\ \A i \in 1 .. Len(Tail(b)) : Tail(b)[i] = b[i + 1]
    BY HeadTailProperties, EmptySeq
  <1>2. /\ Append(a, Head(b)) \in Seq(S)
        /\ Len(Append(a, Head(b))) = Len(a) + 1
        /\ \A i \in 1 .. Len(a) : Append(a, Head(b))[i] = a[i]
        /\ Append(a, Head(b))[Len(a) + 1] = Head(b)
    BY <1>1, AppendProperties
  <1>3. /\ l \in Seq(S) /\ Len(l) = Len(a) + 1 + (Len(b) - 1)
        /\ \A i \in 1 .. Len(l) : l[i] = IF i <= Len(a) + 1 THEN Append(a, Head(b))[i]
                                                  ELSE Tail(b)[i - (Len(a) + 1)]
    BY <1>1, <1>2, ConcatProperties
  <1>4. /\ r \in Seq(S) /\ Len(r) = Len(a) + Len(b)
        /\ \A i \in 1 .. Len(r) : r[i] = IF i <= Len(a) THEN a[i] ELSE b[i - Len(a)]
    BY ConcatProperties
  <1>5. Len(a) \in Nat
    BY LenProperties
  <1>6. Len(l) = Len(r)
    BY <1>1, <1>3, <1>4, <1>5
  <1>7. ASSUME NEW i \in 1 .. Len(l)  PROVE l[i] = r[i]
    <2>0. i \in Nat /\ i >= 1 /\ i <= Len(a) + Len(b)
      BY <1>1, <1>3, <1>5
    <2>1. CASE i <= Len(a)
      BY <2>0, <2>1, <1>2, <1>3, <1>4, <1>5, <1>6
    <2>2. CASE i = Len(a) + 1
      BY <2>0, <2>2, <1>1, <1>2, <1>3, <1>4, <1>5, <1>6
    <2>3. CASE i > Len(a) + 1
      <3>1. i - (Len(a) + 1) \in 1 .. Len(Tail(b))
        BY <2>0, <2>3, <1>1, <1>5
      <3>2. l[i] = b[i - (Len(a) + 1) + 1]
        BY <2>0, <2>3, <3>1, <1>1, <1>3, <1>5
      <3>3. r[i] = b[i - Len(a)]
        BY <2>0, <2>3, <1>4, <1>5, <1>6
      <3>4. i - (Len(a) + 1) + 1 = i - Len(a)
        BY <2>0, <1>5
      <3> QED BY <3>2, <3>3, <3>4
    <2> QED BY <2>0, <2>1, <2>2, <2>3, <1>5
  <1>8. l = r
    BY <1>3, <1>4, <1>6, <1>7, SeqEqual
  <1> QED BY <1>1, <1>2, <1>8

\* A byte that arrives keeps its place among those of the transaction.
LEMMA ArrivalInOrder ==
  ASSUME NEW p \in Seq(Wire), NEW a \in Seq(Wire), NEW b \in Seq(Wire), b # <<>>,
         NEW q, InOrder((p \o a) \o b, q)
  PROVE  InOrder((p \o Append(a, Head(b))) \o Tail(b), q)
  <1> DEFINE x == Append(a, Head(b))
             y == Tail(b)
  <1>1. x \in Seq(Wire) /\ y \in Seq(Wire) /\ x \o y = a \o b
    BY Shift
  <1> HIDE DEF x, y
  <1>2. x \in Seq(Wire) /\ y \in Seq(Wire)
    BY <1>1
  <1>3. (p \o x) \o y = p \o (x \o y)
    BY <1>2
  <1>4. (p \o a) \o b = p \o (a \o b)
    OBVIOUS
  <1> QED BY <1>1, <1>3, <1>4 DEF x, y

\* A thread's bytes are a sequence of at most three, and one more is still
\* one when there were fewer.
LEMMA GotTypes ==
  ASSUME NEW r \in Reader
  PROVE  /\ r.got \in Seq(Wire) /\ Len(r.got) \in 0 .. 3
         /\ \A b \in Wire : Len(r.got) < 3 =>
              [r EXCEPT !.got = Append(@, b)] \in Reader
  <1>1. PICK n \in 0 .. 3 : r.got \in [1 .. n -> Wire]
    BY DEF Reader, Wire
  <1>2. r.got \in Seq(Wire) /\ Len(r.got) = n
    BY <1>1
  <1>3. ASSUME NEW b \in Wire, Len(r.got) < 3
        PROVE  [r EXCEPT !.got = Append(@, b)] \in Reader
    <2>1. /\ Append(r.got, b) \in Seq(Wire)
          /\ Len(Append(r.got, b)) = n + 1
      BY <1>2, AppendProperties
    <2>2. n + 1 \in 0 .. 3
      BY <1>2, <1>3
    <2>3. Append(r.got, b) \in [1 .. Len(Append(r.got, b)) -> Wire]
      BY <2>1, LenProperties
    <2>4. Append(r.got, b) \in [1 .. n + 1 -> Wire]
      BY <2>1, <2>3
    <2> QED BY <2>2, <2>4 DEF Reader, Wire
  <1> QED BY <1>2, <1>3

\* A byte that is lost leaves the others in their order.
LEMMA OrderKept ==
  ASSUME NEW p \in Seq(Wire), NEW l \in Seq(Wire), l # <<>>, NEW q,
         InOrder(p \o l, q)
  PROVE  InOrder(p \o Tail(l), q)
  <1> DEFINE s == p \o l
             u == p \o Tail(l)
  <1>1. /\ Tail(l) \in Seq(Wire) /\ Len(l) \in Nat \ {0} /\ Len(Tail(l)) = Len(l) - 1
        /\ \A i \in 1 .. Len(Tail(l)) : Tail(l)[i] = l[i + 1]
    BY HeadTailProperties, EmptySeq
  <1>2. Len(p) \in Nat
    BY LenProperties
  <1>3. /\ Len(s) = Len(p) + Len(l)
        /\ \A i \in 1 .. Len(p) + Len(l) : s[i] = IF i <= Len(p) THEN p[i] ELSE l[i - Len(p)]
    BY ConcatProperties
  <1>4. /\ Len(u) = Len(p) + (Len(l) - 1)
        /\ \A i \in 1 .. Len(u) : u[i] = IF i <= Len(p) THEN p[i] ELSE Tail(l)[i - Len(p)]
    BY <1>1, ConcatProperties
  <1> DEFINE at(i) == IF i <= Len(p) THEN i ELSE i + 1
  <1>5. ASSUME NEW i \in 1 .. Len(u)
        PROVE  at(i) \in 1 .. Len(s) /\ u[i] = s[at(i)]
    <2>1. CASE i <= Len(p)
      BY <2>1, <1>1, <1>2, <1>3, <1>4
    <2>2. CASE ~(i <= Len(p))
      <3>1. i - Len(p) \in 1 .. Len(Tail(l)) /\ i + 1 \in 1 .. Len(s)
        BY <2>2, <1>1, <1>2, <1>3, <1>4
      <3>2. u[i] = l[(i - Len(p)) + 1] /\ s[i + 1] = l[(i + 1) - Len(p)]
        BY <2>2, <3>1, <1>1, <1>2, <1>3, <1>4
      <3>3. (i - Len(p)) + 1 = (i + 1) - Len(p)
        BY <1>2
      <3> QED BY <2>2, <3>1, <3>2, <3>3
    <2> QED BY <2>1, <2>2
  <1>6. \A i, j \in 1 .. Len(u) : i < j => at(i) < at(j)
    BY <1>1, <1>2, <1>4
  <1> HIDE DEF s, u, at
  <1>7. /\ \A i \in 1 .. Len(s) : s[i][1] = q /\ s[i][2] \in 1 .. 3
        /\ \A i, j \in 1 .. Len(s) : i < j => s[i][2] < s[j][2]
    BY DEF InOrder, s
  <1>8. /\ \A i \in 1 .. Len(u) : u[i][1] = q /\ u[i][2] \in 1 .. 3
        /\ \A i, j \in 1 .. Len(u) : i < j => u[i][2] < u[j][2]
    BY <1>5, <1>6, <1>7
  <1> QED BY <1>8 DEF InOrder, u

\* Three bytes of one reply, in their order, are the reply and all of it.
LEMMA WholeFrame ==
  ASSUME NEW g \in Seq(Wire), NEW u \in Seq(Wire), NEW q, Len(g) = 3,
         InOrder(g \o u, q)
  PROVE  g = Frame(q) /\ u = <<>>
  <1> DEFINE s == g \o u
  <1>0. /\ Len(u) \in Nat /\ Len(s) = Len(g) + Len(u)
        /\ \A i \in 1 .. Len(g) + Len(u) : s[i] = IF i <= Len(g) THEN g[i] ELSE u[i - Len(g)]
    BY ConcatProperties, LenProperties
  <1>1. /\ Len(u) \in Nat /\ Len(s) = 3 + Len(u)
        /\ \A i \in 1 .. 3 : s[i] = g[i]
    BY <1>0
  <1>2. /\ \A i \in 1 .. Len(s) : s[i][1] = q /\ s[i][2] \in 1 .. 3
        /\ \A i, j \in 1 .. Len(s) : i < j => s[i][2] < s[j][2]
    BY DEF InOrder
  <1> HIDE DEF s
  <1>3. /\ 1 \in 1 .. Len(s) /\ 2 \in 1 .. Len(s) /\ 3 \in 1 .. Len(s)
    BY <1>1
  <1>4. /\ s[1][2] \in 1 .. 3 /\ s[2][2] \in 1 .. 3 /\ s[3][2] \in 1 .. 3
        /\ s[1][2] < s[2][2] /\ s[2][2] < s[3][2]
    BY <1>2, <1>3
  <1>5. s[1][2] = 1 /\ s[2][2] = 2 /\ s[3][2] = 3
    BY <1>4
  <1>6. Len(u) = 0
    <2>1. SUFFICES ASSUME Len(u) # 0 PROVE FALSE
      OBVIOUS
    <2>2. 4 \in 1 .. Len(s)
      BY <2>1, <1>1
    <2>3. s[4][2] \in 1 .. 3 /\ s[3][2] < s[4][2]
      BY <2>2, <1>2, <1>3
    <2> QED BY <2>3, <1>5
  <1>7. u = <<>>
    BY <1>6, EmptySeq
  <1>8. \A i \in 1 .. 3 : g[i] \in Wire
    BY ElementOfSeq
  <1>9. \A i \in 1 .. 3 : g[i] = <<g[i][1], g[i][2]>>
    BY <1>8 DEF Wire, Byte, Noise
  <1>10. g[1] = <<q, 1>> /\ g[2] = <<q, 2>> /\ g[3] = <<q, 3>>
    BY <1>1, <1>2, <1>3, <1>5, <1>9
  <1>11. g = <<g[1], g[2], g[3]>>
    OBVIOUS
  <1> QED BY <1>7, <1>10, <1>11 DEF Frame

\* A query that has just been sent has its whole reply ahead of it.
LEMMA FreshFlow ==
  ASSUME NEW q \in 1 .. MaxQueries
  PROVE  Frame(q) \in Seq(Byte) /\ InOrder((<<>> \o <<>>) \o (<<>> \o Frame(q)), q)
  <1>1. Frame(q) \in Seq(Byte)
    BY DEF Frame, Byte
  <1>2. (<<>> \o <<>>) \o (<<>> \o Frame(q)) = Frame(q)
    BY <1>1, ConcatEmptySeq, EmptySeq
  <1>3. InOrder(Frame(q), q)
    BY DEF InOrder, Frame
  <1> QED BY <1>1, <1>2, <1>3

-----------------------------------------------------------------------------
\* Init establishes the inductive invariant.
LEMMA InitIInv == Init => IInv
  <1> SUFFICES ASSUME Init PROVE IInv
    OBVIOUS
  <1> USE DEF Init
  <1>1. Idle \in Reader
    BY BoundAssumption DEF Idle, Reader
  <1>2. TypeOK
    <2>1. reader \in [Thread -> Reader]
      BY <1>1
    <2>2. line \in Seq(Byte) /\ rx \in Seq(Byte \cup {Noise})
      BY EmptySeq
    <2>3. /\ result.status = "none" /\ result.query \in 0 .. MaxQueries
          /\ queries \in 0 .. MaxQueries /\ timeouts \in 0 .. MaxQueries
          /\ lost \in 0 .. MaxLost /\ noise \in 0 .. MaxNoise
      BY BoundAssumption DEF NoResult
    <2>4. last_tx \in {"none", "query", "stop1", "stop2"} \X (Thread \cup {NoThread})
      OBVIOUS
    <2> QED BY <2>1, <2>2, <2>3, <2>4 DEF TypeOK
  <1>3. Exclusive /\ StopHeld /\ LatchHolds /\ Counted
    BY DEF Exclusive, StopHeld, LatchHolds, Counted, Idle
  <1>4. Clean
    BY DEF Clean, Idle
  <1>5. OwnReply /\ MixedOnlyAfterTimeout
    BY DEF OwnReply, MixedOnlyAfterTimeout, Own, NoResult
  <1> QED BY <1>2, <1>3, <1>4, <1>5 DEF IInv

\* What a thread holds, what was received and what is on the line are
\* sequences of bytes.
LEMMA Pieces ==
  ASSUME TypeOK, NEW t \in Thread
  PROVE  /\ reader[t] \in Reader
         /\ reader[t].got \in Seq(Wire) /\ Len(reader[t].got) \in 0 .. 3
         /\ rx \in Seq(Wire) /\ line \in Seq(Wire) /\ line \in Seq(Byte)
  <1>1. reader[t] \in Reader
    BY DEF TypeOK
  <1>2. line \in Seq(Byte) /\ rx \in Seq(Wire) /\ Byte \subseteq Wire
    BY DEF TypeOK, Wire
  <1> QED BY <1>1, <1>2, GotTypes, SeqMonotonic

\* The line delivers, loses and adds bytes: the programs see nothing of it,
\* and the bytes under way keep their order.
LEMMA LineStep ==
  ASSUME IInv, Arrives \/ IsLost \/ NoiseArrives
  PROVE  IInv'
  <1> USE DEF LineOnly
  <1>1. UNCHANGED <<program, owner, reader, last_tx, result, desynced, queries, timeouts>>
    BY DEF Arrives, IsLost, NoiseArrives
  <1>2. noise' = 0 => noise = 0
    BY BoundAssumption DEF IInv, TypeOK, Arrives, IsLost, NoiseArrives
  <1>3. /\ line \in Seq(Byte) /\ line \in Seq(Wire) /\ rx \in Seq(Wire)
    <2>1. Byte \subseteq Wire
      BY DEF Wire
    <2> QED BY <2>1, SeqMonotonic DEF IInv, TypeOK, Wire
  <1>4. /\ line' \in Seq(Byte) /\ rx' \in Seq(Wire)
        /\ lost' \in 0 .. MaxLost /\ noise' \in 0 .. MaxNoise
    <2>1. CASE Arrives
      BY <1>3, <2>1, HeadTailProperties, AppendProperties DEF IInv, TypeOK, Arrives, Wire
    <2>2. CASE IsLost
      BY <1>3, <2>2, HeadTailProperties, BoundAssumption DEF IInv, TypeOK, IsLost
    <2>3. CASE NoiseArrives
      BY <1>3, <2>3, AppendProperties, BoundAssumption
      DEF IInv, TypeOK, NoiseArrives, Wire
    <2> QED BY <2>1, <2>2, <2>3
  <1>5. TypeOK'
    BY <1>1, <1>4 DEF IInv, TypeOK, Wire
  <1>6. (Exclusive /\ StopHeld /\ LatchHolds /\ Counted)'
    BY <1>1 DEF IInv, Exclusive, StopHeld, LatchHolds, Counted
  <1>7. (OwnReply /\ MixedOnlyAfterTimeout)'
    BY <1>1, <1>2 DEF IInv, OwnReply, MixedOnlyAfterTimeout, Own
  <1>8. Clean'
    <2> SUFFICES ASSUME noise' = 0, timeouts' = 0
                 PROVE  /\ \A t \in Thread : reader[t].at = "reading" =>
                             InOrder((reader[t].got \o rx') \o line', reader[t].query)
                        /\ (\A t \in Thread : reader[t].at # "reading") =>
                             rx' = <<>> /\ line' = <<>>
      BY <1>1 DEF Clean, Flow
    <2>1. /\ \A t \in Thread : reader[t].at = "reading" =>
               InOrder((reader[t].got \o rx) \o line, reader[t].query)
          /\ (\A t \in Thread : reader[t].at # "reading") => rx = <<>> /\ line = <<>>
      BY <1>1, <1>2 DEF IInv, Clean, Flow
    <2>2. ~NoiseArrives
      BY BoundAssumption DEF IInv, TypeOK, NoiseArrives
    <2>3. line # <<>>
      BY <2>2 DEF Arrives, IsLost
    <2>4. ASSUME NEW t \in Thread, reader[t].at = "reading"
          PROVE  InOrder((reader[t].got \o rx') \o line', reader[t].query)
      <3> DEFINE g == reader[t].got
                 q == reader[t].query
      <3>1. g \in Seq(Wire)
        BY Pieces DEF IInv
      <3>2. g \o rx \in Seq(Wire) /\ InOrder((g \o rx) \o line, q)
        BY <2>1, <2>4, <1>3, <3>1, ConcatProperties
      <3> HIDE DEF g, q
      <3>3. CASE Arrives
        <4>1. rx' = Append(rx, Head(line)) /\ line' = Tail(line)
          BY <3>3 DEF Arrives
        <4>2. InOrder((g \o Append(rx, Head(line))) \o Tail(line), q)
          <5>1. rx \in Seq(Wire) /\ line \in Seq(Wire) /\ InOrder((g \o rx) \o line, q)
            BY <1>3, <3>2
          <5> QED BY <5>1, <3>1, <2>3, ArrivalInOrder
        <4> QED BY <4>1, <4>2 DEF g, q
      <3>4. CASE IsLost
        <4>1. rx' = rx /\ line' = Tail(line)
          BY <3>4 DEF IsLost
        <4>2. InOrder((g \o rx) \o Tail(line), q)
          BY <3>2, <1>3, <2>3, OrderKept
        <4> QED BY <4>1, <4>2 DEF g, q
      <3> QED BY <2>2, <3>3, <3>4
    <2> QED BY <2>1, <2>3, <2>4
  <1> QED BY <1>5, <1>6, <1>7, <1>8 DEF IInv

\* A query that is sent finds nothing on its way while nothing has gone
\* wrong, so that everything on its way is its reply.
LEMMA QueryStep ==
  ASSUME IInv, NEW t \in Thread, Query(t)
  PROVE  IInv'
  <1> DEFINE r == [at |-> "reading", query |-> queries', got |-> <<>>]
  <1>0. /\ TypeOK /\ Exclusive /\ LatchHolds /\ Counted /\ Clean /\ owner = NoThread
        /\ queries' = queries + 1 /\ queries' \in 1 .. MaxQueries
        /\ owner' = t /\ reader' = [reader EXCEPT ![t] = r]
        /\ line' = line \o Frame(queries') /\ last_tx' = <<"query", t>>
        /\ program' = program /\ rx' = rx /\ result' = result
        /\ desynced' = desynced /\ timeouts' = timeouts /\ lost' = lost /\ noise' = noise
    BY BoundAssumption DEF IInv, Query, MayBegin, Begins, env, TypeOK
  <1>1. \A u \in Thread : reader[u].at = "idle"
    BY <1>0, ThreadAssumption DEF Exclusive
  <1>2. ~desynced
    BY <1>0 DEF Query, InStep, LatchHolds
  <1>3. r \in Reader
    BY <1>0, BoundAssumption DEF Reader
  <1>4. /\ reader'[t] = r /\ \A u \in Thread : u # t => reader'[u] = reader[u]
        /\ reader' \in [Thread -> Reader]
    BY <1>0, <1>3 DEF TypeOK
  <1>5. Frame(queries') \in Seq(Byte)
    BY <1>0, FreshFlow
  <1>6. TypeOK'
    <2>1. line' \in Seq(Byte)
      BY <1>0, <1>5, ConcatProperties DEF TypeOK
    <2> QED BY <1>0, <1>4, <2>1, BoundAssumption DEF TypeOK
  <1>7. (Exclusive /\ StopHeld)'
    BY <1>0, <1>1, <1>4 DEF Exclusive, StopHeld
  <1>8. LatchHolds'
    BY <1>0, <1>2 DEF LatchHolds
  <1>9. Counted'
    BY <1>0, <1>1, <1>4 DEF Counted, TypeOK
  <1>10. (OwnReply /\ MixedOnlyAfterTimeout)'
    BY <1>0 DEF IInv, OwnReply, MixedOnlyAfterTimeout, Own
  <1>11. Clean'
    <2> SUFFICES ASSUME noise = 0, timeouts = 0
                 PROVE  InOrder((<<>> \o rx) \o line', queries')
      BY <1>0, <1>1, <1>4 DEF Clean, Flow
    <2>1. rx = <<>> /\ line = <<>>
      BY <1>0, <1>1 DEF Clean
    <2> QED BY <1>0, <2>1, FreshFlow
  <1> QED BY <1>6, <1>7, <1>8, <1>9, <1>10, <1>11 DEF IInv

\* A byte a thread reads leaves rx and joins those it holds.
LEMMA ReadsStep ==
  ASSUME IInv, NEW t \in Thread, Reads(t)
  PROVE  IInv'
  <1> DEFINE r == [reader[t] EXCEPT !.got = Append(@, Head(rx))]
  <1>0. /\ TypeOK /\ Exclusive /\ StopHeld /\ LatchHolds /\ Counted /\ Clean
        /\ reader[t].at = "reading" /\ Len(reader[t].got) < 3 /\ rx # <<>>
        /\ reader' = [reader EXCEPT ![t] = r] /\ rx' = Tail(rx)
        /\ program' = program /\ owner' = owner /\ line' = line /\ last_tx' = last_tx
        /\ result' = result /\ desynced' = desynced /\ queries' = queries
        /\ timeouts' = timeouts /\ lost' = lost /\ noise' = noise
    BY DEF IInv, Reads, env
  <1>1. /\ reader[t] \in Reader /\ reader[t].got \in Seq(Wire)
        /\ rx \in Seq(Wire) /\ line \in Seq(Wire)
    BY <1>0, Pieces
  <1>2. /\ Append(reader[t].got, Head(rx)) \in Seq(Wire) /\ Tail(rx) \in Seq(Wire)
        /\ Append(reader[t].got, Head(rx)) \o Tail(rx) = reader[t].got \o rx
        /\ Head(rx) \in Wire
    <2> DEFINE g == reader[t].got
    <2>1. g \in Seq(Wire) /\ rx \in Seq(Wire) /\ rx # <<>>
      BY <1>0, <1>1
    <2> HIDE DEF g
    <2>2. /\ Append(g, Head(rx)) \in Seq(Wire) /\ Tail(rx) \in Seq(Wire)
          /\ Append(g, Head(rx)) \o Tail(rx) = g \o rx
      BY <2>1, Shift
    <2>3. Head(rx) \in Wire
      BY <2>1, HeadTailProperties
    <2> QED BY <2>2, <2>3 DEF g
  <1>3. /\ r \in Reader /\ r.at = "reading" /\ r.query = reader[t].query
        /\ r.got = Append(reader[t].got, Head(rx))
    <2>1. r \in Reader
      BY <1>0, <1>1, <1>2, GotTypes
    <2> QED BY <2>1, <1>0, <1>1 DEF Reader
  <1> HIDE DEF r
  <1>4. /\ reader'[t] = r /\ \A u \in Thread : u # t => reader'[u] = reader[u]
        /\ reader' \in [Thread -> Reader]
    BY <1>0, <1>3 DEF TypeOK
  <1>5. TypeOK'
    BY <1>0, <1>2, <1>4 DEF TypeOK, Wire
  <1>6. (Exclusive /\ StopHeld /\ LatchHolds /\ Counted)'
    BY <1>0, <1>3, <1>4 DEF Exclusive, StopHeld, LatchHolds, Counted
  <1>7. (OwnReply /\ MixedOnlyAfterTimeout)'
    BY <1>0 DEF IInv, OwnReply, MixedOnlyAfterTimeout, Own
  <1>8. Clean'
    <2> SUFFICES ASSUME noise = 0, timeouts = 0
                 PROVE  \A u \in Thread : reader'[u].at = "reading" =>
                          InOrder((reader'[u].got \o rx') \o line', reader'[u].query)
      BY <1>0, <1>3, <1>4 DEF Clean, Flow
    <2>1. \A u \in Thread : reader'[u].at = "reading" => u = t
      BY <1>0, <1>4 DEF Exclusive
    <2>2. InOrder((reader[t].got \o rx) \o line, reader[t].query)
      BY <1>0 DEF Clean, Flow
    <2>3. InOrder((reader'[t].got \o rx') \o line', reader'[t].query)
      BY <1>0, <1>2, <1>3, <1>4, <2>2
    <2> QED BY <2>1, <2>3
  <1> QED BY <1>5, <1>6, <1>7, <1>8 DEF IInv

\* A transaction that ends leaves everyone idle.
LEMMA EndsIdle ==
  ASSUME TypeOK, Exclusive, NEW t \in Thread, reader[t].at # "idle", Ends(t)
  PROVE  /\ owner' = NoThread /\ reader' \in [Thread -> Reader]
         /\ \A u \in Thread : reader'[u].at = "idle" /\ reader'[u].got = <<>>
  <1>1. /\ Idle \in Reader /\ Idle.at = "idle" /\ Idle.got = <<>>
    BY BoundAssumption DEF Idle, Reader
  <1>2. \A u \in Thread \ {t} : reader[u].at = "idle" /\ reader[u].got = <<>>
    BY DEF Exclusive
  <1> QED BY <1>1, <1>2 DEF Ends, TypeOK

\* A query that completes returns its own reply, in either program and as long
\* as nothing has gone wrong, and leaves nothing behind.
LEMMA CompletesStep ==
  ASSUME IInv, NEW t \in Thread, Completes(t)
  PROVE  IInv'
  <1>0. /\ TypeOK /\ Exclusive /\ StopHeld /\ LatchHolds /\ Counted /\ Clean
        /\ reader[t].at = "reading" /\ Len(reader[t].got) = 3 /\ Ends(t)
        /\ program' = program /\ rx' = rx /\ line' = line /\ last_tx' = last_tx
        /\ queries' = queries /\ timeouts' = timeouts /\ lost' = lost /\ noise' = noise
    BY DEF IInv, Completes, env
  <1>1. /\ owner' = NoThread /\ reader' \in [Thread -> Reader]
        /\ \A u \in Thread : reader'[u].at = "idle" /\ reader'[u].got = <<>>
    BY <1>0, EndsIdle
  <1>2. /\ result' \in [status : {"ok", "desync"}, query : {reader[t].query}, frame : {reader[t].got}]
    BY <1>0 DEF Completes, Returns, TypeOK
  <1>13. /\ desynced' \in BOOLEAN
         /\ desynced => desynced'
         /\ desynced' # desynced => program = "firmware"
    BY <1>0 DEF Completes, Returns, TypeOK
  <1>3. reader[t].query \in 0 .. MaxQueries
    BY <1>0 DEF TypeOK, Reader
  <1>4. TypeOK'
    <2>1. /\ result'.status \in {"none", "ok", "timeout", "partial", "desync"}
          /\ result'.query \in 0 .. MaxQueries
      BY <1>2, <1>3
    <2>2. desynced' \in BOOLEAN
      BY <1>13
    <2> QED BY <1>0, <1>1, <2>1, <2>2 DEF TypeOK
  <1>5. (Exclusive /\ Counted)'
    BY <1>0, <1>1 DEF Exclusive, Counted
  <1>6. StopHeld'
    <2>1. \A u \in Thread : last_tx # <<"stop1", u>>
      BY <1>0 DEF StopHeld, Exclusive
    <2> QED BY <2>1, <1>0 DEF StopHeld
  <1>7. LatchHolds'
    BY <1>0, <1>1, <1>13 DEF LatchHolds, TypeOK
  <1>8. noise = 0 /\ timeouts = 0
          => reader[t].got = Frame(reader[t].query) /\ rx = <<>> /\ line = <<>>
    <2> SUFFICES ASSUME noise = 0, timeouts = 0
                 PROVE  reader[t].got = Frame(reader[t].query) /\ rx = <<>> /\ line = <<>>
      OBVIOUS
    <2> DEFINE g == reader[t].got
               q == reader[t].query
    <2>1. /\ g \in Seq(Wire) /\ rx \in Seq(Wire) /\ line \in Seq(Wire) /\ Len(g) = 3
          /\ InOrder((g \o rx) \o line, q)
      BY <1>0, Pieces DEF Clean, Flow
    <2> HIDE DEF g, q
    <2>2. g = Frame(q) /\ rx \o line = <<>>
      <3>1. (g \o rx) \o line = g \o (rx \o line) /\ rx \o line \in Seq(Wire)
        <4>1. g \in Seq(Wire) /\ rx \in Seq(Wire) /\ line \in Seq(Wire)
          BY <2>1
        <4> QED BY <4>1
      <3>2. InOrder(g \o (rx \o line), q)
        BY <2>1, <3>1
      <3> QED BY <2>1, <3>1, <3>2, WholeFrame
    <2>3. rx = <<>> /\ line = <<>>
      <3>1. rx \in Seq(Wire) /\ line \in Seq(Wire) /\ rx \o line = <<>>
        BY <2>1, <2>2
      <3> QED BY <3>1, ConcatEqualIffEmpty
    <2> QED BY <2>2, <2>3 DEF g, q
  <1>9. Clean'
    BY <1>0, <1>1, <1>8 DEF Clean
  <1>10. program = "firmware" => timeouts = 0
    BY <1>0 DEF LatchHolds, TypeOK
  <1>11. (OwnReply /\ MixedOnlyAfterTimeout)'
    BY <1>0, <1>2, <1>8, <1>10 DEF OwnReply, MixedOnlyAfterTimeout, Own
  <1> QED BY <1>4, <1>5, <1>6, <1>7, <1>9, <1>11 DEF IInv

\* A query that gives up is counted, and latches the firmware.
LEMMA TimesOutStep ==
  ASSUME IInv, NEW t \in Thread, TimesOut(t)
  PROVE  IInv'
  <1>0. /\ TypeOK /\ Exclusive /\ StopHeld /\ LatchHolds /\ Counted
        /\ reader[t].at = "reading" /\ Ends(t)
        /\ program' = program /\ rx' = rx /\ line' = line /\ last_tx' = last_tx
        /\ queries' = queries /\ timeouts' = timeouts + 1 /\ lost' = lost /\ noise' = noise
        /\ desynced' = (desynced \/ program = "firmware")
    BY DEF IInv, TimesOut, Latches, env
  <1>1. /\ owner' = NoThread /\ reader' \in [Thread -> Reader]
        /\ \A u \in Thread : reader'[u].at = "idle" /\ reader'[u].got = <<>>
    BY <1>0, EndsIdle
  <1>2. result' \in [status : {"timeout", "partial"}, query : {reader[t].query}, frame : {reader[t].got}]
    BY DEF TimesOut, Returns
  <1>3. reader[t].query \in 0 .. MaxQueries /\ timeouts < queries
    BY <1>0 DEF TypeOK, Reader, Counted
  <1>4. timeouts' \in 1 .. MaxQueries /\ timeouts' <= queries'
    BY <1>0, <1>3, BoundAssumption DEF TypeOK
  <1>5. TypeOK'
    BY <1>0, <1>1, <1>2, <1>3, <1>4 DEF TypeOK
  <1>6. (Exclusive /\ Counted)'
    BY <1>0, <1>1, <1>4 DEF Exclusive, Counted
  <1>7. StopHeld'
    <2>1. \A u \in Thread : last_tx # <<"stop1", u>>
      BY <1>0 DEF StopHeld, Exclusive
    <2> QED BY <2>1, <1>0 DEF StopHeld
  <1>8. LatchHolds'
    BY <1>0, <1>1 DEF LatchHolds
  <1>9. Clean'
    BY <1>4 DEF Clean
  <1>10. (OwnReply /\ MixedOnlyAfterTimeout)'
    BY <1>0, <1>2 DEF OwnReply, MixedOnlyAfterTimeout, Own
  <1> QED BY <1>5, <1>6, <1>7, <1>8, <1>9, <1>10 DEF IInv

\* A query the firmware refuses returns nothing, and finds nobody reading.
LEMMA RefusedStep ==
  ASSUME IInv, NEW t \in Thread, QueryRefused(t)
  PROVE  IInv'
  <1>0. /\ TypeOK /\ Exclusive /\ StopHeld /\ LatchHolds /\ Counted /\ Clean
        /\ program = "firmware" /\ owner = NoThread /\ desynced' = TRUE
        /\ result' = [status |-> "desync", query |-> 0, frame |-> <<>>]
        /\ program' = program /\ owner' = owner /\ reader' = reader /\ rx' = rx
        /\ line' = line /\ last_tx' = last_tx /\ queries' = queries
        /\ timeouts' = timeouts /\ lost' = lost /\ noise' = noise
    BY ProgramAssumption DEF IInv, QueryRefused, MayBegin, InStep, env, TypeOK
  <1>1. TypeOK'
    BY <1>0, BoundAssumption DEF TypeOK
  <1>2. (Exclusive /\ StopHeld /\ Counted)'
    BY <1>0 DEF Exclusive, StopHeld, Counted
  <1>3. LatchHolds'
    BY <1>0, ThreadAssumption DEF LatchHolds, Exclusive
  <1>4. Clean'
    BY <1>0 DEF Clean, Flow
  <1>5. (OwnReply /\ MixedOnlyAfterTimeout)'
    BY <1>0 DEF OwnReply, MixedOnlyAfterTimeout, Own
  <1> QED BY <1>1, <1>2, <1>3, <1>4, <1>5 DEF IInv

\* A STOP takes the line for its two writes and reads nothing.
LEMMA StopStep ==
  ASSUME IInv, NEW t \in Thread, StopFirst(t) \/ StopSecond(t)
  PROVE  IInv'
  <1>0. /\ TypeOK /\ Exclusive /\ StopHeld /\ LatchHolds /\ Counted /\ Clean
        /\ program' = program /\ rx' = rx /\ line' = line /\ result' = result
        /\ desynced' = desynced /\ queries' = queries /\ timeouts' = timeouts
        /\ lost' = lost /\ noise' = noise
    BY DEF IInv, StopFirst, StopSecond, env
  <1>1. CASE StopFirst(t)
    <2>0. /\ owner = NoThread /\ owner' = t /\ last_tx' = <<"stop1", t>>
          /\ reader' = [reader EXCEPT ![t].at = "stopping"]
      BY <1>1 DEF StopFirst, MayBegin, Begins
    <2>1. \A u \in Thread : reader[u].at = "idle" /\ reader[u].got = <<>>
      BY <1>0, <2>0, ThreadAssumption DEF Exclusive
    <2>2. /\ reader' \in [Thread -> Reader] /\ reader'[t].at = "stopping"
          /\ reader'[t].got = <<>>
          /\ \A u \in Thread \ {t} : reader'[u] = reader[u]
      BY <1>0, <2>0, <2>1 DEF TypeOK, Reader
    <2>3. TypeOK'
      BY <1>0, <2>0, <2>2 DEF TypeOK
    <2>4. (Exclusive /\ StopHeld)'
      BY <2>0, <2>1, <2>2 DEF Exclusive, StopHeld
    <2>5. (LatchHolds /\ Counted /\ Clean)'
      BY <1>0, <2>1, <2>2 DEF LatchHolds, Counted, Clean
    <2>6. (OwnReply /\ MixedOnlyAfterTimeout)'
      BY <1>0 DEF IInv, OwnReply, MixedOnlyAfterTimeout, Own
    <2> QED BY <2>3, <2>4, <2>5, <2>6 DEF IInv
  <1>2. CASE StopSecond(t)
    <2>0. reader[t].at = "stopping" /\ Ends(t) /\ last_tx' = <<"stop2", t>>
      BY <1>2 DEF StopSecond
    <2>1. /\ owner' = NoThread /\ reader' \in [Thread -> Reader]
          /\ \A u \in Thread : reader'[u].at = "idle" /\ reader'[u].got = <<>>
      BY <1>0, <2>0, EndsIdle
    <2>2. \A u \in Thread : reader[u].at # "reading"
      BY <1>0, <2>0 DEF Exclusive
    <2>3. TypeOK'
      BY <1>0, <2>0, <2>1 DEF TypeOK
    <2>4. (Exclusive /\ StopHeld)'
      BY <2>0, <2>1 DEF Exclusive, StopHeld
    <2>5. (LatchHolds /\ Counted /\ Clean)'
      BY <1>0, <2>1, <2>2 DEF LatchHolds, Counted, Clean
    <2>6. (OwnReply /\ MixedOnlyAfterTimeout)'
      BY <1>0 DEF IInv, OwnReply, MixedOnlyAfterTimeout, Own
    <2> QED BY <2>3, <2>4, <2>5, <2>6 DEF IInv
  <1> QED BY <1>1, <1>2

\* Every step keeps the inductive invariant.
LEMMA StepIInv == IInv /\ [Next]_vars => IInv'
  <1> SUFFICES ASSUME IInv, [Next]_vars PROVE IInv'
    OBVIOUS
  <1>1. CASE Arrives \/ IsLost \/ NoiseArrives
    BY <1>1, LineStep
  <1>2. ASSUME NEW t \in Thread, Uses(t)  PROVE IInv'
    BY <1>2, QueryStep, RefusedStep, ReadsStep, CompletesStep, TimesOutStep, StopStep DEF Uses
  <1>3. CASE UNCHANGED vars
    BY <1>3 DEF vars, IInv, TypeOK, Exclusive, StopHeld, LatchHolds, Counted, Clean, Flow,
       OwnReply, MixedOnlyAfterTimeout, Own
  <1> QED BY <1>1, <1>2, <1>3 DEF Next

\* The invariant holds of every behaviour.
LEMMA Inductive == Spec => []IInv
  BY InitIInv, StepIInv, PTL DEF Spec

-----------------------------------------------------------------------------
\* Positions are of the query that returns them: always in the firmware, and
\* in the driver as long as every query was answered in time, unless the line
\* invents bytes.
THEOREM PositionsAreOwn == Spec => []OwnReplies
  <1>1. IInv => OwnReplies
    BY DEF IInv, OwnReplies
  <1> QED BY <1>1, Inductive, PTL

\* No command of another thread comes between the two writes of a STOP.
THEOREM StopUninterrupted == Spec => DoubleStopTogether
  <1> DEFINE Together ==
        \A t \in Thread :
          last_tx = <<"stop1", t>> /\ last_tx' # last_tx => last_tx' = <<"stop2", t>>
  <1>1. ASSUME IInv, [Next]_vars  PROVE Together
    <2> SUFFICES ASSUME NEW t \in Thread, last_tx = <<"stop1", t>>, last_tx' # last_tx
                 PROVE  last_tx' = <<"stop2", t>>
      OBVIOUS
    <2>1. reader[t].at = "stopping" /\ owner = t /\ owner # NoThread
      BY <1>1, ThreadAssumption DEF IInv, StopHeld, Exclusive
    <2>2. PICK u \in Thread : Uses(u)
      BY <1>1 DEF Next, vars, Arrives, IsLost, NoiseArrives, LineOnly
    <2>3. StopSecond(u)
      BY <2>1, <2>2 DEF Uses, Query, QueryRefused, Reads, Completes, TimesOut, StopFirst, MayBegin
    <2>4. u = t
      BY <2>1, <2>3, <1>1 DEF IInv, Exclusive, StopSecond
    <2> QED BY <2>3, <2>4 DEF StopSecond
  <1>2. IInv /\ [Next]_vars => [Together]_vars
    BY <1>1
  <1> HIDE DEF Together
  <1>3. Spec => [][Together]_vars
    BY <1>2, Inductive, PTL DEF Spec
  <1> QED BY <1>3, PTL DEF DoubleStopTogether, Together

\* Once the firmware is out of step it sends nothing and returns no position.
THEOREM SilentOnceOutOfStep == Spec => SilentOutOfStep
  <1> DEFINE Silent ==
        desynced => /\ queries' = queries
                    /\ result' # result => result'.status # "ok"
  <1>1. ASSUME IInv, [Next]_vars  PROVE Silent
    <2> SUFFICES ASSUME desynced
                 PROVE  queries' = queries /\ (result' # result => result'.status # "ok")
      OBVIOUS
    <2>1. program = "firmware" /\ \A t \in Thread : reader[t].at # "reading"
      BY <1>1 DEF IInv, LatchHolds
    <2>2. CASE Arrives \/ IsLost \/ NoiseArrives \/ UNCHANGED vars
      BY <2>2 DEF Arrives, IsLost, NoiseArrives, LineOnly, vars
    <2>3. ASSUME NEW t \in Thread, Uses(t)
          PROVE  queries' = queries /\ (result' # result => result'.status # "ok")
      <3>1. ~Query(t)
        BY <2>1 DEF Query, InStep
      <3>2. ~Reads(t) /\ ~Completes(t) /\ ~TimesOut(t)
        BY <2>1 DEF Reads, Completes, TimesOut
      <3>3. CASE QueryRefused(t)
        BY <3>3 DEF QueryRefused
      <3>4. CASE StopFirst(t) \/ StopSecond(t)
        BY <3>4 DEF StopFirst, StopSecond
      <3> QED BY <2>3, <3>1, <3>2, <3>3, <3>4 DEF Uses
    <2> QED BY <1>1, <2>2, <2>3 DEF Next
  <1>2. IInv /\ [Next]_vars => [Silent]_vars
    BY <1>1
  <1> HIDE DEF Silent
  <1>3. Spec => [][Silent]_vars
    BY <1>2, Inductive, PTL DEF Spec
  <1> QED BY <1>3, PTL DEF SilentOutOfStep, Silent
=============================================================================
