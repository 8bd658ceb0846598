--------------------------- MODULE TcpServer_proofs ---------------------------
(***************************************************************************)
(* Proofs about TcpServer, for any clients and every bound.  IInv is the   *)
(* inductive invariant: which client the server is with, and which pieces  *)
(* of its stream are in the parser, in the events and answered.            *)
(***************************************************************************)
EXTENDS TcpServer, Integers, SequenceTheorems, TLAPS

-----------------------------------------------------------------------------
(***************************************************************************)
(* What a server may rely on when TCP cuts a stream of frames into chunks  *)
(* of any size.                                                            *)
(***************************************************************************)
\* Frame number k of client c, and what is left over of t pieces.
Frame(c, k) == <<<<c, 2 * k - 1>>, <<c, 2 * k>>>>
LeftOver(c, t) == IF t % 2 = 1 THEN <<<<c, t>>>> ELSE <<>>

\* The frames that n pieces more than t complete.
Completed(c, t, n) == [k \in 1 .. ((t + n) \div 2) - (t \div 2) |-> Frame(c, (t \div 2) + k)]

\* A frame is a whole one, of its client, and knows its number.
LEMMA FrameFacts ==
  ASSUME NEW c, NEW k \in Int
  PROVE  /\ IsFrame(Frame(c, k)) /\ Frame(c, k)[1][1] = c
         /\ FrameNumber(Frame(c, k)) = k
<1>1. /\ 2 * k = (2 * k - 1) + 1 /\ (2 * k) % 2 = 0 /\ (2 * k) \div 2 = k
  OBVIOUS
<1> QED
  BY <1>1 DEF IsFrame, Frame, FrameNumber

\* The complete frames among t pieces, and the piece left over.
LEMMA Halves ==
  ASSUME NEW t \in Nat
  PROVE  /\ t \div 2 \in Nat /\ t % 2 \in {0, 1}
         /\ t = 2 * (t \div 2) + (t % 2)
OBVIOUS

\* A subsequence of one element.
LEMMA OneElement ==
  ASSUME NEW S, NEW s \in Seq(S), NEW m \in 1 .. Len(s)
  PROVE  SubSeq(s, m, m) = <<s[m]>>
<1> DEFINE u == SubSeq(s, m, m)
<1>1. m \in Int /\ m - m + 1 = 1 /\ m <= m /\ m + 1 - 1 = m /\ \A i \in m .. m : s[i] \in S
  OBVIOUS
<1>2. u \in Seq(S) /\ Len(u) = 1 /\ u[1] = s[m]
  BY <1>1, SubSeqProperties
<1> HIDE DEF u
<1>3. u = <<s[m]>>
  BY <1>2
<1> QED
  BY <1>3 DEF u

\* Fed n more pieces of its client's stream, parser.py's feed yields the
\* frames that these complete, in order, and keeps the piece that still waits
\* for its other half.
THEOREM ChunkParsed ==
  ASSUME NEW c, NEW t \in Nat, NEW n \in Nat,
         NEW bytes, bytes = LeftOver(c, t) \o Pieces(c, t + 1, t + n)
  PROVE  /\ Whole(bytes) = Completed(c, t, n)
         /\ Rest(bytes) = LeftOver(c, t + n)
<1> DEFINE h == t % 2
           q == t \div 2
           P == Pieces(c, t + 1, t + n)
           L == (h + n) \div 2
<1>1. q \in Nat /\ h \in {0, 1} /\ t = 2 * q + h
  BY Halves
<1>2. P \in Seq({c} \X Nat) /\ Len(P) = n /\ \A k \in 1 .. n : P[k] = <<c, t + k>>
  <2>1. P = [k \in 1 .. n |-> <<c, t + k>>]
    <3>1. (t + n + 1) - (t + 1) = n /\ \A k \in 1 .. n : ((t + 1) + k) - 1 = t + k
      OBVIOUS
    <3> QED
      BY <3>1 DEF Pieces
  <2> HIDE DEF P
  <2> QED
    BY <2>1
<1>3. /\ LeftOver(c, t) \in Seq({c} \X Nat) /\ Len(LeftOver(c, t)) = h
      /\ h = 1 => LeftOver(c, t)[1] = <<c, t>>
  <2>1. CASE h = 1
    <3>1. <<c, t>> \in {c} \X Nat /\ LeftOver(c, t) = <<<<c, t>>>>
      BY <2>1 DEF LeftOver
    <3> HIDE DEF h
    <3> QED
      BY <2>1, <3>1
  <2>2. CASE h = 0
    <3>1. LeftOver(c, t) = <<>>
      BY <2>2 DEF LeftOver
    <3> HIDE DEF h
    <3> QED
      BY <2>2, <3>1
  <2> QED
    BY <1>1, <2>1, <2>2
<1> HIDE DEF h, q, P
<1>4. /\ bytes \in Seq({c} \X Nat) /\ Len(bytes) = h + n
      /\ \A i \in 1 .. h + n : bytes[i] = <<c, 2 * q + i>>
  <2>1. bytes \in Seq({c} \X Nat) /\ Len(bytes) = h + n
        /\ \A i \in 1 .. h + n : bytes[i] = IF i <= h THEN LeftOver(c, t)[i] ELSE P[i - h]
    <3> DEFINE S == {c} \X Nat
               K == LeftOver(c, t)
    <3>1. K \in Seq(S) /\ P \in Seq(S) /\ bytes = K \o P /\ Len(K) = h /\ Len(P) = n
      BY <1>2, <1>3 DEF P
    <3> HIDE DEF S, K
    <3>2. K \o P \in Seq(S) /\ Len(K \o P) = Len(K) + Len(P)
          /\ \A i \in 1 .. Len(K) + Len(P) :
               (K \o P)[i] = IF i <= Len(K) THEN K[i] ELSE P[i - Len(K)]
      BY <3>1, ConcatProperties
    <3> QED
      BY <3>1, <3>2 DEF S, K
  <2>2. ASSUME NEW i \in 1 .. h + n  PROVE bytes[i] = <<c, 2 * q + i>>
    <3>1. CASE i <= h
      <4>1. h = 1 /\ i = 1 /\ t = 2 * q + i
        BY <1>1, <3>1
      <4> QED
        BY <1>3, <2>1, <4>1
    <3>2. CASE i > h
      <4>1. i - h \in 1 .. n /\ t + (i - h) = 2 * q + i /\ ~(i <= h)
        BY <1>1, <3>2
      <4> QED
        BY <1>2, <2>1, <4>1
    <3>3. i <= h \/ i > h
      BY <1>1
    <3> QED
      BY <3>1, <3>2, <3>3
  <2> QED
    BY <2>1, <2>2
<1>5. /\ L \in Nat /\ (h + n) % 2 \in {0, 1} /\ h + n = 2 * L + ((h + n) % 2)
  BY <1>1, Halves
<1>6. (t + n) \div 2 = q + L /\ (t + n) % 2 = (h + n) % 2
  <2>1. t + n = 2 * q + (h + n)
    BY <1>1
  <2> QED
    BY <1>1, <1>5, <2>1
<1> HIDE DEF L
<1>7. Whole(bytes) = [k \in 1 .. L |-> Frame(c, q + k)]
  <2>1. Whole(bytes) = [k \in 1 .. L |-> <<bytes[(2 * k) - 1], bytes[2 * k]>>]
    BY <1>4 DEF Whole, L
  <2>2. ASSUME NEW k \in 1 .. L
        PROVE  <<bytes[(2 * k) - 1], bytes[2 * k]>> = Frame(c, q + k)
    <3>1. (2 * k) - 1 \in 1 .. h + n /\ 2 * k \in 1 .. h + n
          /\ 2 * q + ((2 * k) - 1) = 2 * (q + k) - 1 /\ 2 * q + 2 * k = 2 * (q + k)
      BY <1>1, <1>5
    <3> QED
      BY <1>4, <3>1 DEF Frame
  <2> QED
    BY <2>1, <2>2
<1>8. Rest(bytes) = LeftOver(c, t + n)
  <2>1. Rest(bytes) = SubSeq(bytes, 2 * L + 1, h + n)
    BY <1>4 DEF Rest, L
  <2>2. CASE (h + n) % 2 = 0
    <3>1. h + n < 2 * L + 1 /\ 2 * L + 1 \in Int /\ h + n \in Int
      BY <1>1, <1>5, <2>2
    <3>2. SubSeq(bytes, 2 * L + 1, h + n) = <<>>
      BY <3>1, SubSeqEmpty
    <3>3. ~((t + n) % 2 = 1)
      BY <1>6, <2>2
    <3> QED
      BY <2>1, <3>2, <3>3 DEF LeftOver
  <2>3. CASE (h + n) % 2 = 1
    <3>1. 2 * L + 1 = h + n /\ h + n \in 1 .. h + n
      BY <1>1, <1>5, <2>3
    <3>2. SubSeq(bytes, h + n, h + n) = <<bytes[h + n]>>
      BY <1>4, <3>1, OneElement
    <3>3. bytes[h + n] = <<c, t + n>>
      <4>1. 2 * q + (h + n) = t + n
        BY <1>1
      <4> QED
        BY <1>4, <3>1, <4>1
    <3> QED
      BY <1>6, <2>1, <2>3, <3>1, <3>2, <3>3 DEF LeftOver
  <2> QED
    BY <1>5, <2>2, <2>3
<1>9. ((t + n) \div 2) - q = L
  BY <1>1, <1>5, <1>6
<1> QED
  BY <1>7, <1>8, <1>9 DEF q, Completed

-----------------------------------------------------------------------------
(***************************************************************************)
(* The inductive invariant.                                                *)
(***************************************************************************)
\* The frames of c that have been taken out of the events of their chunk.
Handled(c) == (taken[c] \div 2) - (IF c = current THEN Len(events) ELSE 0)

\* The server is in handle_connection when it has a client, which is the one
\* it serves.  Before that nothing is read of a connection or answered on it.
Sessions ==
  /\ server \in {"receiving", "dispatching"} <=> current \in Client
  /\ \A c \in Client : conn[c] = "served" <=> c = current
  /\ \A c \in Client : conn[c] \in {"away", "knocking"} => taken[c] = 0 /\ replies[c] = <<>>
  /\ \A c \in Client : taken[c] <= sent[c]

\* The parser keeps the piece that waits for its other half; the events are
\* the last frames that have been read.
Stream ==
  /\ current \in Client =>
       /\ buffer = LeftOver(current, taken[current])
       /\ Handled(current) >= 0
       /\ \A i \in 1 .. Len(events) : events[i] = Frame(current, Handled(current) + i)
  /\ server = "dispatching" <=> events # <<>>

\* Only frames that have been handled are answered, in their order.
Ordered ==
  /\ RepliesInOrder
  /\ \A c \in Client : \A i \in 1 .. Len(replies[c]) : replies[c][i] <= Handled(c)

\* last_rx is as old as the client's silence, unless something of the client
\* is still to be read.
Quiet ==
  current \in Client =>
    /\ silence < IdleTimeouts
    /\ quiet = IF Unread = 0 THEN silence ELSE 0

IInv == TypeOK /\ Sessions /\ Stream /\ Ordered /\ Quiet

-----------------------------------------------------------------------------
\* What the types say of the client the server is with.
LEMMA CurrentTypes ==
  ASSUME TypeOK, Sessions, current \in Client
  PROVE  /\ taken[current] \in 0 .. MaxPieces /\ sent[current] \in 0 .. MaxPieces
         /\ Unread \in Nat /\ taken[current] + Unread <= MaxPieces
         /\ MaxPieces \in Nat /\ IdleTimeouts \in Nat \ {0}
         /\ replies[current] \in Seq(1 .. MaxPieces)
         /\ Len(events) \in Nat
  <1>1. /\ taken[current] \in 0 .. MaxPieces /\ sent[current] \in 0 .. MaxPieces
        /\ MaxPieces \in Nat /\ IdleTimeouts \in Nat \ {0}
        /\ taken[current] <= sent[current] /\ replies[current] \in Seq(1 .. MaxPieces)
    BY BoundAssumption DEF TypeOK, Sessions
  <1>2. Len(events) \in Nat
    BY LenProperties DEF TypeOK
  <1>3. sent[current] - taken[current] \in Nat
        /\ taken[current] + (sent[current] - taken[current]) <= MaxPieces
    BY <1>1
  <1> QED BY <1>1, <1>2, <1>3 DEF Unread

\* Nothing the stream depends on changes.
LEMMA StreamKept ==
  ASSUME Stream, Ordered, UNCHANGED <<server, current, taken, buffer, events, replies>>
  PROVE  Stream' /\ Ordered'
  BY DEF Stream, Ordered, Handled, RepliesInOrder

\* The server starts without a client and with nothing read.
LEMMA InitInv == Init => IInv
  <1> SUFFICES ASSUME Init PROVE IInv
    OBVIOUS
  <1>1. NoClient \notin Client /\ MaxPieces \in Nat /\ IdleTimeouts \in Nat \ {0} /\ MaxRaises \in Nat
    BY ClientAssumption, BoundAssumption
  <1>2. TypeOK
    <2>1. buffer \in Seq(Piece) /\ events \in Seq(Piece \X Piece)
      BY EmptySeq DEF Init
    <2>2. replies \in [Client -> Seq(1 .. MaxPieces)]
      <3>1. <<>> \in Seq(1 .. MaxPieces)
        BY EmptySeq
      <3> QED BY <3>1 DEF Init
    <2>3. /\ sent \in [Client -> 0 .. MaxPieces] /\ taken \in [Client -> 0 .. MaxPieces]
          /\ silence \in 0 .. IdleTimeouts /\ raises \in 0 .. MaxRaises /\ quiet \in 0 .. IdleTimeouts
      BY <1>1 DEF Init
    <2>4. /\ conn \in [Client -> {"away", "knocking", "served", "closed"}]
          /\ peer \in [Client -> {"open", "fin", "reset", "deaf"}]
      BY DEF Init
    <2> QED BY <2>1, <2>2, <2>3, <2>4 DEF Init, TypeOK
  <1>3. Sessions
    BY <1>1 DEF Init, Sessions
  <1>4. Stream
    BY <1>1 DEF Init, Stream
  <1>5. Ordered
    BY <1>1 DEF Init, Ordered, RepliesInOrder
  <1>6. Quiet
    BY <1>1 DEF Init, Quiet
  <1> QED BY <1>2, <1>3, <1>4, <1>5, <1>6 DEF IInv

-----------------------------------------------------------------------------
(***************************************************************************)
(* The clients and the main thread.                                        *)
(***************************************************************************)
\* A connection that waits is not looked at.
LEMMA StepConnects ==
  ASSUME IInv, NEW c \in Client, Connects(c)  PROVE IInv'
  <1> USE DEF Connects, ClientOnly, client_vars, session
  <1>1. TypeOK'
    BY DEF IInv, TypeOK
  <1>2. Sessions'
    BY DEF IInv, Sessions, TypeOK
  <1>3. Stream' /\ Ordered'
    BY StreamKept DEF IInv
  <1>4. Quiet'
    BY DEF IInv, Quiet, Unread
  <1> QED BY <1>1, <1>2, <1>3, <1>4 DEF IInv

\* What the client has just sent ends its silence.
LEMMA StepSends ==
  ASSUME IInv, NEW c \in Client, Sends(c)  PROVE IInv'
  <1> USE DEF Sends, ClientOnly, session
  <1>1. sent[c] \in 0 .. MaxPieces /\ sent[c] + 1 \in 0 .. MaxPieces
        /\ taken[c] \in 0 .. MaxPieces /\ IdleTimeouts \in Nat \ {0}
    BY BoundAssumption DEF IInv, TypeOK
  <1>2. TypeOK'
    BY <1>1 DEF IInv, TypeOK
  <1>3. Sessions'
    <2>1. \A d \in Client : taken[d] <= sent'[d]
      BY <1>1 DEF IInv, Sessions, TypeOK
    <2> QED BY <2>1 DEF IInv, Sessions
  <1>4. Stream' /\ Ordered'
    BY StreamKept DEF IInv
  <1>5. Quiet'
    <2> SUFFICES ASSUME current \in Client
                 PROVE  silence < IdleTimeouts /\ quiet' = IF Unread' = 0 THEN silence ELSE 0
      BY DEF Quiet
    <2>1. silence < IdleTimeouts /\ quiet = IF Unread = 0 THEN silence ELSE 0
      BY DEF IInv, Quiet
    <2>2. CASE c = current
      <3>1. sent'[current] = sent[current] + 1 /\ quiet' = 0 /\ Unread' = sent'[current] - taken[current]
        BY <2>2 DEF IInv, TypeOK, Unread
      <3>2. taken[current] <= sent[current]
        BY DEF IInv, Sessions
      <3>3. Unread' # 0
        BY <1>1, <2>2, <3>1, <3>2
      <3> QED BY <2>1, <3>1, <3>3
    <2>3. CASE c # current
      <3>1. Unread' = Unread /\ quiet' = quiet
        BY <2>3 DEF IInv, TypeOK, Unread
      <3> QED BY <2>1, <3>1
    <2> QED BY <2>2, <2>3
  <1> QED BY <1>2, <1>3, <1>4, <1>5 DEF IInv

\* Leaving, and whatever the main thread does, is seen by none of the
\* conjuncts but the types.
LEMMA StepElsewhere ==
  ASSUME IInv, TypeOK',
         UNCHANGED <<server, current, conn, sent, taken, buffer, events, replies, silence, quiet>>
  PROVE  IInv'
  <1>1. Sessions'
    BY DEF IInv, Sessions
  <1>2. Stream' /\ Ordered'
    BY StreamKept DEF IInv
  <1>3. Quiet'
    BY DEF IInv, Quiet, Unread
  <1> QED BY <1>1, <1>2, <1>3 DEF IInv

\* The end of a connection is seen by the server's own steps only.
LEMMA StepLeaves ==
  ASSUME IInv, NEW c \in Client, Leaves(c)  PROVE IInv'
  <1>1. TypeOK'
    BY DEF IInv, TypeOK, Leaves, ClientOnly, session
  <1> QED BY <1>1, StepElsewhere DEF Leaves, ClientOnly, session

\* The main thread has only its own state, and nothing of a session is left
\* when the server thread ends.
LEMMA StepMain ==
  ASSUME IInv, Looks \/ Advertises \/ StopIsSet \/ Stops \/ UNCHANGED vars  PROVE IInv'
  <1>1. CASE Looks \/ Advertises \/ StopIsSet \/ UNCHANGED vars
    <2> USE <1>1 DEF Looks, Advertises, StopIsSet, MainOnly, vars, client_vars, session
    <2>1. TypeOK'
      BY DEF IInv, TypeOK
    <2> QED BY <2>1, StepElsewhere
  <1>2. CASE Stops
    <2> USE <1>2 DEF Stops, client_vars, session
    <2>1. TypeOK'
      BY DEF IInv, TypeOK
    <2>2. Sessions'
      BY DEF IInv, Sessions
    <2>3. Stream'
      BY DEF IInv, Stream, Handled
    <2>4. Ordered'
      BY DEF IInv, Ordered, Handled, RepliesInOrder
    <2>5. Quiet'
      BY DEF IInv, Quiet, Unread
    <2> QED BY <2>1, <2>2, <2>3, <2>4, <2>5 DEF IInv
  <1> QED BY <1>1, <1>2

-----------------------------------------------------------------------------
(***************************************************************************)
(* The server thread.                                                      *)
(***************************************************************************)
\* A new session starts at the beginning of its client's stream.
LEMMA StepAccepts ==
  ASSUME IInv, NEW c \in Client, Accepts(c)  PROVE IInv'
  <1> USE DEF Accepts
  <1>1. /\ current \notin Client /\ taken[c] = 0 /\ replies[c] = <<>> /\ events = <<>>
        /\ IdleTimeouts \in Nat \ {0}
    BY BoundAssumption DEF IInv, Sessions, Stream
  <1>2. TypeOK'
    BY <1>1 DEF IInv, TypeOK
  <1>3. Sessions'
    BY <1>1 DEF IInv, Sessions, TypeOK
  <1>4. \A d \in Client : Handled(d)' = Handled(d)
    <2>1. Len(events) = 0 /\ 0 \div 2 = 0
      BY <1>1
    <2>2. \A d \in Client : taken[d] \div 2 \in Int
      BY DEF IInv, TypeOK
    <2> QED BY <1>1, <2>1, <2>2 DEF Handled
  <1>5. Stream'
    <2>1. buffer' = LeftOver(c, taken[c])
      <3>1. ~(0 % 2 = 1)
        OBVIOUS
      <3> QED BY <1>1, <3>1 DEF LeftOver
    <2>2. Handled(c)' = 0 /\ Len(events') = 0
      <3>1. 0 \div 2 = 0 /\ 0 - 0 = 0 /\ Len(<<>>) = 0
        OBVIOUS
      <3>2. taken'[c] = 0 /\ events' = <<>> /\ current' = c
        BY <1>1
      <3> QED BY <3>1, <3>2 DEF Handled
    <2> QED BY <1>1, <2>1, <2>2 DEF Stream
  <1>6. Ordered'
    BY <1>4 DEF IInv, Ordered, RepliesInOrder
  <1>7. Quiet'
    BY <1>1 DEF Quiet
  <1> QED BY <1>2, <1>3, <1>5, <1>6, <1>7 DEF IInv

\* However handle_connection is left, what is still in the events is handled.
LEMMA SessionOver ==
  ASSUME IInv, current \in Client, NEW where \in {"accepting", "dead"}, LeavesFor(where),
         UNCHANGED <<peer, sent, taken, buffer, replies, silence, stop_event, advertiser>>,
         raises' \in 0 .. MaxRaises, quiet' \in 0 .. IdleTimeouts
  PROVE  IInv'
  <1> USE DEF LeavesFor
  <1>0. NoClient \notin Client
    BY ClientAssumption
  <1>1. TypeOK'
    <2>1. conn' \in [Client -> {"away", "knocking", "served", "closed"}]
      BY DEF IInv, TypeOK
    <2>2. events' \in Seq(Piece \X Piece)
      BY EmptySeq
    <2>3. TypeOK
      BY DEF IInv
    <2> QED BY <2>1, <2>2, <2>3 DEF TypeOK
  <1>2. Sessions'
    <2>1. \A c \in Client : conn'[c] = IF c = current THEN "closed" ELSE conn[c]
      BY DEF IInv, TypeOK
    <2> QED BY <1>0, <2>1 DEF IInv, Sessions
  <1>3. Stream'
    BY <1>0 DEF Stream
  <1>4. Ordered'
    <2> SUFFICES ASSUME NEW c \in Client, NEW i \in 1 .. Len(replies[c])
                 PROVE  replies[c][i] <= Handled(c)'
      BY DEF IInv, Ordered, RepliesInOrder
    <2>1. /\ replies[c][i] <= Handled(c) /\ replies[c][i] \in 1 .. MaxPieces
          /\ taken[c] \in 0 .. MaxPieces /\ MaxPieces \in Nat
      <3>1. replies[c] \in Seq(1 .. MaxPieces)
        BY DEF IInv, TypeOK
      <3> QED BY <3>1, BoundAssumption, ElementOfSeq DEF IInv, Ordered, TypeOK
    <2>2. Len(events) \in Nat
      BY CurrentTypes DEF IInv
    <2>3. Handled(c)' = taken[c] \div 2
      <3>1. c # current'
        BY <1>0
      <3>2. taken[c] \div 2 \in Int
        BY <2>1
      <3> QED BY <3>1, <3>2 DEF Handled
    <2>4. Handled(c) <= taken[c] \div 2 /\ Handled(c) \in Int /\ taken[c] \div 2 \in Int
      BY <2>1, <2>2 DEF Handled
    <2> QED BY <2>1, <2>3, <2>4
  <1>5. Quiet'
    BY <1>0 DEF Quiet
  <1> QED BY <1>1, <1>2, <1>3, <1>4, <1>5 DEF IInv

\* What is read is appended to what the parser kept.
LEMMA StepReceives ==
  ASSUME IInv, NEW n \in 1 .. MaxPieces, Receives(n)  PROVE IInv'
  <1> DEFINE t == taken[current]
             bytes == buffer \o Pieces(current, t + 1, t + n)
             m == ((t + n) \div 2) - (t \div 2)
  <1>1. current \in Client /\ events = <<>> /\ server = "receiving"
    BY DEF Receives, IInv, Sessions, Stream
  <1>2. /\ t \in 0 .. MaxPieces /\ n \in 1 .. Unread /\ t + n <= MaxPieces /\ t \in Nat /\ n \in Nat
        /\ t + n <= sent[current] /\ MaxPieces \in Nat
    <2>1. n \in 1 .. Unread
      BY DEF Receives
    <2>2. /\ t \in 0 .. MaxPieces /\ sent[current] \in 0 .. MaxPieces
          /\ Unread \in Nat /\ t + Unread <= MaxPieces /\ MaxPieces \in Nat
          /\ Unread = sent[current] - t
      BY <1>1, CurrentTypes DEF IInv, Unread
    <2> HIDE DEF t
    <2> QED BY <2>1, <2>2
  <1>3. taken' = [taken EXCEPT ![current] = t + n] /\ taken'[current] = t + n
    BY <1>1 DEF Receives, IInv, TypeOK
  <1>4. buffer' = Rest(bytes) /\ events' = Whole(bytes)
        /\ server' = IF Whole(bytes) = <<>> THEN "receiving" ELSE "dispatching"
    BY DEF Receives
  <1>5. /\ Whole(bytes) = [k \in 1 .. m |-> Frame(current, (t \div 2) + k)]
        /\ Rest(bytes) = LeftOver(current, t + n)
    <2>1. bytes = LeftOver(current, t) \o Pieces(current, t + 1, t + n)
      BY <1>1 DEF IInv, Stream
    <2>2. t \in Nat /\ n \in Nat
      BY <1>2
    <2> HIDE DEF t, bytes, m
    <2>3. /\ Whole(bytes) = Completed(current, t, n)
          /\ Rest(bytes) = LeftOver(current, t + n)
      BY <2>1, <2>2, ChunkParsed
    <2> QED BY <2>3 DEF m, Completed
  <1>6. m \in Nat /\ (t + n) \div 2 \in Nat /\ t \div 2 \in Nat
        /\ \A k \in 1 .. m : /\ 2 * ((t \div 2) + k) - 1 \in 1 .. MaxPieces
                             /\ 2 * ((t \div 2) + k) \in 1 .. MaxPieces
    <2> HIDE DEF t
    <2> QED BY <1>2
  <1> HIDE DEF bytes, m, t
  <1>7. events' \in Seq(Piece \X Piece) /\ Len(events') = m
        /\ \A k \in 1 .. m : events'[k] = Frame(current, (t \div 2) + k)
    <2>1. \A k \in 1 .. m : Frame(current, (t \div 2) + k) \in Piece \X Piece
      BY <1>1, <1>6 DEF Frame, Piece
    <2>2. events' \in [1 .. m -> Piece \X Piece]
      BY <1>4, <1>5, <2>1
    <2> QED BY <1>4, <1>5, <1>6, <2>2
  <1>8. buffer' \in Seq(Piece)
    <2>1. CASE (t + n) % 2 = 1
      <3>1. <<current, t + n>> \in Piece
        BY <1>1, <1>2 DEF Piece
      <3> QED BY <1>4, <1>5, <2>1, <3>1 DEF LeftOver
    <2>2. CASE ~((t + n) % 2 = 1)
      BY <1>4, <1>5, <2>2 DEF LeftOver
    <2> QED BY <2>1, <2>2
  <1>9. TypeOK'
    <2>1. taken' \in [Client -> 0 .. MaxPieces] /\ silence' \in 0 .. IdleTimeouts
      BY <1>1, <1>2, <1>3, BoundAssumption DEF IInv, TypeOK, Receives, ResetsSilence
    <2>2. server' \in {"receiving", "dispatching"}
      BY <1>4
    <2> QED BY <1>7, <1>8, <2>1, <2>2 DEF IInv, TypeOK, Receives, client_vars
  <1>10. UNCHANGED <<current, conn, peer, sent, replies, quiet>> /\ silence' = 0
    BY DEF Receives, client_vars, ResetsSilence
  <1>11. \A c \in Client : c # current => taken'[c] = taken[c]
    BY <1>3 DEF IInv, TypeOK
  <1>12. Sessions'
    <2>1. server' \in {"receiving", "dispatching"}
      BY <1>4
    <2>2. \A c \in Client : taken'[c] <= sent[c]
      BY <1>2, <1>3, <1>11 DEF IInv, Sessions
    <2>3. conn[current] = "served"
      BY <1>1 DEF IInv, Sessions
    <2> QED BY <1>1, <1>10, <1>11, <2>1, <2>2, <2>3 DEF IInv, Sessions
  <1>13. Handled(current)' = t \div 2
    <2>1. Handled(current)' = ((t + n) \div 2) - m
      BY <1>3, <1>7, <1>10 DEF Handled
    <2> QED BY <1>6, <2>1 DEF m
  <1>14. Stream'
    <2>1. buffer' = LeftOver(current, taken'[current])
      BY <1>3, <1>4, <1>5
    <2>2. \A i \in 1 .. Len(events') : events'[i] = Frame(current, Handled(current)' + i)
      BY <1>7, <1>13
    <2>3. Handled(current)' >= 0
      BY <1>6, <1>13
    <2>4. server' = "dispatching" <=> events' # <<>>
      BY <1>4
    <2> QED BY <1>10, <2>1, <2>2, <2>3, <2>4 DEF Stream
  <1>15. \A c \in Client : Handled(c)' = Handled(c)
    <2>1. Handled(current) = t \div 2
      <3>1. Len(events) = 0
        BY <1>1
      <3> QED BY <1>6, <3>1 DEF Handled, t
    <2>2. ASSUME NEW c \in Client, c # current  PROVE Handled(c)' = Handled(c)
      BY <1>10, <1>11, <2>2 DEF Handled
    <2>3. ASSUME NEW c \in Client, c = current  PROVE Handled(c)' = Handled(c)
      BY <1>10, <1>13, <2>1, <2>3 DEF Handled
    <2> QED BY <2>2, <2>3
  <1>16. Ordered'
    BY <1>10, <1>15 DEF IInv, Ordered, RepliesInOrder
  <1>17. Quiet'
    <2>1. quiet = 0
      <3>1. Unread # 0
        BY <1>2
      <3> QED BY <1>1, <3>1 DEF IInv, Quiet
    <2>2. 0 < IdleTimeouts
      BY BoundAssumption
    <2> QED BY <1>10, <2>1, <2>2 DEF Quiet
  <1> QED BY <1>9, <1>12, <1>14, <1>16, <1>17 DEF IInv

\* A timeout adds to the client's silence, or ends the session.
LEMMA StepTimesOut ==
  ASSUME IInv, TimesOut  PROVE IInv'
  <1>1. current \in Client
    BY DEF IInv, Sessions, TimesOut
  <1>2. /\ silence \in Nat /\ silence < IdleTimeouts /\ quiet = silence /\ IdleTimeouts \in Nat
    BY <1>1, BoundAssumption DEF IInv, TypeOK, Quiet, TimesOut
  <1>3. quiet' = quiet + 1 /\ quiet' \in 0 .. IdleTimeouts
    BY <1>2 DEF TimesOut
  <1>4. CASE silence + 1 < IdleTimeouts
    <2>0. silence' = silence + 1 /\ UNCHANGED <<server, conn, active, current, events, peer, sent, taken,
                                              buffer, stop_event, advertiser, replies, raises>>
      BY <1>4 DEF TimesOut
    <2>1. TypeOK'
      BY <1>2, <1>3, <1>4, <2>0 DEF IInv, TypeOK
    <2>2. Sessions'
      BY <2>0 DEF IInv, Sessions
    <2>3. Stream' /\ Ordered'
      BY <2>0, StreamKept DEF IInv
    <2>4. Quiet'
      BY <1>2, <1>3, <1>4, <2>0 DEF Quiet, Unread, TimesOut
    <2> QED BY <2>1, <2>2, <2>3, <2>4 DEF IInv
  <1>5. CASE ~(silence + 1 < IdleTimeouts)
    <2>1. raises' \in 0 .. MaxRaises
      BY DEF IInv, TypeOK, TimesOut
    <2> QED BY <1>1, <1>3, <1>5, <2>1, SessionOver DEF TimesOut
  <1> QED BY <1>4, <1>5

\* The ways out of handle_connection but the idle timeout.
LEMMA StepSessionEnds ==
  ASSUME IInv, SessionEnds \/ ReplyRaises \/ DispatchRaises  PROVE IInv'
  <1>1. current \in Client
    BY DEF IInv, Sessions, SessionEnds, ReplyRaises, DispatchRaises
  <1>2. raises' \in 0 .. MaxRaises /\ quiet' \in 0 .. IdleTimeouts
    BY BoundAssumption DEF IInv, TypeOK, SessionEnds, ReplyRaises, DispatchRaises
  <1>3. PICK where \in {"accepting", "dead"} : LeavesFor(where)
    BY DEF SessionEnds, ReplyRaises, DispatchRaises
  <1>4. UNCHANGED <<peer, sent, taken, buffer, replies, silence, stop_event, advertiser>>
    BY DEF SessionEnds, ReplyRaises, DispatchRaises
  <1> QED BY <1>1, <1>2, <1>3, <1>4, SessionOver

\* The next of the events is taken, and it is the next frame of the client.
LEMMA OneHandled ==
  ASSUME IInv, server = "dispatching", NextEvent,
         UNCHANGED <<current, client_vars, taken, buffer, silence, active,
                     stop_event, advertiser, raises, quiet>>
  PROVE  /\ current \in Client
         /\ events' \in Seq(Piece \X Piece)
         /\ Handled(current) \in Nat /\ Handled(current)' = Handled(current) + 1
         /\ Handled(current)' \in 1 .. MaxPieces
         /\ Head(events) = Frame(current, Handled(current)')
         /\ \A c \in Client \ {current} : Handled(c)' = Handled(c)
         /\ Sessions' = (Sessions /\ \A c \in Client : conn[c] \in {"away", "knocking"} => replies'[c] = <<>>)
         /\ Stream' /\ Quiet'
         /\ server' \in {"receiving", "dispatching"}
  <1> DEFINE S == Piece \X Piece
             x == events'
             k == Len(events)
             h == Handled(current)
  <1>1. current \in Client /\ events # <<>>
    BY DEF IInv, Sessions, Stream
  <1>2. events \in Seq(S)
    BY DEF IInv, TypeOK
  <1> HIDE DEF S
  <1>3. /\ x \in Seq(S) /\ Len(x) = k - 1 /\ k \in Nat \ {0} /\ Head(events) = events[1]
        /\ \A i \in 1 .. Len(x) : x[i] = events[i + 1]
    <2>1. x = Tail(events)
      BY DEF NextEvent
    <2> QED BY <1>1, <1>2, <2>1, HeadTailProperties, EmptySeq
  <1>4. UNCHANGED <<current, taken, buffer, silence, quiet, conn, peer, sent>>
    BY DEF client_vars
  <1>5. taken[current] \in 0 .. MaxPieces /\ MaxPieces \in Nat
    BY <1>1, CurrentTypes DEF IInv
  <1>6. h \in Nat /\ h = (taken[current] \div 2) - k
    <2>1. h >= 0 /\ h = (taken[current] \div 2) - k
      BY <1>1 DEF IInv, Stream, Handled
    <2> HIDE DEF h, k
    <2>2. h \in Int
      BY <1>3, <1>5, <2>1
    <2> QED BY <2>1, <2>2
  <1>7. Handled(current)' = (taken[current] \div 2) - (k - 1)
    BY <1>3, <1>4 DEF Handled
  <1> HIDE DEF x, k, h
  <1>8. Handled(current)' = h + 1 /\ h + 1 \in 1 .. MaxPieces
    BY <1>3, <1>5, <1>6, <1>7
  <1>9. \A i \in 1 .. k : events[i] = Frame(current, h + i)
    BY <1>1 DEF IInv, Stream, k, h
  <1>10. Head(events) = Frame(current, h + 1)
    BY <1>3, <1>9
  <1>11. \A c \in Client \ {current} : Handled(c)' = Handled(c)
    BY <1>4 DEF Handled
  <1>12. server' = IF k = 1 THEN "receiving" ELSE "dispatching"
    BY DEF NextEvent, k
  <1>13. Stream'
    <2>1. buffer' = LeftOver(current, taken'[current])
      BY <1>1, <1>4 DEF IInv, Stream
    <2>2. Handled(current)' >= 0
      BY <1>6, <1>8
    <2>3. ASSUME NEW i \in 1 .. Len(x)  PROVE x[i] = Frame(current, (h + 1) + i)
      <3>1. i + 1 \in 1 .. k /\ h + (i + 1) = (h + 1) + i
        BY <1>3, <1>6
      <3> QED BY <1>3, <1>9, <3>1
    <2>4. server' = "dispatching" <=> x # <<>>
      <3>1. x # <<>> <=> Len(x) # 0
        BY <1>3
      <3> QED BY <1>3, <1>12, <3>1
    <2> QED BY <1>4, <1>8, <2>1, <2>2, <2>3, <2>4 DEF Stream, x
  <1>14. Quiet'
    BY <1>4 DEF IInv, Quiet, Unread
  <1>15. Sessions' = (Sessions /\ \A c \in Client : conn[c] \in {"away", "knocking"} => replies'[c] = <<>>)
    BY <1>1, <1>4, <1>12 DEF IInv, Sessions
  <1> QED BY <1>1, <1>3, <1>6, <1>8, <1>10, <1>11, <1>12, <1>13, <1>14, <1>15 DEF S, x, h

\* An event without an answer is handled all the same.
LEMMA StepSilent ==
  ASSUME IInv, DispatchesSilently  PROVE IInv'
  <1> USE DEF DispatchesSilently
  <1>1. /\ current \in Client
        /\ events' \in Seq(Piece \X Piece)
        /\ Handled(current) \in Nat /\ Handled(current)' = Handled(current) + 1
        /\ \A c \in Client \ {current} : Handled(c)' = Handled(c)
        /\ Sessions' = (Sessions /\ \A c \in Client : conn[c] \in {"away", "knocking"} => replies'[c] = <<>>)
        /\ Stream' /\ Quiet'
        /\ server' \in {"receiving", "dispatching"}
    BY OneHandled
  <1>2. TypeOK'
    BY <1>1 DEF IInv, TypeOK, client_vars
  <1>3. Sessions'
    BY <1>1 DEF IInv, Sessions
  <1>4. Ordered'
    <2>1. ASSUME NEW i \in 1 .. Len(replies[current])
          PROVE  replies[current][i] <= Handled(current)'
      <3>1. replies[current] \in Seq(1 .. MaxPieces)
        BY <1>1 DEF IInv, TypeOK
      <3>2. replies[current][i] \in 1 .. MaxPieces
        BY <3>1, ElementOfSeq
      <3>3. replies[current][i] <= Handled(current)
        BY <1>1 DEF IInv, Ordered
      <3> QED BY <1>1, <3>2, <3>3, BoundAssumption
    <2> QED BY <1>1, <2>1 DEF IInv, Ordered, RepliesInOrder
  <1> QED BY <1>1, <1>2, <1>3, <1>4 DEF IInv

\* The answer goes after those of earlier frames.
LEMMA StepAnswers ==
  ASSUME IInv, Answers  PROVE IInv'
  <1> DEFINE r == replies[current]
             h == Handled(current)
             s == Append(r, h + 1)
  <1>1. /\ current \in Client
        /\ events' \in Seq(Piece \X Piece)
        /\ h \in Nat /\ Handled(current)' = h + 1
        /\ Handled(current)' \in 1 .. MaxPieces
        /\ Head(events) = Frame(current, Handled(current)')
        /\ \A c \in Client \ {current} : Handled(c)' = Handled(c)
        /\ Sessions' = (Sessions /\ \A c \in Client : conn[c] \in {"away", "knocking"} => replies'[c] = <<>>)
        /\ Stream' /\ Quiet'
        /\ server' \in {"receiving", "dispatching"}
    BY OneHandled DEF Answers
  <1>2. FrameNumber(Head(events)) = h + 1
    BY <1>1, FrameFacts
  <1>3. replies' = [replies EXCEPT ![current] = s]
    BY <1>2 DEF Answers
  <1>4. r \in Seq(1 .. MaxPieces)
    BY <1>1 DEF IInv, TypeOK
  <1>5. /\ \A i \in 1 .. Len(r) : r[i] \in 1 .. MaxPieces /\ r[i] <= h
        /\ \A i, j \in 1 .. Len(r) : i < j => r[i] < r[j]
    BY <1>1, <1>4, ElementOfSeq DEF IInv, Ordered, RepliesInOrder
  <1> HIDE DEF r, h
  <1>6. /\ s \in Seq(1 .. MaxPieces) /\ Len(s) = Len(r) + 1 /\ Len(r) \in Nat
        /\ \A i \in 1 .. Len(r) : s[i] = r[i]
        /\ s[Len(r) + 1] = h + 1
    BY <1>1, <1>4, AppendProperties, LenProperties
  <1> HIDE DEF s
  <1>7. replies'[current] = s /\ \A c \in Client \ {current} : replies'[c] = replies[c]
    BY <1>1, <1>3 DEF IInv, TypeOK
  <1>8. TypeOK'
    <2>1. replies' \in [Client -> Seq(1 .. MaxPieces)]
      BY <1>3, <1>6 DEF IInv, TypeOK
    <2> QED BY <1>1, <2>1 DEF IInv, TypeOK, Answers, client_vars
  <1>9. Sessions'
    <2>1. conn[current] = "served"
      BY <1>1 DEF IInv, Sessions
    <2> QED BY <1>1, <1>7, <2>1 DEF IInv, Sessions
  <1>10. Ordered'
    <2>1. \A i \in 1 .. Len(s) : s[i] <= h + 1
      <3> SUFFICES ASSUME NEW i \in 1 .. Len(s)  PROVE s[i] <= h + 1
        OBVIOUS
      <3>1. CASE i \in 1 .. Len(r)
        BY <1>1, <1>5, <1>6, <3>1
      <3>2. CASE i = Len(r) + 1
        BY <1>1, <1>6, <3>2
      <3> QED BY <1>6, <3>1, <3>2
    <2>2. \A i, j \in 1 .. Len(s) : i < j => s[i] < s[j]
      <3> SUFFICES ASSUME NEW i \in 1 .. Len(s), NEW j \in 1 .. Len(s), i < j  PROVE s[i] < s[j]
        OBVIOUS
      <3>1. i \in 1 .. Len(r)
        BY <1>6
      <3>2. CASE j \in 1 .. Len(r)
        BY <1>5, <1>6, <3>1, <3>2
      <3>3. CASE j = Len(r) + 1
        BY <1>1, <1>5, <1>6, <3>1, <3>3
      <3> QED BY <1>6, <3>2, <3>3
    <2>3. ASSUME NEW c \in Client
          PROVE  /\ \A i \in 1 .. Len(replies'[c]) : replies'[c][i] <= Handled(c)'
                 /\ \A i, j \in 1 .. Len(replies'[c]) : i < j => replies'[c][i] < replies'[c][j]
      <3>1. CASE c = current
        <4>1. Handled(c)' = h + 1
          BY <1>1, <3>1 DEF Handled, Answers
        <4> QED BY <1>7, <2>1, <2>2, <3>1, <4>1
      <3>2. CASE c # current
        BY <1>1, <1>7, <3>2 DEF IInv, Ordered, RepliesInOrder
      <3> QED BY <3>1, <3>2
    <2> QED BY <2>3 DEF Ordered, RepliesInOrder
  <1> QED BY <1>1, <1>8, <1>9, <1>10 DEF IInv

-----------------------------------------------------------------------------
\* The inductive invariant holds: serve_until and handle_connection keep it at
\* every step, whatever the clients and the main thread do.
THEOREM Invariance == Spec => []IInv
  <1>1. ASSUME IInv, [Next]_vars  PROVE IInv'
    <2>1. CASE ClientSteps
      BY <1>1, <2>1, StepConnects, StepSends, StepLeaves DEF ClientSteps
    <2>2. CASE ServerSteps
      BY <1>1, <2>2, StepAccepts, StepReceives, StepTimesOut, StepSessionEnds, StepSilent,
         StepAnswers, StepMain DEF ServerSteps
    <2>3. CASE Looks \/ Advertises \/ StopIsSet \/ UNCHANGED vars
      BY <1>1, <2>3, StepMain
    <2> QED BY <1>1, <2>1, <2>2, <2>3 DEF Next
  <1> QED BY <1>1, InitInv, PTL DEF Spec

\* Sessions do not mix, however many connections there are and however TCP
\* cuts their streams: what is dispatched are whole frames of the client the
\* server is with, and each client is answered in the order of its frames.
THEOREM SessionsApart == Spec => []OwnFramesInOrder
  <1>1. IInv => OwnFramesInOrder
    <2> SUFFICES ASSUME IInv  PROVE OwnFrames
      BY DEF IInv, Ordered, OwnFramesInOrder
    <2> SUFFICES ASSUME NEW i \in 1 .. Len(events)
                 PROVE  IsFrame(events[i]) /\ events[i][1][1] = current
      BY DEF OwnFrames
    <2>1. events # <<>>
      OBVIOUS
    <2>2. current \in Client
      BY <2>1 DEF IInv, Stream, Sessions
    <2>3. events[i] = Frame(current, Handled(current) + i)
      BY <2>2 DEF IInv, Stream
    <2>4. Handled(current) + i \in Int
      <3>1. taken[current] \in 0 .. MaxPieces /\ MaxPieces \in Nat /\ Len(events) \in Nat
        BY <2>2, CurrentTypes DEF IInv
      <3> QED BY <3>1 DEF Handled
    <2> QED BY <2>3, <2>4, FrameFacts
  <1> QED BY <1>1, Invariance, PTL

\* The server drops no client that has sent something within the idle
\* timeout.
THEOREM TalkersKept == Spec => KeepsTalkers
  <1> DEFINE Kept ==
        \A c \in Client :
          conn[c] = "served" /\ conn'[c] = "closed" /\ peer[c] = "open"
            => stop_event \/ server' = "dead" \/ quiet' >= IdleTimeouts
  <1>1. ASSUME IInv, [Next]_vars  PROVE Kept
    <2> SUFFICES ASSUME NEW c \in Client, conn[c] = "served", conn'[c] = "closed", peer[c] = "open"
                 PROVE  stop_event \/ server' = "dead" \/ quiet' >= IdleTimeouts
      OBVIOUS
    <2>1. c = current /\ current \in Client
      BY <1>1 DEF IInv, Sessions
    <2>2. CASE ClientSteps
      <3>1. PICK d \in Client : conn' = conn \/ conn' = [conn EXCEPT ![d] = "knocking"]
        BY <2>2 DEF ClientSteps, Connects, Sends, Leaves
      <3> QED BY <1>1, <3>1 DEF IInv, TypeOK
    <2>3. CASE \E d \in Client : Accepts(d)
      BY <1>1, <2>1, <2>3 DEF Accepts, IInv, Sessions
    <2>4. CASE \E n \in 1 .. MaxPieces : Receives(n)
      BY <2>4 DEF Receives, client_vars
    <2>5. CASE TimesOut
      <3>1. silence + 1 >= IdleTimeouts
        <4>1. silence \in Nat /\ IdleTimeouts \in Nat
          BY <1>1, BoundAssumption DEF IInv, TypeOK
        <4>2. ~(silence + 1 < IdleTimeouts)
          BY <2>5 DEF TimesOut
        <4> QED BY <4>1, <4>2
      <3>2. quiet = silence
        BY <1>1, <2>1, <2>5 DEF IInv, Quiet, TimesOut
      <3> QED BY <2>5, <3>1, <3>2 DEF TimesOut
    <2>6. CASE SessionEnds
      BY <2>1, <2>6 DEF SessionEnds
    <2>7. CASE ReplyRaises \/ DispatchRaises
      BY <2>7 DEF ReplyRaises, DispatchRaises, LeavesFor
    <2>8. CASE DispatchesSilently \/ Answers \/ Stops \/ Looks \/ Advertises \/ StopIsSet
               \/ UNCHANGED vars
      BY <2>8 DEF DispatchesSilently, Answers, Stops, Looks, Advertises, StopIsSet, MainOnly,
                  client_vars, vars
    <2> QED BY <1>1, <2>2, <2>3, <2>4, <2>5, <2>6, <2>7, <2>8 DEF Next, ServerSteps
  <1>2. IInv /\ [Next]_vars => [Kept]_vars
    BY <1>1
  <1> HIDE DEF Kept
  <1>3. Spec => [][Kept]_vars
    BY <1>2, Invariance, PTL DEF Spec
  <1> QED BY <1>3, PTL DEF KeepsTalkers, Kept
=============================================================================
