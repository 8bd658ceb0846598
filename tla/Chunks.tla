------------------------------- MODULE Chunks -------------------------------
(***************************************************************************)
(* What the two AUX servers see of a TCP stream.  A frame is sent in two   *)
(* pieces; odd pieces begin a frame, even ones complete it, and TCP        *)
(* delivers them in chunks of any size.  A piece is the pair of its client *)
(* and its number in the client's stream.                                  *)
(***************************************************************************)
EXTENDS Naturals, Sequences

\* The pieces of client c from number i to number j.
Pieces(c, i, j) == [k \in 1 .. (j + 1) - i |-> <<c, (i + k) - 1>>]

\* The stream parser: the length in the first piece of a frame says it has
\* two; an incomplete frame stays in the buffer.
Whole(bytes) == [k \in 1 .. Len(bytes) \div 2 |-> <<bytes[(2 * k) - 1], bytes[2 * k]>>]
Rest(bytes) == SubSeq(bytes, (2 * (Len(bytes) \div 2)) + 1, Len(bytes))

\* The two pieces make one frame: what the checksum tells.
IsFrame(e) == e[1][1] = e[2][1] /\ e[2][2] = e[1][2] + 1 /\ e[2][2] % 2 = 0
FrameNumber(e) == e[2][2] \div 2
=============================================================================
