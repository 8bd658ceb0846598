------------------------------ MODULE AuxParser ------------------------------
(***************************************************************************)
(* The three stream parsers of the AUX protocol on one and the same        *)
(* stream: AUXStreamParser.feed of the Python bridge, which takes a chunk  *)
(* at a time, AuxStreamParser::feedByte of the firmware, which takes a     *)
(* byte at a time and returns at most one event for it, and the parser of  *)
(* the passive network probe, which takes a chunk at a time, has no limit  *)
(* for a frame, and throws its buffer away before it parses when that is   *)
(* over a limit.                                                           *)
(*                                                                         *)
(* A frame is SOM, a length, that many bytes (a header of MIN_LENGTH of    *)
(* them, then the payload), and a checksum byte that makes the sum of all  *)
(* but SOM zero.  The bytes are the numbers below Base, so that a small    *)
(* Base leaves few of them; the code has Base = 256, SOM = 59 and          *)
(* MIN_LENGTH = 3.                                                         *)
(***************************************************************************)
EXTENDS Integers, Sequences

CONSTANTS
  Base,        \* number of different bytes
  SOM,
  MIN_LENGTH,
  max_buffer,
  max_parser_buffer,  \* ProbeConfig.max_parser_buffer
  MaxStream    \* bound on the bytes that arrive

ASSUME ByteAssumption ==
  /\ Base \in Nat /\ SOM \in 0 .. Base - 1
  /\ MIN_LENGTH \in Nat \ {0} /\ MIN_LENGTH < Base
ASSUME BufferAssumption ==
  /\ max_buffer \in Nat /\ max_buffer >= 3 + MIN_LENGTH
  /\ max_parser_buffer \in Nat \ {0}
ASSUME StreamAssumption == MaxStream \in Nat

VARIABLES
  stream,      \* all bytes that have arrived
  chunk,       \* the last of them, not yet fed to the Python parser
  py_buffer,   \* AUXStreamParser._buffer
  py_events,
  cpp_buffer,  \* AuxStreamParser::buffer_, its first length_ bytes
  cpp_events,
  probe_buffer,  \* NetworkProbe._aux_buffer
  probe_events,  \* what it found since it last threw its buffer away
  probe_from     \* the position in the stream from which it did

probe == <<probe_buffer, probe_events, probe_from>>
vars == <<stream, chunk, py_buffer, py_events, cpp_buffer, cpp_events, probe>>

-----------------------------------------------------------------------------
(***************************************************************************)
(* The codec.                                                              *)
(***************************************************************************)
Byte == 0 .. Base - 1

Sum(bytes) ==
  LET sum[i \in 0 .. Len(bytes)] == IF i = 0 THEN 0 ELSE sum[i - 1] + bytes[i]
  IN  sum[Len(bytes)]

checksum(body) == (-Sum(body)) % Base

serialize(frame) ==
  LET body == <<MIN_LENGTH + Len(frame.payload)>> \o frame.header \o frame.payload
  IN  <<SOM>> \o body \o <<checksum(body)>>

\* Faulty: the checksum is not verified.
DeserializeAnything(raw) ==
  [kind |-> "frame", raw |-> raw]

\* An event for a complete candidate; what the frame says is in its bytes.
deserialize(raw) ==
  IF Sum(Tail(raw)) % Base = 0 THEN [kind |-> "frame", raw |-> raw]
  ELSE [kind |-> "checksum_mismatch", raw |-> raw]

FrameOf(raw) ==
  [header |-> SubSeq(raw, 3, MIN_LENGTH + 2),
   payload |-> SubSeq(raw, MIN_LENGTH + 3, Len(raw) - 1)]

-----------------------------------------------------------------------------
(***************************************************************************)
(* What both parsers do with a buffer.                                     *)
(***************************************************************************)
Total(bytes) == bytes[2] + 3
Drop(bytes, n) == SubSeq(bytes, n + 1, Len(bytes))

\* The bytes before the first SOM are skipped.
FromSom(bytes) ==
  IF \E i \in 1 .. Len(bytes) : bytes[i] = SOM
  THEN LET first == CHOOSE i \in 1 .. Len(bytes) :
                      bytes[i] = SOM /\ \A j \in 1 .. i - 1 : bytes[j] # SOM
       IN  Drop(bytes, first - 1)
  ELSE <<>>

Impossible(bytes) == Len(bytes) >= 2 /\ bytes[2] < MIN_LENGTH
\* Faulty: any length is accepted.
NeverTooLarge(bytes) == FALSE

TooLarge(bytes) == Len(bytes) >= 2 /\ ~Impossible(bytes) /\ Total(bytes) > max_buffer
Complete(bytes) ==
  /\ Len(bytes) >= 2 /\ ~Impossible(bytes) /\ ~TooLarge(bytes)
  /\ Len(bytes) >= Total(bytes)

\* Whether one turn of the loop yields an event, which, and what it leaves.
Yields(bytes) == Impossible(bytes) \/ TooLarge(bytes) \/ Complete(bytes)

EventOf(bytes) ==
  IF Impossible(bytes) THEN [kind |-> "impossible_length", raw |-> SubSeq(bytes, 1, 2)]
  ELSE IF TooLarge(bytes) THEN [kind |-> "frame_exceeds_buffer_limit", raw |-> SubSeq(bytes, 1, 2)]
  ELSE deserialize(SubSeq(bytes, 1, Total(bytes)))

Leaves(bytes) == IF Complete(bytes) THEN Drop(bytes, Total(bytes)) ELSE Drop(bytes, 1)

Overflow(bytes) == [kind |-> "overflow", raw |-> SubSeq(bytes, 1, max_buffer)]

-----------------------------------------------------------------------------
Init ==
  /\ stream = <<>> /\ chunk = <<>>
  /\ py_buffer = <<>> /\ py_events = <<>>
  /\ cpp_buffer = <<>> /\ cpp_events = <<>>
  /\ probe_buffer = <<>> /\ probe_events = <<>> /\ probe_from = 1

\* Faulty: what is left of a buffer that yielded an event is thrown away.
FeedByteForgetful(byte) ==
  LET bytes == FromSom(Append(cpp_buffer, byte))
  IN  IF Yields(bytes)
        THEN cpp_buffer' = <<>> /\ cpp_events' = Append(cpp_events, EventOf(bytes))
        ELSE cpp_buffer' = bytes /\ UNCHANGED cpp_events

\* AuxStreamParser::feedByte.  Every way through its loop returns.
feedByte(byte) ==
  IF Len(cpp_buffer) >= max_buffer
  THEN cpp_buffer' = <<>> /\ cpp_events' = Append(cpp_events, Overflow(cpp_buffer))
  ELSE LET bytes == FromSom(Append(cpp_buffer, byte))
       IN  IF Yields(bytes)
             THEN cpp_buffer' = Leaves(bytes) /\ cpp_events' = Append(cpp_events, EventOf(bytes))
             ELSE cpp_buffer' = bytes /\ UNCHANGED cpp_events

\* A byte arrives: the firmware takes it, the Python bridge has it in its
\* next chunk.
Arrives(byte) ==
  /\ Len(stream) < MaxStream
  /\ stream' = Append(stream, byte)
  /\ chunk' = Append(chunk, byte)
  /\ feedByte(byte)
  /\ UNCHANGED <<py_buffer, py_events, probe>>

\* The loop of AUXStreamParser.feed.
Parsed[bytes \in Seq(Byte)] ==
  LET candidate == FromSom(bytes)
  IN  IF Yields(candidate)
        THEN LET rest == Parsed[Leaves(candidate)]
             IN  [events |-> <<EventOf(candidate)>> \o rest.events, buffer |-> rest.buffer]
        ELSE [events |-> <<>>, buffer |-> candidate]

Parse(bytes) == Parsed[bytes]

\* The loop of candidate_aux_frames of the probe.
Candidates[bytes \in Seq(Byte)] ==
  LET candidate == FromSom(bytes)
      Then(event, n) ==
        LET rest == Candidates[Drop(candidate, n)]
        IN  [events |-> <<event>> \o rest.events, buffer |-> rest.buffer]
  IN  IF Impossible(candidate)
        THEN Then([kind |-> "impossible_length", raw |-> SubSeq(candidate, 1, 2)], 1)
      ELSE IF Len(candidate) >= 2 /\ Len(candidate) >= Total(candidate)
        THEN Then(deserialize(SubSeq(candidate, 1, Total(candidate))), Total(candidate))
      ELSE [events |-> <<>>, buffer |-> candidate]

candidate_aux_frames(bytes) == Candidates[bytes]

\* NetworkProbe._receive_tcp, with the bytes of one read.
_receive_tcp(payload) ==
  LET bytes == probe_buffer \o payload
      parse == candidate_aux_frames(bytes)
  IN  IF Len(bytes) > max_parser_buffer
        THEN probe_buffer' = <<>> /\ probe_events' = <<>> /\ probe_from' = Len(stream) + 1
        ELSE /\ probe_buffer' = parse.buffer
             /\ probe_events' = probe_events \o parse.events
             /\ UNCHANGED probe_from

\* AUXStreamParser.feed; the probe reads the same bytes.
feed ==
  /\ chunk # <<>>
  /\ LET parse == Parse(py_buffer \o chunk)
         overflows == Len(parse.buffer) > max_buffer
     IN  /\ py_buffer' = IF overflows THEN <<>> ELSE parse.buffer
         /\ py_events' = py_events \o parse.events \o
                           IF overflows THEN <<Overflow(parse.buffer)>> ELSE <<>>
  /\ _receive_tcp(chunk)
  /\ chunk' = <<>>
  /\ UNCHANGED <<stream, cpp_buffer, cpp_events>>

Next == feed \/ \E byte \in Byte : Arrives(byte)

Spec == Init /\ [][Next]_vars

-----------------------------------------------------------------------------
(***************************************************************************)
(* A definition of what a parser should find, by positions in the stream   *)
(* and not by what is left in a buffer: from position p on, the next       *)
(* candidate is at the first SOM; a refused length costs one position and  *)
(* a candidate all of its bytes.  No frame is longer than limit.           *)
(***************************************************************************)
Found(limit) ==
  LET found[p \in Nat \ {0}] ==
        LET soms == {i \in p .. Len(stream) : stream[i] = SOM}
            som == CHOOSE i \in soms : \A j \in soms : i <= j
            length == stream[som + 1]
            raw == SubSeq(stream, som, som + length + 2)
        IN  IF soms = {} \/ som = Len(stream) THEN <<>>
            ELSE IF length < MIN_LENGTH
              THEN <<[kind |-> "impossible_length", raw |-> <<SOM, length>>]>> \o found[som + 1]
            ELSE IF length + 3 > limit
              THEN <<[kind |-> "frame_exceeds_buffer_limit", raw |-> <<SOM, length>>]>>
                     \o found[som + 1]
            ELSE IF som + length + 2 > Len(stream) THEN <<>>
            ELSE <<[kind |-> IF Sum(Tail(raw)) % Base = 0 THEN "frame" ELSE "checksum_mismatch",
                    raw |-> raw]>> \o found[som + length + 3]
  IN  found

Event == [kind : {"frame", "checksum_mismatch", "impossible_length",
                  "frame_exceeds_buffer_limit", "overflow"}, raw : Seq(Byte)]

TypeOK ==
  /\ {stream, chunk, py_buffer, cpp_buffer, probe_buffer} \subseteq Seq(Byte)
  /\ probe_from \in 1 .. Len(stream) + 1
  /\ \A buffer \in {py_buffer, cpp_buffer, probe_buffer} : Len(buffer) > 1 => buffer[1] = SOM
  /\ {py_events, cpp_events, probe_events} \subseteq Seq(Event)

\* The firmware's parser finds what there is to find and has found it with
\* the last byte of it: returning after one event delays nothing.
CppFindsAll == cpp_events = Found(max_buffer)[1]

\* So does the Python parser, however the stream is cut into chunks.
PyFindsAll ==
  chunk = <<>> => py_events = Found(max_buffer)[1] /\ py_buffer = FromSom(cpp_buffer)

\* The longest frame a length can announce.
AnyLength == Base + 2

\* The probe logs what there is to find, of every length, from where it last
\* threw its buffer away.
ProbeFindsAll == chunk = <<>> => probe_events = Found(AnyLength)[probe_from]

\* The three programs see the same frames in the same bytes, but for the
\* limits they have; neither bridge's buffer ever overflows, for that would
\* be an event of its own.
AllFindAll == CppFindsAll /\ PyFindsAll /\ ProbeFindsAll

\* After every byte the firmware's buffer holds nothing that could be
\* returned already, and there is room in it for the next: one event for a
\* byte is enough and the test for a full buffer never succeeds.  The types
\* hold.
NothingPending ==
  TypeOK /\ ~Yields(FromSom(cpp_buffer)) /\ Len(cpp_buffer) < max_buffer

\* Every byte sequence taken for a frame is the encoding of what it decodes
\* to, so an encoder and a decoder of the two programs agree.
Canonical ==
  \A i \in 1 .. Len(cpp_events) :
    cpp_events[i].kind = "frame" => serialize(FrameOf(cpp_events[i].raw)) = cpp_events[i].raw
=============================================================================
