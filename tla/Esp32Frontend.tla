---------------------------- MODULE Esp32Frontend ----------------------------
(***************************************************************************)
(* Esp32FakeFrontend::poll: the Arduino loop that serves one TCP client,   *)
(* drops a silent one, and advertises the bridge while it has none, on a   *)
(* millisecond clock that wraps.                                           *)
(*                                                                         *)
(* A step is what the loop does between two looks at the sockets, whose    *)
(* peers act in between.  lwIP and the WiFiClient class are not part of    *)
(* the repository: WiFiClient's own flag may fall at any time after the    *)
(* peer has closed or reset the connection, a write to such a peer may     *)
(* succeed or stop the client, and one to a peer that no longer reads may  *)
(* block and then be short.                                                *)
(***************************************************************************)
EXTENDS Integers, Sequences, Chunks

CONSTANTS
  Client,                \* connections made to the bridge, one per member
  NoClient,
  MaxPieces,             \* bound on the pieces a client sends
  ClockModulus,          \* millis() wraps here
  kAdvertisementPeriod,
  kClientIdleTimeout,
  MaxDelay,              \* bound on delay(1) and the rest of a lap
  MaxBlock               \* bound on the time a write blocks

Half == ClockModulus \div 2

ASSUME ClientAssumption == NoClient \notin Client
ASSUME BoundAssumption == MaxPieces \in Nat /\ MaxDelay \in Nat \ {0} /\ MaxBlock \in Nat
\* Half the range of the clock is longer than anything it is used for, and
\* than one lap, with a client's whole stream and every answer to it blocked.
ASSUME ClockAssumption ==
  /\ kAdvertisementPeriod \in Nat \ {0} /\ kClientIdleTimeout \in Nat \ {0}
  /\ ClockModulus \in Nat
  /\ Half > kClientIdleTimeout + MaxDelay + MaxBlock * (MaxPieces \div 2)
  /\ Half > kAdvertisementPeriod + MaxDelay
  /\ Half >= MaxPieces + MaxBlock * (MaxPieces \div 2) + MaxDelay

VARIABLES
  loop,       \* where poll() is
  millis,     \* the clock
  poll_now,   \* now, read at the top of poll()
  client,     \* the connection client_ refers to
  connected,  \* whether client_ still thinks so
  conn,       \* each connection as the client asked for it and the loop left it
  peer,       \* what has become of the client's end
  sent,       \* pieces sent on each connection
  taken,      \* pieces read of this connection
  parser,     \* parser_.buffer_
  events,     \* frames of the chunk still to be processed
  last_rx,    \* client_last_rx_ms_
  next_advertisement,
  answered,   \* the last frame answered on this connection
  silence,    \* time since the last read (for IdleOnlyWhenSilent)
  free,       \* time without a client or an advertisement (for AdvertisesPromptly)
  age         \* time since the last advertisement (for AdvertisesPromptly)

sockets == <<conn, peer, sent>>
stream == <<taken, parser, events, answered>>
clocks == <<millis, silence, free, age>>
vars == <<loop, poll_now, client, connected, sockets, stream, last_rx,
          next_advertisement, clocks>>

-----------------------------------------------------------------------------
Piece == Client \X (1 .. MaxPieces)

\* `if (client_)' and client_.connected() are the same flag.
Live == client # NoClient /\ connected
Available == IF ~Live \/ peer[client] = "reset" THEN 0 ELSE sent[client] - taken

\* A difference of two 32-bit times, read as a signed one.
Signed(x) == LET r == x % ClockModulus IN IF r < Half THEN r ELSE r - ClockModulus

\* Faulty: times are compared as if the clock did not wrap.
PlainElapsed(now, then, interval) == now - then >= interval

elapsedAtLeast(now, then, interval) == Signed(now - then) >= interval

\* Faulty: so is the time of the next advertisement.
PlainDue == poll_now >= next_advertisement

Due == Signed(poll_now - next_advertisement) >= 0

AtMost(x, cap) == IF x < cap THEN x ELSE cap

\* d clock units pass; none of what follows needs to tell times beyond these
\* caps apart.
Passes(d) ==
  /\ millis' = (millis + d) % ClockModulus
  /\ silence' = IF Live THEN AtMost(silence + d, kClientIdleTimeout) ELSE 0
  /\ free' = IF Live THEN 0 ELSE AtMost(free + d, Half)
  /\ age' = AtMost(age + d, Half + kAdvertisementPeriod)

\* begin() has set up the network.
Init ==
  /\ loop = "probe"
  /\ millis = 0 /\ poll_now = 0
  /\ client = NoClient /\ connected = FALSE
  /\ conn = [c \in Client |-> "away"]
  /\ peer = [c \in Client |-> "open"]
  /\ sent = [c \in Client |-> 0]
  /\ taken = 0
  /\ parser = <<>>
  /\ events = <<>>
  /\ last_rx = 0
  /\ next_advertisement = 0
  /\ answered = 0
  /\ silence = 0 /\ free = 0 /\ age = 0

-----------------------------------------------------------------------------
(***************************************************************************)
(* The clients, and what becomes of a connection under the loop.           *)
(***************************************************************************)
ClientOnly == UNCHANGED <<loop, poll_now, client, connected, stream, last_rx,
                          next_advertisement, clocks>>

Connects(c) ==
  /\ conn[c] = "away"
  /\ conn' = [conn EXCEPT ![c] = "knocking"]
  /\ ClientOnly /\ UNCHANGED <<peer, sent>>

\* Nothing looks at a connection before it is accepted, so what the client
\* does on it may as well happen after that.
Sends(c) ==
  /\ conn[c] = "served"
  /\ peer[c] = "open"
  /\ sent[c] < MaxPieces
  /\ sent' = [sent EXCEPT ![c] = @ + 1]
  /\ ClientOnly /\ UNCHANGED <<conn, peer>>

\* The client closes its end, resets the connection, or no longer reads.
Leaves(c) ==
  /\ conn[c] = "served"
  /\ peer[c] = "open"
  /\ \E end \in {"fin", "reset", "deaf"} : peer' = [peer EXCEPT ![c] = end]
  /\ ClientOnly /\ UNCHANGED <<conn, sent>>

\* WiFiClient finds out by itself.
FlagFalls ==
  /\ Live
  /\ peer[client] \in {"fin", "reset"}
  /\ connected' = FALSE
  /\ UNCHANGED <<loop, poll_now, client, sockets, stream, last_rx,
                 next_advertisement, clocks>>

-----------------------------------------------------------------------------
(***************************************************************************)
(* The loop.                                                               *)
(***************************************************************************)
\* closeClient.  What was sent on the connection is never looked at again and
\* is forgotten.
Closes ==
  /\ client' = NoClient
  /\ connected' = FALSE
  /\ parser' = <<>>
  /\ conn' = [conn EXCEPT ![client] = "closed"]
  /\ peer' = [peer EXCEPT ![client] = "open"]
  /\ sent' = [sent EXCEPT ![client] = 0]

\* peerState looks at the next byte without taking it, so a FIN shows only
\* after what was sent before it.
PeerGone == Live /\ (peer[client] = "reset" \/ (peer[client] = "fin" /\ Available = 0))

Probes ==
  /\ loop = "probe"
  /\ loop' = "accept"
  /\ poll_now' = millis
  /\ IF PeerGone THEN Closes
     ELSE UNCHANGED <<client, connected, sockets, parser>>
  /\ UNCHANGED <<taken, answered, events, last_rx, next_advertisement, clocks>>

\* A client whose flag has fallen is replaced by the next one, or stays.
Serves(c) ==
  /\ client' = c
  /\ connected' = TRUE
  /\ conn' = [d \in Client |-> IF d = c THEN "served" ELSE IF d = client THEN "closed" ELSE conn[d]]
  /\ taken' = 0
  /\ answered' = 0
  /\ last_rx' = millis
  /\ silence' = 0
  /\ free' = 0

\* Faulty: the parser is reset only by closeClient.
AcceptsKeepingParser(c) ==
  /\ loop = "accept" /\ ~Live /\ conn[c] = "knocking"
  /\ loop' = "receive"
  /\ Serves(c)
  /\ UNCHANGED <<poll_now, peer, sent, parser, events, next_advertisement, millis, age>>

Accepts(c) ==
  /\ loop = "accept" /\ ~Live /\ conn[c] = "knocking"
  /\ loop' = "receive"
  /\ Serves(c)
  /\ parser' = <<>>
  /\ UNCHANGED <<poll_now, peer, sent, events, next_advertisement, millis, age>>

AcceptsNobody ==
  /\ loop = "accept"
  /\ Live \/ \A c \in Client : conn[c] # "knocking"
  /\ loop' = "receive"
  /\ UNCHANGED <<poll_now, client, connected, sockets, stream, last_rx,
                 next_advertisement, clocks>>

\* Faulty: silence is counted from the start of the connection.
TakenInSilence == UNCHANGED <<last_rx, silence>>

ResetsSilence == last_rx' = millis' /\ silence' = 0

\* One turn of receiveClient's loop; the clock may have moved on since now
\* was read.
Receives(n, d) ==
  /\ loop = "receive"
  /\ n <= Available
  /\ taken' = taken + n
  /\ LET bytes == parser \o Pieces(client, taken + 1, taken + n)
     IN  /\ parser' = Rest(bytes)
         /\ events' = Whole(bytes)
         /\ loop' = IF Whole(bytes) = <<>> THEN "receive" ELSE "process"
  /\ millis' = (millis + d) % ClockModulus
  /\ ResetsSilence
  /\ free' = 0
  /\ age' = AtMost(age + d, Half + kAdvertisementPeriod)
  /\ UNCHANGED <<poll_now, client, connected, sockets, answered, next_advertisement>>

ReceivesNothing ==
  /\ loop = "receive"
  /\ Available = 0
  /\ loop' = "idle"
  /\ UNCHANGED <<poll_now, client, connected, sockets, stream, last_rx,
                 next_advertisement, clocks>>

NextEvent ==
  /\ events' = Tail(events)
  /\ loop' = IF Len(events) = 1 THEN "receive" ELSE "process"

ProcessOnly == UNCHANGED <<poll_now, client, peer, sent, taken, parser, last_rx,
                           next_advertisement>>

\* An invalid frame, one without an answer, or an answer that has nobody to
\* go to any more.
Drops ==
  /\ loop = "process"
  /\ NextEvent
  /\ ProcessOnly /\ UNCHANGED <<connected, conn, answered, clocks>>

Answers ==
  /\ loop = "process"
  /\ IsFrame(Head(events))
  /\ Live
  /\ peer[client] # "reset"
  /\ NextEvent
  /\ answered' = FrameNumber(Head(events))
  /\ ProcessOnly /\ UNCHANGED <<connected, conn, clocks>>

\* The write is short: only the count of short writes goes up.
AnswersShort(d) ==
  /\ loop = "process"
  /\ IsFrame(Head(events))
  /\ Live
  /\ peer[client] = "deaf"
  /\ NextEvent
  /\ Passes(d)
  /\ ProcessOnly /\ UNCHANGED <<connected, conn, answered>>

\* The write fails and stops the client; what is left of the chunk is
\* processed all the same.
AnswerStops ==
  /\ loop = "process"
  /\ IsFrame(Head(events))
  /\ Live
  /\ peer[client] \in {"fin", "reset"}
  /\ NextEvent
  /\ connected' = FALSE
  /\ ProcessOnly /\ UNCHANGED <<conn, answered, clocks>>

IsIdle == Live /\ elapsedAtLeast(millis, last_rx, kClientIdleTimeout)

Idles ==
  /\ loop = "idle"
  /\ IsIdle
  /\ Closes
  /\ UNCHANGED <<loop, poll_now, taken, answered, events, last_rx, next_advertisement, clocks>>

LapOnly == UNCHANGED <<poll_now, client, connected, sockets, stream, last_rx>>

Advertises(d) ==
  /\ loop = "idle"
  /\ ~Live
  /\ Due
  /\ loop' = "probe"
  /\ next_advertisement' = (poll_now + kAdvertisementPeriod) % ClockModulus
  /\ millis' = (millis + d) % ClockModulus
  /\ free' = d
  /\ age' = (millis' - poll_now) % ClockModulus
  /\ LapOnly /\ UNCHANGED silence

LapEnds(d) ==
  /\ loop = "idle"
  /\ ~IsIdle
  /\ Live \/ ~Due
  /\ loop' = "probe"
  /\ Passes(d)
  /\ LapOnly /\ UNCHANGED next_advertisement

Poll ==
  \/ Probes
  \/ \E c \in Client : Accepts(c)
  \/ AcceptsNobody
  \/ \E n \in 1 .. MaxPieces, d \in {0, 1} : Receives(n, d)
  \/ ReceivesNothing
  \/ Drops \/ Answers \/ AnswerStops
  \/ \E d \in 0 .. MaxBlock : AnswersShort(d)
  \/ Idles
  \/ \E d \in 1 .. MaxDelay : Advertises(d) \/ LapEnds(d)

Next ==
  \/ Poll \/ FlagFalls
  \/ \E c \in Client : Connects(c) \/ Sends(c) \/ Leaves(c)

\* The loop runs for ever; clients do what they like.
Spec == Init /\ [][Next]_vars
FairSpec == Spec /\ WF_vars(Poll)

-----------------------------------------------------------------------------
TypeOK ==
  /\ loop \in {"probe", "accept", "receive", "process", "idle"}
  /\ {millis, poll_now, last_rx, next_advertisement} \subseteq 0 .. ClockModulus - 1
  /\ client \in Client \cup {NoClient}
  /\ connected \in BOOLEAN
  /\ conn \in [Client -> {"away", "knocking", "served", "closed"}]
  /\ peer \in [Client -> {"open", "fin", "reset", "deaf"}]
  /\ sent \in [Client -> 0 .. MaxPieces]
  /\ taken \in 0 .. MaxPieces
  /\ parser \in Seq(Piece)
  /\ events \in Seq(Piece \X Piece)
  /\ answered \in 0 .. MaxPieces
  /\ silence \in 0 .. kClientIdleTimeout
  /\ free \in 0 .. Half
  /\ age \in 0 .. Half + kAdvertisementPeriod

\* What the loop processes are whole frames of the client it serves, also
\* when that client took the place of one that vanished inside a frame.
OwnFrames ==
  \A i \in 1 .. Len(events) : IsFrame(events[i]) /\ events[i][1][1] = client

\* A client is answered in the order of its frames, each at most once: what
\* is still to be processed comes after what has been answered.
RepliesInOrder ==
  \A i \in 1 .. Len(events) :
    /\ FrameNumber(events[i]) > answered
    /\ \A j \in 1 .. i - 1 : FrameNumber(events[j]) < FrameNumber(events[i])

\* Sessions do not mix, and a session is a sequence of questions and answers.
\* The types hold.
OwnFramesInOrder == TypeOK /\ OwnFrames /\ RepliesInOrder

\* A client whose end is open is closed only after the idle timeout without a
\* byte from it, wherever the clock wraps.
IdleOnlyWhenSilent ==
  [][\A c \in Client :
       conn[c] = "served" /\ conn'[c] = "closed" /\ peer[c] = "open"
         => silence >= kClientIdleTimeout]_vars

\* Without a client the bridge advertises once in every period, give or take
\* a lap, also after the clock has wrapped; only if half the range of the
\* clock has passed since the last advertisement may it fall silent.
AdvertisesPromptly ==
  \/ free <= kAdvertisementPeriod + MaxDelay
  \/ age >= Half + kAdvertisementPeriod

\* A client that connects is served, whatever the one before it does: it
\* leaves, resets, stops reading or falls silent.
NewClientServed == \A c \in Client : conn[c] = "knocking" ~> conn[c] # "knocking"
=============================================================================
