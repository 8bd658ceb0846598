------------------------------ MODULE TcpServer ------------------------------
(***************************************************************************)
(* AUXTCPServer.serve_until in its thread, the clients that connect to it, *)
(* and the main thread that advertises it over UDP.                        *)
(***************************************************************************)
EXTENDS Naturals, Sequences, Chunks

CONSTANTS
  Client,         \* connections made to the server, one per member
  NoClient,
  MaxPieces,      \* bound on the pieces a client sends
  IdleTimeouts,   \* recv timeouts in client_idle_timeout
  MayVanish,      \* whether a connection can be reset or stop taking replies
  MaxRaises,      \* bound on exceptions that escape dispatch
  MayStop         \* whether stop_event can be set

ASSUME ClientAssumption == NoClient \notin Client
ASSUME BoundAssumption == MaxPieces \in Nat /\ IdleTimeouts \in Nat \ {0} /\ MaxRaises \in Nat
ASSUME FlagAssumption == MayVanish \in BOOLEAN /\ MayStop \in BOOLEAN

VARIABLES
  server,      \* where the server thread is
  current,     \* the client handle_connection serves
  conn,        \* each connection as the client asked for it and the server left it
  peer,        \* what has become of the client's end
  sent,        \* pieces sent on each connection
  taken,       \* pieces recv has returned of each connection
  buffer,      \* AUXStreamParser._buffer
  events,      \* frames of the chunk still to be dispatched
  active,      \* _active_connection
  silence,     \* recv timeouts since last_rx
  stop_event,
  advertiser,  \* the main thread, in advertise_once
  replies,     \* frames each client has been answered
  raises,      \* exceptions that have escaped dispatch
  quiet        \* recv timeouts since the client last sent (for KeepsTalkers)

client_vars == <<conn, peer, sent>>
session == <<taken, buffer, events, silence, replies>>
vars == <<server, current, client_vars, session, active, stop_event,
          advertiser, raises, quiet>>

-----------------------------------------------------------------------------
Piece == Client \X (1 .. MaxPieces)
Unread == sent[current] - taken[current]

Init ==
  /\ server = "accepting"
  /\ current = NoClient
  /\ conn = [c \in Client |-> "away"]
  /\ peer = [c \in Client |-> "open"]
  /\ sent = [c \in Client |-> 0]
  /\ taken = [c \in Client |-> 0]
  /\ buffer = <<>>
  /\ events = <<>>
  /\ active = FALSE
  /\ silence = 0
  /\ stop_event = FALSE
  /\ advertiser = "waiting"
  /\ replies = [c \in Client |-> <<>>]
  /\ raises = 0
  /\ quiet = 0

-----------------------------------------------------------------------------
(***************************************************************************)
(* The clients.                                                            *)
(***************************************************************************)
ClientOnly == UNCHANGED <<server, current, session, active, stop_event,
                          advertiser, raises>>

Connects(c) ==
  /\ conn[c] = "away"
  /\ conn' = [conn EXCEPT ![c] = "knocking"]
  /\ ClientOnly /\ UNCHANGED <<peer, sent, quiet>>

Sends(c) ==
  /\ conn[c] \in {"knocking", "served"}
  /\ peer[c] = "open"
  /\ sent[c] < MaxPieces
  /\ sent' = [sent EXCEPT ![c] = @ + 1]
  /\ quiet' = IF c = current THEN 0 ELSE quiet
  /\ ClientOnly /\ UNCHANGED <<conn, peer>>

\* The client closes its end; it resets the connection, as an answer to a
\* reply it no longer wants too; or it no longer reads.
Leaves(c) ==
  /\ conn[c] \in {"knocking", "served"}
  /\ \E end \in {"fin"} \cup (IF MayVanish THEN {"reset", "deaf"} ELSE {}) :
       /\ peer[c] = "open" \/ (peer[c] = "fin" /\ end = "reset")
       /\ peer' = [peer EXCEPT ![c] = end]
  /\ ClientOnly /\ UNCHANGED <<conn, sent, quiet>>

ClientSteps == \E c \in Client : Connects(c) \/ Sends(c) \/ Leaves(c)

-----------------------------------------------------------------------------
(***************************************************************************)
(* The server thread: serve_until around handle_connection.                *)
(***************************************************************************)
\* Faulty: one parser for all connections.
AcceptsKeepingParser(c) ==
  /\ server = "accepting"
  /\ ~stop_event
  /\ conn[c] = "knocking"
  /\ server' = "receiving"
  /\ current' = c
  /\ conn' = [conn EXCEPT ![c] = "served"]
  /\ active' = TRUE
  /\ silence' = 0
  /\ quiet' = 0
  /\ UNCHANGED <<peer, sent, taken, buffer, events, stop_event, advertiser, replies, raises>>

\* accept returns and handle_connection begins, with a parser of its own.
Accepts(c) ==
  /\ server = "accepting"
  /\ ~stop_event
  /\ conn[c] = "knocking"
  /\ server' = "receiving"
  /\ current' = c
  /\ conn' = [conn EXCEPT ![c] = "served"]
  /\ active' = TRUE
  /\ buffer' = <<>>
  /\ silence' = 0
  /\ quiet' = 0
  /\ UNCHANGED <<peer, sent, taken, events, stop_event, advertiser, replies, raises>>

\* The finally block and the with statement: handle_connection is left for
\* where.
LeavesFor(where) ==
  /\ server' = where
  /\ conn' = [conn EXCEPT ![current] = "closed"]
  /\ active' = FALSE
  /\ current' = NoClient
  /\ events' = <<>>

\* Faulty: silence is counted from the start of the connection.
TakenInSilence(n) == UNCHANGED silence

\* last_rx is set to now.
ResetsSilence(n) == silence' = 0

Receives(n) ==
  /\ server = "receiving"
  /\ ~stop_event
  /\ peer[current] # "reset"
  /\ n \in 1 .. Unread
  /\ taken' = [taken EXCEPT ![current] = @ + n]
  /\ LET bytes == buffer \o Pieces(current, taken[current] + 1, taken[current] + n)
     IN  /\ buffer' = Rest(bytes)
         /\ events' = Whole(bytes)
         /\ server' = IF Whole(bytes) = <<>> THEN "receiving" ELSE "dispatching"
  /\ ResetsSilence(n)
  /\ UNCHANGED <<current, client_vars, active, stop_event, advertiser, replies,
                 raises, quiet>>

\* Faulty: a silent client is kept.
TimesOutForEver ==
  /\ server = "receiving"
  /\ ~stop_event
  /\ peer[current] \in {"open", "deaf"}
  /\ Unread = 0
  /\ UNCHANGED vars

\* recv times out after half a second without data.
TimesOut ==
  /\ server = "receiving"
  /\ ~stop_event
  /\ peer[current] \in {"open", "deaf"}
  /\ Unread = 0
  /\ IF silence + 1 < IdleTimeouts
       THEN /\ silence' = silence + 1
            /\ UNCHANGED <<server, conn, active, current, events>>
       ELSE LeavesFor("accepting") /\ UNCHANGED silence
  /\ quiet' = quiet + 1
  /\ UNCHANGED <<peer, sent, taken, buffer, stop_event, advertiser, replies, raises>>

\* End of file, a reset, or stop_event seen at the top of the loop.
SessionEnds ==
  /\ server = "receiving"
  /\ \/ stop_event
     \/ peer[current] = "fin" /\ Unread = 0
     \/ peer[current] = "reset"
  /\ LeavesFor("accepting")
  /\ UNCHANGED <<peer, sent, taken, buffer, silence, stop_event, advertiser,
                 replies, raises, quiet>>

\* handle_chunk takes the events one after the other; a valid frame is
\* answered or not.
NextEvent ==
  /\ events' = Tail(events)
  /\ server' = IF Len(events) = 1 THEN "receiving" ELSE "dispatching"

DispatchesSilently ==
  /\ server = "dispatching"
  /\ NextEvent
  /\ UNCHANGED <<current, client_vars, taken, buffer, silence, replies, active,
                 stop_event, advertiser, raises, quiet>>

Answers ==
  /\ server = "dispatching"
  /\ IsFrame(Head(events))
  /\ peer[current] # "reset"
  /\ NextEvent
  /\ replies' = [replies EXCEPT ![current] = Append(@, FrameNumber(Head(events)))]
  /\ UNCHANGED <<current, client_vars, taken, buffer, silence, active,
                 stop_event, advertiser, raises, quiet>>

\* sendall is not guarded: a reset connection, or one that takes no bytes for
\* half a second, ends the server thread.
ReplyRaises ==
  /\ server = "dispatching"
  /\ IsFrame(Head(events))
  /\ peer[current] \in {"reset", "deaf"}
  /\ LeavesFor("dead")
  /\ UNCHANGED <<peer, sent, taken, buffer, silence, stop_event, advertiser,
                 replies, raises, quiet>>

\* Neither is dispatch, which lets a SerialException through.
DispatchRaises ==
  /\ server = "dispatching"
  /\ IsFrame(Head(events))
  /\ raises < MaxRaises
  /\ raises' = raises + 1
  /\ LeavesFor("dead")
  /\ UNCHANGED <<peer, sent, taken, buffer, silence, stop_event, advertiser,
                 replies, quiet>>

Stops ==
  /\ server = "accepting"
  /\ stop_event
  /\ server' = "stopped"
  /\ UNCHANGED <<current, client_vars, session, active, stop_event, advertiser,
                 raises, quiet>>

ServerSteps ==
  \/ \E c \in Client : Accepts(c)
  \/ \E n \in 1 .. MaxPieces : Receives(n)
  \/ TimesOut \/ SessionEnds
  \/ DispatchesSilently \/ Answers \/ ReplyRaises \/ DispatchRaises
  \/ Stops

-----------------------------------------------------------------------------
(***************************************************************************)
(* The main thread: advertise_once looks at active_connection and sends.   *)
(***************************************************************************)
MainOnly == UNCHANGED <<server, current, client_vars, session, active, raises, quiet>>

Looks ==
  /\ advertiser = "waiting"
  /\ ~stop_event
  /\ ~active
  /\ advertiser' = "sending"
  /\ MainOnly /\ UNCHANGED stop_event

Advertises ==
  /\ advertiser = "sending"
  /\ advertiser' = "waiting"
  /\ MainOnly /\ UNCHANGED stop_event

StopIsSet ==
  /\ MayStop
  /\ ~stop_event
  /\ stop_event' = TRUE
  /\ MainOnly /\ UNCHANGED advertiser

Next == ClientSteps \/ ServerSteps \/ Looks \/ Advertises \/ StopIsSet

\* The server thread is scheduled; clients do what they like.
Spec == Init /\ [][Next]_vars
FairSpec == Spec /\ WF_vars(ServerSteps)

-----------------------------------------------------------------------------
TypeOK ==
  /\ server \in {"accepting", "receiving", "dispatching", "stopped", "dead"}
  /\ current \in Client \cup {NoClient}
  /\ conn \in [Client -> {"away", "knocking", "served", "closed"}]
  /\ peer \in [Client -> {"open", "fin", "reset", "deaf"}]
  /\ sent \in [Client -> 0 .. MaxPieces]
  /\ taken \in [Client -> 0 .. MaxPieces]
  /\ buffer \in Seq(Piece)
  /\ events \in Seq(Piece \X Piece)
  /\ active \in BOOLEAN
  /\ silence \in 0 .. IdleTimeouts
  /\ stop_event \in BOOLEAN
  /\ advertiser \in {"waiting", "sending"}
  /\ replies \in [Client -> Seq(1 .. MaxPieces)]
  /\ raises \in 0 .. MaxRaises
  /\ quiet \in 0 .. IdleTimeouts

\* What is dispatched on a connection are the frames of its client, whole:
\* the bytes an earlier client left behind never become part of one.
OwnFrames ==
  \A i \in 1 .. Len(events) : IsFrame(events[i]) /\ events[i][1][1] = current

\* A client is answered in the order of its frames, each at most once,
\* however TCP splits and joins them.
RepliesInOrder ==
  \A c \in Client :
    \A i, j \in 1 .. Len(replies[c]) : i < j => replies[c][i] < replies[c][j]

\* Sessions do not mix, and a session is a sequence of questions and answers.
\* The types hold.
OwnFramesInOrder == TypeOK /\ OwnFrames /\ RepliesInOrder

\* A client that has sent something within the idle timeout is not dropped,
\* unless it left, the server was stopped or its thread died.
KeepsTalkers ==
  [][\A c \in Client :
       conn[c] = "served" /\ conn'[c] = "closed" /\ peer[c] = "open"
         => stop_event \/ server' = "dead" \/ quiet' >= IdleTimeouts]_vars

\* A client that connects is served once the ones before it have left or
\* fallen silent, as long as the server thread lives.
ServedWhileAlive ==
  \A c \in Client :
    conn[c] = "knocking" /\ ~stop_event
      ~> conn[c] # "knocking" \/ stop_event \/ server = "dead"

\* A client that connects is served, whatever the ones before it did.
NewClientServed ==
  \A c \in Client :
    conn[c] = "knocking" /\ ~stop_event ~> conn[c] # "knocking" \/ stop_event

\* The thread ends after stop_event is set, whatever the client does.
StopStops == stop_event ~> server \in {"stopped", "dead"}

\* Nobody waits for ever, neither a client for the ones before it nor who
\* stops the server for a client.
ServesAndStops == ServedWhileAlive /\ StopStops
=============================================================================
