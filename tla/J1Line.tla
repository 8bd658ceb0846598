------------------------------- MODULE J1Line -------------------------------
(***************************************************************************)
(* The serial line to NXW436 J1 and the two programs that read positions   *)
(* from it: NXW436.query_position_raw of the Python driver, whose threads  *)
(* share the port, and Esp32J1ReadOnlyUart::queryPosition of the firmware. *)
(*                                                                         *)
(* A reply is three bytes that say neither which axis they are of nor      *)
(* which query they answer.  Here a byte is the pair of its query and its  *)
(* place in the reply, so that the module can tell what the programs       *)
(* cannot.  Bytes travel at any speed: a read may time out before, between *)
(* or after them.                                                          *)
(***************************************************************************)
EXTENDS Naturals, Sequences

CONSTANTS
  Thread,      \* threads that use the port, or callers in the firmware's loop
  NoThread,
  Programs,    \* which programs are looked at: "driver", "firmware"
  MaxQueries,  \* bound on queries sent
  MaxLost,     \* bound on reply bytes the line loses
  MaxNoise     \* bound on bytes nobody sent

ASSUME ThreadAssumption == NoThread \notin Thread
ASSUME ProgramAssumption == Programs \subseteq {"driver", "firmware"}
ASSUME BoundAssumption == MaxQueries \in Nat /\ MaxLost \in Nat /\ MaxNoise \in Nat

VARIABLES
  program,   \* the program that uses the port
  owner,     \* the thread that holds _transaction_lock, or is in a query
  reader,    \* what each thread is doing with the port
  line,      \* bytes the mount has sent and the port has not received
  rx,        \* bytes received and not read
  last_tx,   \* the last command written
  result,    \* the last query to return, and what it returned
  desynced,  \* Esp32J1ReadOnlyUart::desynced_, with TX disabled
  queries,   \* queries sent
  timeouts,  \* queries that returned without a frame
  lost, noise

env == <<program, lost, noise>>
vars == <<program, owner, reader, line, rx, last_tx, result, desynced, queries,
          timeouts, lost, noise>>

-----------------------------------------------------------------------------
Byte == (1 .. MaxQueries) \X (1 .. 3)
Noise == <<0, 0>>
Frame(q) == <<<<q, 1>>, <<q, 2>>, <<q, 3>>>>

Reader == [at : {"idle", "reading", "stopping"}, query : 0 .. MaxQueries,
           got : UNION {[1 .. n -> Byte \cup {Noise}] : n \in 0 .. 3}]
Idle == [at |-> "idle", query |-> 0, got |-> <<>>]
NoResult == [status |-> "none", query |-> 0, frame |-> <<>>]

Init ==
  /\ program \in Programs
  /\ owner = NoThread
  /\ reader = [t \in Thread |-> Idle]
  /\ line = <<>>
  /\ rx = <<>>
  /\ last_tx = <<"none", NoThread>>
  /\ result = NoResult
  /\ desynced = FALSE
  /\ queries = 0
  /\ timeouts = 0
  /\ lost = 0
  /\ noise = 0

-----------------------------------------------------------------------------
(***************************************************************************)
(* The line and the mount behind it.                                       *)
(***************************************************************************)
LineOnly == UNCHANGED <<program, owner, reader, last_tx, result, desynced, queries, timeouts>>

Arrives ==
  /\ line # <<>>
  /\ line' = Tail(line)
  /\ rx' = Append(rx, Head(line))
  /\ LineOnly /\ UNCHANGED <<lost, noise>>

IsLost ==
  /\ line # <<>>
  /\ lost < MaxLost
  /\ line' = Tail(line)
  /\ lost' = lost + 1
  /\ LineOnly /\ UNCHANGED <<rx, noise>>

NoiseArrives ==
  /\ noise < MaxNoise
  /\ rx' = Append(rx, Noise)
  /\ noise' = noise + 1
  /\ LineOnly /\ UNCHANGED <<line, lost>>

-----------------------------------------------------------------------------
(***************************************************************************)
(* The programs.                                                           *)
(***************************************************************************)
\* with self._transaction_lock.  The firmware has one loop: its queries run to
\* their end.
MayBegin(t) == reader[t].at = "idle" /\ owner = NoThread

\* Faulty: the lock is not kept for the transaction.
BeginsFree(t) == owner' = owner

Begins(t) == owner' = t

Ends(t) ==
  /\ owner' = NoThread
  /\ reader' = [reader EXCEPT ![t] = Idle]

\* Faulty: having been out of step is forgotten.
InStepForgotten == program = "driver" \/ rx = <<>>

\* The firmware sends nothing once it is out of step or when bytes are
\* waiting; the driver does not look.
InStep == program = "driver" \/ (~desynced /\ rx = <<>>)

Query(t) ==
  /\ MayBegin(t)
  /\ InStep
  /\ queries < MaxQueries
  /\ queries' = queries + 1
  /\ Begins(t)
  /\ reader' = [reader EXCEPT ![t] = [at |-> "reading", query |-> queries', got |-> <<>>]]
  /\ line' = line \o Frame(queries')
  /\ last_tx' = <<"query", t>>
  /\ UNCHANGED <<env, rx, result, desynced, timeouts>>

\* markDesync is for ever: no bytes are drained, no query is sent any more.
QueryRefused(t) ==
  /\ MayBegin(t)
  /\ ~InStep
  /\ desynced' = TRUE
  /\ result' = [status |-> "desync", query |-> 0, frame |-> <<>>]
  /\ UNCHANGED <<env, owner, reader, line, rx, last_tx, queries, timeouts>>

Reads(t) ==
  /\ reader[t].at = "reading"
  /\ Len(reader[t].got) < 3
  /\ rx # <<>>
  /\ reader' = [reader EXCEPT ![t].got = Append(@, Head(rx))]
  /\ rx' = Tail(rx)
  /\ UNCHANGED <<env, owner, line, last_tx, result, desynced, queries, timeouts>>

Returns(t, status) ==
  result' = [status |-> status, query |-> reader[t].query, frame |-> reader[t].got]

\* Three bytes are a frame.  The firmware looks whether more are waiting.
Completes(t) ==
  /\ reader[t].at = "reading"
  /\ Len(reader[t].got) = 3
  /\ IF program = "firmware" /\ rx # <<>>
       THEN Returns(t, "desync") /\ desynced' = TRUE
       ELSE Returns(t, "ok") /\ UNCHANGED desynced
  /\ Ends(t)
  /\ UNCHANGED <<env, line, rx, last_tx, queries, timeouts>>

\* Faulty: a timeout does not count as being out of step.
LatchesNothing == UNCHANGED desynced
Latches == desynced' = (desynced \/ program = "firmware")

\* 150 ms are over.  The driver returns None, and the bytes it has read are
\* gone; those that have not arrived will be there for the next query.
TimesOut(t) ==
  /\ reader[t].at = "reading"
  /\ Len(reader[t].got) < 3
  /\ Returns(t, IF reader[t].got = <<>> THEN "timeout" ELSE "partial")
  /\ Latches
  /\ timeouts' = timeouts + 1
  /\ Ends(t)
  /\ UNCHANGED <<env, line, rx, last_tx, queries>>

\* The double STOP of the driver: two writes, 50 ms apart, in one
\* transaction.  A move is one write and needs no step of its own.
StopFirst(t) ==
  /\ program = "driver"
  /\ MayBegin(t)
  /\ Begins(t)
  /\ reader' = [reader EXCEPT ![t].at = "stopping"]
  /\ last_tx' = <<"stop1", t>>
  /\ UNCHANGED <<env, line, rx, result, desynced, queries, timeouts>>

StopSecond(t) ==
  /\ reader[t].at = "stopping"
  /\ last_tx' = <<"stop2", t>>
  /\ Ends(t)
  /\ UNCHANGED <<env, line, rx, result, desynced, queries, timeouts>>

Uses(t) ==
  \/ Query(t) \/ QueryRefused(t) \/ Reads(t) \/ Completes(t) \/ TimesOut(t)
  \/ StopFirst(t) \/ StopSecond(t)

Next == Arrives \/ IsLost \/ NoiseArrives \/ \E t \in Thread : Uses(t)

Spec == Init /\ [][Next]_vars

-----------------------------------------------------------------------------
TypeOK ==
  /\ program \in Programs
  /\ owner \in Thread \cup {NoThread}
  /\ reader \in [Thread -> Reader]
  /\ line \in Seq(Byte)
  /\ rx \in Seq(Byte \cup {Noise})
  /\ last_tx \in {"none", "query", "stop1", "stop2"} \X (Thread \cup {NoThread})
  /\ result.status \in {"none", "ok", "timeout", "partial", "desync"}
  /\ result.query \in 0 .. MaxQueries
  /\ desynced \in BOOLEAN
  /\ queries \in 0 .. MaxQueries
  /\ timeouts \in 0 .. MaxQueries
  /\ lost \in 0 .. MaxLost
  /\ noise \in 0 .. MaxNoise

Own == result.status = "ok" => result.frame = Frame(result.query)

\* What a query of the firmware returns is the reply to that query.
OwnReply == program = "firmware" /\ noise = 0 => Own

\* A query of either program returns bytes of another one only after a query has
\* gone without a reply: as long as every query is answered in time the
\* threads that share the port never get each other's bytes.
MixedOnlyAfterTimeout == noise = 0 /\ timeouts = 0 => Own

\* What each program may rely on when a query returns.  The types hold.
OwnReplies == TypeOK /\ OwnReply /\ MixedOnlyAfterTimeout

\* The two writes of a STOP follow each other: no query or other STOP comes
\* between them.
DoubleStopTogether ==
  [][\A t \in Thread :
       last_tx = <<"stop1", t>> /\ last_tx' # last_tx => last_tx' = <<"stop2", t>>]_vars

\* Once out of step the firmware writes nothing, and returns no position,
\* until it is restarted.
SilentOutOfStep ==
  [][desynced => /\ queries' = queries
                 /\ result' # result => result'.status # "ok"]_vars
=============================================================================
