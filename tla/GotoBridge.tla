----------------------------- MODULE GotoBridge -----------------------------
(***************************************************************************)
(* The PC bridge with the NXW436 backend: one AUX dispatch thread, one     *)
(* GoTo thread per axis, one serial port shared by all of them, two motors *)
(* behind it.                                                              *)
(*                                                                         *)
(* A step is what one thread does between two points where another thread  *)
(* can interfere: a critical section of the coordinator's lock or one UART *)
(* transaction (the driver's lock makes each of them atomic, the double    *)
(* STOP included).  Positions are abstracted to what control depends on:   *)
(* whether a read succeeds and on which side of the position the target    *)
(* lies; PositionController models the counts.                             *)
(***************************************************************************)
EXTENDS Naturals

CONSTANTS
  Axis,        \* the axes the bridge serves
  Dir,         \* Direction: the move prefixes an axis has
  Still,       \* a motor that is not commanded to move
  NoDir,       \* no entry in a _last_direction dictionary
  MaxSamples,  \* bound on the sampling loop: max_seconds / sample_seconds
  MaxFaults,   \* bound on serial exceptions in one behaviour
  MayShutdown  \* whether the operator may end the process

ASSUME DirAssumption == Still \notin Dir /\ NoDir \notin Dir
ASSUME BoundAssumption == MaxSamples \in Nat /\ MaxFaults \in Nat
ASSUME ShutdownAssumption == MayShutdown \in BOOLEAN

VARIABLES
  job,               \* GoToCoordinator._jobs, IDLE standing for no entry
  thread,            \* the GoTo thread of each axis
  frontend,          \* the dispatch thread and the frame it is handling
  reply,             \* what the last frame was answered
  motion_owned,      \* VirtualCelestronMotorControllers._motion_owned
  last_direction,    \* NXW436MountBackend._last_direction
  motion_commanded,  \* NXW436MountBackend._motion_commanded
  motor,             \* what the motor of each axis really does
  port,              \* the serial port: open or closed
  tcp,               \* the TCP server thread: serving or dead
  faults             \* serial exceptions so far

vars == <<job, thread, frontend, reply, motion_owned, last_direction,
          motion_commanded, motor, port, tcp, faults>>

-----------------------------------------------------------------------------
ActiveStates == {"GOTO_ACTIVE", "STOPPING"}
TerminalStates == {"COMPLETED", "FAILED", "CANCELLED"}
GotoState == {"IDLE"} \cup ActiveStates \cup TerminalStates

\* cancellation is the job's threading.Event.
GotoJob == [state : GotoState, cancellation : BOOLEAN, motion_stopped : BOOLEAN]
NoJob == [state |-> "IDLE", cancellation |-> FALSE, motion_stopped |-> FALSE]

is_active(a) == job[a].state \in ActiveStates

\* Where a GoTo thread is in backend.goto and controller.run; how the call
\* is going to end: it returns, raises ControllerAbort, or raises anything
\* else.
Points == {"none", "start", "prestop", "initial", "activate", "loop",
           "stop", "settle", "finish"}
Endings == {"returned", "abort", "error"}
Thread == [at : Points, dir : Dir \cup {NoDir}, moved : BOOLEAN,
           ending : Endings, samples : 0 .. MaxSamples]
NoThread == [at |-> "none", dir |-> NoDir, moved |-> FALSE,
             ending |-> "returned", samples |-> 0]

\* What a MOVE frame asks: a rate of zero, a rate the profile maps to a
\* speed, or a frame that is refused once any GoTo has been cancelled (not
\* in the profile, rate over 9, rate without a speed).
MoveKinds == {"stop", "move", "refused"}
Frontend == [at : {"idle", "join", "act"}, axis : Axis \cup {NoDir},
             dir : Dir \cup {NoDir}, kind : MoveKinds \cup {"none"}]
Idle == [at |-> "idle", axis |-> NoDir, dir |-> NoDir, kind |-> "none"]

Answers == {"none", "goto_started", "slew_active", "slew_done",
            "frontend_idle_stop", "backend_stopped", "manual_motion"}
Reply == [to : Axis \cup {NoDir}, answer : Answers]
NoReply == [to |-> NoDir, answer |-> "none"]
Answer(a, what) == [to |-> a, answer |-> what]

-----------------------------------------------------------------------------
(***************************************************************************)
(* The serial port.  NXW436._send writes and flushes: it returns with the  *)
(* bytes sent, or raises with the bytes lost (write failed, port closed)   *)
(* or sent all the same (flush failed after the write).  The double STOP   *)
(* raises when either of its writes does and works when either gets out.   *)
(***************************************************************************)
FaultPossible == port = "open" /\ faults < MaxFaults
ReadRaises == port = "closed" \/ FaultPossible

SendOutcomes ==
  IF port = "closed" THEN {"lost"}
  ELSE {"sent"} \cup (IF FaultPossible THEN {"lost", "sent_and_raised"} ELSE {})

CountFault(raised) ==
  faults' = IF raised /\ port = "open" THEN faults + 1 ELSE faults

\* The motor takes the direction of a move that gets out.
MoveReaches(a, d, o) ==
  motor' = IF o = "lost" THEN motor ELSE [motor EXCEPT ![a] = d]

\* A STOP is only known to work with the prefix of the motion it ends.
StopEffect(m, d, o) ==
  IF o = "lost" THEN {m} ELSE IF m = d THEN {Still} ELSE {m, Still}
StopReaches(a, d, o) ==
  \E m \in StopEffect(motor[a], d, o) : motor' = [motor EXCEPT ![a] = m]

-----------------------------------------------------------------------------
Init ==
  /\ job = [a \in Axis |-> NoJob]
  /\ thread = [a \in Axis |-> NoThread]
  /\ frontend = Idle
  /\ reply = NoReply
  /\ motion_owned = [a \in Axis |-> FALSE]
  /\ last_direction = [a \in Axis |-> NoDir]
  /\ motion_commanded = [a \in Axis |-> FALSE]
  /\ motor = [a \in Axis |-> Still]
  /\ port = "open"
  /\ tcp = "serving"
  /\ faults = 0

-----------------------------------------------------------------------------
(***************************************************************************)
(* The dispatch thread.  It handles one frame at a time.                   *)
(***************************************************************************)
Receives == tcp = "serving" /\ frontend.at = "idle"

\* An exception dispatch does not catch (SerialException is an OSError)
\* leaves handle_connection and serve_until: the server thread is gone.  A
\* closed port raises RuntimeError, which dispatch does catch.
Escapes(raised) ==
  tcp' = IF raised /\ port = "open" THEN "dead" ELSE tcp

\* MC_GOTO_FAST and MC_GOTO_SLOW, up to and including coordinator.start.
\* GotoRejected covers the frames the profile refuses and the targets that
\* do not pass the validator (position unreadable, delta over the limit).
GotoRejected(a) ==
  /\ Receives
  /\ reply' = NoReply
  /\ UNCHANGED <<job, thread, frontend, motion_owned, last_direction,
                 motion_commanded, motor, port, tcp, faults>>

\* Faulty: the coordinator replaces a job that still runs.
AcceptsActive(a) == ~motion_owned[a] /\ port = "open"

\* The validator has read the position, so the port is open.
Accepts(a) == ~motion_owned[a] /\ port = "open" /\ ~is_active(a)

GotoStarted(a) ==
  /\ Receives
  /\ Accepts(a)
  /\ job' = [job EXCEPT ![a] = [NoJob EXCEPT !.state = "GOTO_ACTIVE"]]
  /\ thread' = [thread EXCEPT ![a] = [NoThread EXCEPT !.at = "start"]]
  /\ reply' = Answer(a, "goto_started")
  /\ UNCHANGED <<frontend, motion_owned, last_direction, motion_commanded,
                 motor, port, tcp, faults>>

\* MC_SLEW_DONE: state and job are read one after the other, but only this
\* thread replaces a job and a terminal job does not change.
DoneStates(j) ==
  {"COMPLETED"} \cup (IF j.motion_stopped THEN {"FAILED", "CANCELLED"} ELSE {})

SlewDone(a) ==
  /\ Receives
  /\ reply' =
       IF job[a].state = "GOTO_ACTIVE" THEN Answer(a, "slew_active")
       ELSE IF job[a].state \in DoneStates(job[a]) THEN Answer(a, "slew_done")
       ELSE NoReply
  /\ UNCHANGED <<job, thread, frontend, motion_owned, last_direction,
                 motion_commanded, motor, port, tcp, faults>>

\* Faulty: the job is over as soon as cancellation is requested.
CancelledAtOnce(j) == [j EXCEPT !.state = "CANCELLED", !.cancellation = TRUE]

\* What cancel does to the job under the lock.
Cancelled(j) == [j EXCEPT !.state = "STOPPING", !.cancellation = TRUE]

\* MC_MOVE_POS and MC_MOVE_NEG: whatever the frame asks, an active GoTo of
\* the axis is cancelled first and its thread joined.
Move(a, d, k) ==
  /\ Receives
  /\ reply' = NoReply
  /\ frontend' = [at |-> IF is_active(a) THEN "join" ELSE "act",
                  axis |-> a, dir |-> d, kind |-> k]
  /\ job' = IF is_active(a) THEN [job EXCEPT ![a] = Cancelled(@)] ELSE job
  /\ UNCHANGED <<thread, motion_owned, last_direction, motion_commanded,
                 motor, port, tcp, faults>>

\* cancel returns: the thread has ended, or two seconds have passed.
JoinEnds ==
  /\ frontend.at = "join"
  /\ ~is_active(frontend.axis)
  /\ frontend' = [frontend EXCEPT !.at = "act"]
  /\ UNCHANGED <<job, thread, reply, motion_owned, last_direction,
                 motion_commanded, motor, port, tcp, faults>>

\* Faulty: the result of cancel is ignored.
JoinIgnored ==
  /\ frontend.at = "join"
  /\ is_active(frontend.axis)
  /\ frontend' = [frontend EXCEPT !.at = "act"]
  /\ UNCHANGED <<job, thread, reply, motion_owned, last_direction,
                 motion_commanded, motor, port, tcp, faults>>

JoinTimesOut ==
  /\ frontend.at = "join"
  /\ is_active(frontend.axis)
  /\ frontend' = Idle
  /\ UNCHANGED <<job, thread, reply, motion_owned, last_direction,
                 motion_commanded, motor, port, tcp, faults>>

Acts(k) == frontend.at = "act" /\ frontend.kind = k

MoveRefused ==
  /\ Acts("refused")
  /\ frontend' = Idle
  /\ UNCHANGED <<job, thread, reply, motion_owned, last_direction,
                 motion_commanded, motor, port, tcp, faults>>

\* Rate zero on an axis without manual motion: no UART traffic.
StopIdle ==
  /\ Acts("stop")
  /\ ~motion_owned[frontend.axis]
  /\ reply' = Answer(frontend.axis, "frontend_idle_stop")
  /\ frontend' = Idle
  /\ UNCHANGED <<job, thread, motion_owned, last_direction, motion_commanded,
                 motor, port, tcp, faults>>

\* Rate zero on an owned axis: backend.stop with the remembered direction
\* (there is one: OwnedHasDirection).  The position read after it changes
\* nothing.
StopOwned ==
  LET a == frontend.axis IN
  /\ Acts("stop")
  /\ motion_owned[a]
  /\ frontend' = Idle
  /\ motion_commanded' = [motion_commanded EXCEPT ![a] = FALSE]
  /\ \E o \in SendOutcomes :
       /\ StopReaches(a, last_direction[a], o)
       /\ CountFault(o # "sent")
       /\ Escapes(o # "sent")
       /\ motion_owned' = [motion_owned EXCEPT ![a] = o # "sent"]
       /\ reply' = IF o = "sent" THEN Answer(a, "backend_stopped") ELSE NoReply
  /\ UNCHANGED <<job, thread, last_direction, port>>

\* apply_manual_motion reads the position before it sends the move.
ManualReadFails ==
  /\ Acts("move")
  /\ frontend' = Idle
  /\ \E raised \in BOOLEAN :
       /\ raised => ReadRaises
       /\ port = "closed" => raised
       /\ CountFault(raised)
       /\ Escapes(raised)
  /\ UNCHANGED <<job, thread, reply, motion_owned, last_direction,
                 motion_commanded, motor, port>>

\* What an accepted move leaves in the backend and in the virtual controller.
Owns(a, d) ==
  /\ last_direction' = [last_direction EXCEPT ![a] = d]
  /\ motion_commanded' = [motion_commanded EXCEPT ![a] = TRUE]
  /\ motion_owned' = [motion_owned EXCEPT ![a] = TRUE]
  /\ reply' = Answer(a, "manual_motion")

ManualMove ==
  LET a == frontend.axis IN
  /\ Acts("move")
  /\ port = "open"
  /\ frontend' = Idle
  /\ \E o \in SendOutcomes :
       /\ MoveReaches(a, frontend.dir, o)
       /\ CountFault(o # "sent")
       /\ Escapes(o # "sent")
       /\ IF o = "sent" THEN Owns(a, frontend.dir)
          ELSE UNCHANGED <<last_direction, motion_commanded, motion_owned, reply>>
  /\ UNCHANGED <<job, thread, port>>

Dispatch ==
  \/ \E a \in Axis : GotoRejected(a) \/ GotoStarted(a) \/ SlewDone(a)
  \/ \E a \in Axis, d \in Dir, k \in MoveKinds : Move(a, d, k)
  \/ JoinEnds \/ JoinTimesOut
  \/ MoveRefused \/ StopIdle \/ StopOwned \/ ManualReadFails \/ ManualMove

-----------------------------------------------------------------------------
(***************************************************************************)
(* The GoTo thread of an axis: GoToCoordinator._run around backend.goto    *)
(* around RelativePositionController.run.                                  *)
(***************************************************************************)
At(a, p) == thread[a].at = p
Goes(a, p) == thread' = [thread EXCEPT ![a].at = p]
\* Faulty: the direction is not set.
AimsNowhere(a, p, d) == Goes(a, p)
Aims(a, p, d) == thread' = [thread EXCEPT ![a].at = p, ![a].dir = d]
Ends(a, e) == thread' = [thread EXCEPT ![a].at = "finish", ![a].ending = e]

\* backend.goto reads the position: unreadable, already at the target, or
\* the target lies in some direction.
GotoBegins(a) ==
  /\ At(a, "start")
  /\ \/ Ends(a, "error")
     \/ port = "open" /\ Ends(a, "returned")
     \/ /\ port = "open"
        /\ \E d \in Dir : Aims(a, "prestop", d)
  /\ UNCHANGED <<job, frontend, reply, motion_owned, last_direction,
                 motion_commanded, motor, port, tcp, faults>>

\* run starts with a STOP in the planned direction.
PreStop(a) ==
  /\ At(a, "prestop")
  /\ \E o \in SendOutcomes :
       /\ StopReaches(a, thread[a].dir, o)
       /\ CountFault(o # "sent")
       /\ IF o = "sent" THEN Goes(a, "initial") ELSE Ends(a, "error")
  /\ UNCHANGED <<job, frontend, reply, motion_owned, last_direction,
                 motion_commanded, port, tcp>>

\* The initial read decides the direction again; no valid position and
\* nothing left to do are both ControllerAbort.
InitialRead(a) ==
  /\ At(a, "initial")
  /\ \/ /\ port = "open"
        /\ \/ Ends(a, "abort")
           \/ \E d \in Dir : Aims(a, "activate", d)
        /\ UNCHANGED faults
     \/ ReadRaises /\ CountFault(TRUE) /\ Ends(a, "error")
  /\ UNCHANGED <<job, frontend, reply, motion_owned, last_direction,
                 motion_commanded, motor, port, tcp>>

\* The first move is sent before the try block that stops the motor.
Activate(a) ==
  /\ At(a, "activate")
  /\ \E o \in SendOutcomes :
       /\ MoveReaches(a, thread[a].dir, o)
       /\ CountFault(o # "sent")
       /\ IF o = "sent"
            THEN thread' = [thread EXCEPT ![a].at = "loop", ![a].moved = TRUE]
            ELSE Ends(a, "error")
  /\ UNCHANGED <<job, frontend, reply, motion_owned, last_direction,
                 motion_commanded, port, tcp>>

\* Faulty: no finally block around the sampling loop.
LeavesMoving(a, e) == Ends(a, e)

Leaves(a, e) ==
  thread' = [thread EXCEPT ![a].at = "stop", ![a].ending = e]

\* One round of the sampling loop.  It leads to the final STOP when the
\* deadline has passed, the job is cancelled, the sample aborts, the margin
\* is reached or the port raises.
SampleAborts(a) ==
  /\ At(a, "loop")
  /\ \/ thread[a].samples = MaxSamples
     \/ job[a].cancellation
     \/ port = "open"
  /\ Leaves(a, "abort")
  /\ UNCHANGED <<job, frontend, reply, motion_owned, last_direction,
                 motion_commanded, motor, port, tcp, faults>>

Samples(a) ==
  /\ At(a, "loop")
  /\ thread[a].samples < MaxSamples
  /\ ~job[a].cancellation

\* Faulty: the deadline starts over.
CountsAgain(a) == thread' = [thread EXCEPT ![a].samples = (@ + 1) % MaxSamples]

Counts(a) == thread' = [thread EXCEPT ![a].samples = @ + 1]

\* A sample that keeps going; it may resend or change the payload, in the
\* same direction.
SampleContinues(a) ==
  /\ Samples(a)
  /\ port = "open"
  /\ Counts(a)
  /\ motor' \in {motor, [motor EXCEPT ![a] = thread[a].dir]}
  /\ UNCHANGED <<job, frontend, reply, motion_owned, last_direction,
                 motion_commanded, port, tcp, faults>>

SampleReaches(a) ==
  /\ Samples(a)
  /\ port = "open"
  /\ Leaves(a, "returned")
  /\ UNCHANGED <<job, frontend, reply, motion_owned, last_direction,
                 motion_commanded, motor, port, tcp, faults>>

\* The query raises, or the write of a payload does, sent or not.
SampleRaises(a) ==
  /\ Samples(a)
  /\ ReadRaises
  /\ CountFault(TRUE)
  /\ Leaves(a, "error")
  /\ motor' \in {motor} \cup
       (IF port = "open" THEN {[motor EXCEPT ![a] = thread[a].dir]} ELSE {})
  /\ UNCHANGED <<job, frontend, reply, motion_owned, last_direction,
                 motion_commanded, port, tcp>>

\* Faulty: an exception of the final STOP is swallowed.
AfterAnyStop(a, o) ==
  Goes(a, IF thread[a].ending = "returned" THEN "settle" ELSE "finish")

\* The finally block.  Its exception replaces the one on its way.
AfterStop(a, o) ==
  IF o # "sent" THEN Ends(a, "error")
  ELSE Goes(a, IF thread[a].ending = "returned" THEN "settle" ELSE "finish")

FinalStop(a) ==
  /\ At(a, "stop")
  /\ \E o \in SendOutcomes :
       /\ StopReaches(a, thread[a].dir, o)
       /\ CountFault(o # "sent")
       /\ AfterStop(a, o)
  /\ UNCHANGED <<job, frontend, reply, motion_owned, last_direction,
                 motion_commanded, port, tcp>>

\* The settle loop samples without commanding anything; a sample of it can
\* still abort or raise.
Settle(a) ==
  /\ At(a, "settle")
  /\ \/ Ends(a, "returned") /\ UNCHANGED faults
     \/ port = "open" /\ Ends(a, "abort") /\ UNCHANGED faults
     \/ ReadRaises /\ CountFault(TRUE) /\ Ends(a, "error")
  /\ UNCHANGED <<job, frontend, reply, motion_owned, last_direction,
                 motion_commanded, motor, port, tcp>>

\* backend.goto clears _motion_commanded once a controller has run, and
\* turns ControllerAbort into motion_stopped = True; _run publishes the
\* outcome under the lock.
Published(j, e) ==
  [j EXCEPT !.state = IF j.cancellation THEN "CANCELLED"
                      ELSE IF e = "returned" THEN "COMPLETED" ELSE "FAILED",
            !.motion_stopped = (e = "abort")]

Finish(a) ==
  /\ At(a, "finish")
  /\ job' = [job EXCEPT ![a] = Published(@, thread[a].ending)]
  /\ motion_commanded' = [motion_commanded EXCEPT
       ![a] = IF thread[a].dir = NoDir THEN @ ELSE FALSE]
  /\ thread' = [thread EXCEPT ![a] = NoThread]
  /\ UNCHANGED <<frontend, reply, motion_owned, last_direction, motor, port,
                 tcp, faults>>

GotoThread(a) ==
  \/ GotoBegins(a) \/ PreStop(a) \/ InitialRead(a) \/ Activate(a)
  \/ SampleAborts(a) \/ SampleContinues(a) \/ SampleReaches(a) \/ SampleRaises(a)
  \/ FinalStop(a) \/ Settle(a) \/ Finish(a)

-----------------------------------------------------------------------------
\* The operator ends the process: main's finally block closes the port while
\* the GoTo threads, which are not daemons, and the server thread run on.
Shutdown ==
  /\ MayShutdown
  /\ port = "open"
  /\ port' = "closed"
  /\ UNCHANGED <<job, thread, frontend, reply, motion_owned, last_direction,
                 motion_commanded, motor, tcp, faults>>

\* Once no GoTo thread is left the interpreter exits, and the server thread,
\* a daemon, with it.
ProcessExits ==
  /\ port = "closed"
  /\ tcp = "serving"
  /\ \A a \in Axis : At(a, "none")
  /\ tcp' = "dead"
  /\ frontend' = Idle
  /\ UNCHANGED <<job, thread, reply, motion_owned, last_direction,
                 motion_commanded, motor, port, faults>>

Next == Dispatch \/ (\E a \in Axis : GotoThread(a)) \/ Shutdown \/ ProcessExits

\* The threads are scheduled; when frames arrive is up to the client, and
\* the operator need not stop the process.
Serves == JoinEnds \/ JoinTimesOut \/ MoveRefused \/ StopIdle \/ StopOwned
            \/ ManualReadFails \/ ManualMove
Fairness == WF_vars(Serves) /\ \A a \in Axis : WF_vars(GotoThread(a))

Spec == Init /\ [][Next]_vars
FairSpec == Spec /\ Fairness

-----------------------------------------------------------------------------
TypeOK ==
  /\ job \in [Axis -> GotoJob]
  /\ thread \in [Axis -> Thread]
  /\ frontend \in Frontend
  /\ frontend.at # "idle" => /\ frontend.axis \in Axis
                             /\ frontend.dir \in Dir
                             /\ frontend.kind \in MoveKinds
  /\ reply \in Reply
  /\ motion_owned \in [Axis -> BOOLEAN]
  /\ last_direction \in [Axis -> Dir \cup {NoDir}]
  /\ motion_commanded \in [Axis -> BOOLEAN]
  /\ motor \in [Axis -> Dir \cup {Still}]
  /\ port \in {"open", "closed"}
  /\ tcp \in {"serving", "dead"}
  /\ faults \in 0 .. MaxFaults

\* An axis has a GoTo thread exactly while its job is active: a job that is
\* over never has a thread still sending commands behind it.
ThreadRunsJob ==
  \A a \in Axis : thread[a].at # "none" <=> is_active(a)

\* The dispatch thread commands an axis only after the axis's GoTo thread has
\* ended: the two never send to the same motor.
OneCommander ==
  frontend.at = "act" => thread[frontend.axis].at = "none"

\* "An axis job never silently takes ownership from another job": an axis
\* under manual motion has no GoTo.
AxisOwnership ==
  \A a \in Axis : motion_owned[a] => ~is_active(a)

\* A job that moved its motor is published as COMPLETED or motion_stopped,
\* the two outcomes SLEW_DONE answers with FF, only with the motor stopped,
\* whatever the serial port did.
PublishedStop ==
  [][\A a \in Axis :
       /\ is_active(a) /\ thread[a].moved
       /\ job'[a].state = "COMPLETED" \/ job'[a].motion_stopped
       => motor'[a] = Still]_vars

\* backend.stop always finds a direction on an owned axis, so its "safe STOP
\* unavailable" branch is not reached from a STOP frame.
OwnedHasDirection ==
  \A a \in Axis : motion_owned[a] => last_direction[a] # NoDir

\* Whatever the port does and whenever the process ends, an axis has one
\* commander, and the coordinator, the dispatcher and the backend agree on who
\* that is.
OneOwner == ThreadRunsJob /\ OneCommander /\ AxisOwnership /\ OwnedHasDirection

\* The serial port has not raised and the process has not been ended: then the
\* bridge knows what its motors do.
Untroubled == faults = 0 /\ port = "open"

\* A motor moves only under a GoTo thread or under recorded manual
\* ownership: otherwise no frame could stop it.
NoRunaway ==
  Untroubled =>
    \A a \in Axis : motor[a] # Still => motion_owned[a] \/ is_active(a)

\* The direction backend.stop would use is the one the motor moves in.
OwnedPrefix ==
  Untroubled => \A a \in Axis : motion_owned[a] => motor[a] = last_direction[a]

\* The bridge can stop every motor that runs, with a STOP that has its prefix.
Stoppable == NoRunaway /\ OwnedPrefix

\* A STOP is acknowledged only on an axis that is not moving.
StopAcks == {"frontend_idle_stop", "backend_stopped"}
StopAckTruthful ==
  Untroubled /\ reply.answer \in StopAcks => motor[reply.to] = Still

\* FF on SLEW_DONE: the motor is not slewing, unless it was under manual motion.
SlewDoneTruthful ==
  Untroubled /\ reply.answer = "slew_done"
    => motor[reply.to] = Still \/ motion_owned[reply.to]

\* What SkyPortal is told of a motor is true.
TruthfulReplies == StopAckTruthful /\ SlewDoneTruthful

\* The bridge is in control of its motors and says the truth about them.
InControl == Stoppable /\ TruthfulReplies

\* Manual movement during a GoTo is accepted only after the cancelled job has
\* executed its safe STOP: the axis taken over is still.
ManualAfterSafeStop ==
  [][\A a \in Axis :
       /\ Untroubled'
       /\ job[a].state = "CANCELLED"
       /\ ~motion_owned[a] /\ motion_owned'[a]
       => motor[a] = Still]_vars

\* A job whose final STOP succeeded is answered FF, so that the client does
\* not poll a stopped axis for ever.
ProvedStopIsReported ==
  [][\A a \in Axis :
       /\ is_active(a) /\ job'[a].state \in TerminalStates
       /\ thread[a].moved /\ thread[a].ending # "error"
       => job'[a].state = "COMPLETED" \/ job'[a].motion_stopped]_vars

\* Every GoTo comes to an end: no sequence of samples, faults and
\* cancellations keeps a job active for ever.
JobEnds == \A a \in Axis : is_active(a) ~> ~is_active(a)

\* Every frame is done with: the dispatch thread and the thread it joins do
\* not wait for each other.
FrameEnds == frontend.at # "idle" ~> frontend.at = "idle"

\* No client polls or waits for ever: jobs and frames end.
EverythingEnds == JobEnds /\ FrameEnds
-----------------------------------------------------------------------------
(***************************************************************************)
(* The bridge as an implementation of GotoService.  The GoTo thread owns   *)
(* its axis while it runs; manual motion owns it from the moment the       *)
(* dispatch thread may command it until the virtual controller gives it up.*)
(***************************************************************************)
OwnerOf(a) ==
  IF thread[a].at # "none" THEN "goto"
  ELSE IF motion_owned[a] \/ (frontend.at = "act" /\ frontend.axis = a)
    THEN "manual" ELSE "nobody"

Service == INSTANCE GotoService WITH
  Motion  <- Dir \cup {Still},
  owner   <- [a \in Axis |-> OwnerOf(a)],
  phase   <- [a \in Axis |-> job[a].state],
  stopped <- [a \in Axis |-> job[a].motion_stopped],
  driven  <- [a \in Axis |-> thread[a].moved]

\* Threads, timeouts, faults and shutdown included, every step is one the
\* service allows or invisible to it: a motor changes only by its owner's
\* command, changes hands only through nobody, and a job ends once.
ImplementsService == Service!Spec
=============================================================================
