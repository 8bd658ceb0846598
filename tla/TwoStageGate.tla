---------------------------- MODULE TwoStageGate ----------------------------
(***************************************************************************)
(* The HBG3 experiment with the fake mount: the TCP server thread, a GoTo  *)
(* thread per axis, a watcher that opens the gate when a file appears, and *)
(* the observer that re-arms it for the SLOW stage.                        *)
(*                                                                         *)
(* The fake backend has no lock.  A step is what a thread does between two *)
(* accesses to what another thread writes, so an _integrate of the server  *)
(* thread is three: the check of _motion_commanded, the look-up in _speed, *)
(* the write of the position.  Of a position the model knows whether it is *)
(* the target of the axis's last GoTo.                                     *)
(***************************************************************************)
EXTENDS Naturals

CONSTANTS
  AZ, ALT,  \* the axes
  NoAxis,   \* the server thread is not busy with an axis
  ByHand    \* the axes the client also moves by hand

Axis == {AZ, ALT}

ASSUME AxisAssumption == AZ # ALT /\ NoAxis \notin Axis
ASSUME ByHandAssumption == ByHand \subseteq Axis

VARIABLES
  job,               \* GoToCoordinator._jobs, IDLE standing for no entry
  thread,            \* where the GoTo thread of each axis is in goto and _run
  observer,          \* where a thread that published is in observe
  frontend,          \* the server thread and the frame it handles
  tcp,               \* the server thread: serving or dead
  motion_owned,      \* VirtualCelestronMotorControllers._motion_owned
  motion_commanded,  \* FakeMountBackend._motion_commanded
  speed,             \* whether the axis has an entry in FakeMountBackend._speed
  on_target,         \* whether the position is the target of the last GoTo
  gate,              \* the goto_gate event
  path,              \* whether the gate file exists
  watcher,           \* the thread in watch_gate_file
  fast_rearmed,      \* configure_two_stage_gate's flag
  lock,              \* the axis whose observer holds configure_two_stage_gate's lock
  touched,           \* history: the operator created the file since the gate was clear
  disturbed          \* history: since its last GoTo was accepted the axis was moved
                     \* by hand, or read while that GoTo ended

vars == <<job, thread, observer, frontend, tcp, motion_owned, motion_commanded,
          speed, on_target, gate, path, watcher, fast_rearmed, lock, touched,
          disturbed>>

jobs == <<job, thread>>
backend == <<motion_commanded, speed, on_target>>
server == <<frontend, tcp, motion_owned>>
gating == <<gate, path, watcher, fast_rearmed, lock, observer>>
history == <<touched, disturbed>>

-----------------------------------------------------------------------------
ActiveStates == {"GOTO_ACTIVE", "STOPPING"}
GotoState == {"IDLE", "COMPLETED", "CANCELLED"} \cup ActiveStates
Variant == {"FAST", "SLOW"}
Job == [state : GotoState, variant : Variant]

is_active(a) == job[a].state \in ActiveStates

\* In goto: before it commands motion, before a look at the gate, after one
\* that found it closed, and the assignments that end it; "publish" is _run
\* with the outcome at hand.
Points == {"none", "start", "wait", "closed", "arrive", "halt", "publish"}
ObserverPoints == {"none", "observe", "look", "clear", "unlink", "watch"}
Frontend == [at : {"idle", "speed", "write", "join", "act"},
             axis : Axis \cup {NoAxis}, kind : {"none", "stop", "move"}]
Idle == [at |-> "idle", axis |-> NoAxis, kind |-> "none"]

Init ==
  /\ job = [a \in Axis |-> [state |-> "IDLE", variant |-> "FAST"]]
  /\ thread = [a \in Axis |-> "none"]
  /\ observer = [a \in Axis |-> "none"]
  /\ frontend = Idle
  /\ tcp = "serving"
  /\ motion_owned = [a \in Axis |-> FALSE]
  /\ motion_commanded = [a \in Axis |-> FALSE]
  /\ speed = [a \in Axis |-> FALSE]
  /\ on_target = [a \in Axis |-> FALSE]
  /\ gate = FALSE
  /\ path = FALSE
  /\ watcher = "polling"
  /\ fast_rearmed = FALSE
  /\ lock = NoAxis
  /\ touched = FALSE
  /\ disturbed = [a \in Axis |-> FALSE]

-----------------------------------------------------------------------------
(***************************************************************************)
(* The server thread.                                                      *)
(***************************************************************************)
Receives == tcp = "serving" /\ frontend.at = "idle"

\* A GoTo frame.  One for an axis that is active or under manual motion is
\* rejected and changes nothing.
GotoStarted(a, v) ==
  /\ Receives
  /\ ~motion_owned[a] /\ ~is_active(a)
  /\ job' = [job EXCEPT ![a] = [state |-> "GOTO_ACTIVE", variant |-> v]]
  /\ thread' = [thread EXCEPT ![a] = "start"]
  /\ on_target' = [on_target EXCEPT ![a] = FALSE]
  /\ disturbed' = [disturbed EXCEPT ![a] = FALSE]
  /\ UNCHANGED <<server, motion_commanded, speed, gating, touched>>

\* MC_GET_POSITION: _integrate leaves an axis alone that is not in motion.
Ending(a) == thread[a] = "halt"

PollChecks(a) ==
  /\ Receives
  /\ motion_commanded[a]
  /\ frontend' = [at |-> "speed", axis |-> a, kind |-> "none"]
  /\ disturbed' = [disturbed EXCEPT ![a] = @ \/ Ending(a)]
  /\ UNCHANGED <<jobs, tcp, motion_owned, backend, gating, touched>>

\* dispatch catches MountError and RuntimeError; a KeyError ends the thread.
PollLooksUp ==
  /\ frontend.at = "speed"
  /\ IF speed[frontend.axis]
       THEN frontend' = [frontend EXCEPT !.at = "write"] /\ UNCHANGED tcp
       ELSE frontend' = Idle /\ tcp' = "dead"
  /\ UNCHANGED <<jobs, motion_owned, backend, gating, history>>

\* The counts travelled since the last look are added, if there are any.
Integrates(a) == on_target' \in {on_target, [on_target EXCEPT ![a] = FALSE]}

PollWrites ==
  /\ frontend.at = "write"
  /\ Integrates(frontend.axis)
  /\ frontend' = Idle
  /\ UNCHANGED <<jobs, tcp, motion_owned, motion_commanded, speed, gating, history>>

\* MC_MOVE_POS and MC_MOVE_NEG cancel a GoTo of the axis and join its thread.
Move(a, k) ==
  /\ Receives
  /\ frontend' = [at |-> IF is_active(a) THEN "join" ELSE "act", axis |-> a, kind |-> k]
  /\ job' = IF is_active(a) THEN [job EXCEPT ![a].state = "STOPPING"] ELSE job
  /\ UNCHANGED <<thread, tcp, motion_owned, backend, gating, history>>

JoinEnds ==
  /\ frontend.at = "join"
  /\ ~is_active(frontend.axis)
  /\ frontend' = [frontend EXCEPT !.at = "act"]
  /\ UNCHANGED <<jobs, tcp, motion_owned, backend, gating, history>>

JoinTimesOut ==
  /\ frontend.at = "join"
  /\ is_active(frontend.axis)
  /\ frontend' = Idle
  /\ UNCHANGED <<jobs, tcp, motion_owned, backend, gating, history>>

Acts(k) == frontend.at = "act" /\ frontend.kind = k

StopIdle ==
  /\ Acts("stop")
  /\ ~motion_owned[frontend.axis]
  /\ frontend' = Idle
  /\ UNCHANGED <<jobs, tcp, motion_owned, backend, gating, history>>

\* FakeMountBackend.stop.
StopOwned ==
  LET a == frontend.axis IN
  /\ Acts("stop")
  /\ motion_owned[a]
  /\ Integrates(a)
  /\ motion_commanded' = [motion_commanded EXCEPT ![a] = FALSE]
  /\ speed' = [speed EXCEPT ![a] = FALSE]
  /\ motion_owned' = [motion_owned EXCEPT ![a] = FALSE]
  /\ frontend' = Idle
  /\ UNCHANGED <<jobs, tcp, gating, history>>

\* FakeMountBackend.move, after the position has been read.
HandMove ==
  LET a == frontend.axis IN
  /\ Acts("move")
  /\ Integrates(a)
  /\ motion_commanded' = [motion_commanded EXCEPT ![a] = TRUE]
  /\ speed' = [speed EXCEPT ![a] = TRUE]
  /\ motion_owned' = [motion_owned EXCEPT ![a] = TRUE]
  /\ disturbed' = [disturbed EXCEPT ![a] = TRUE]
  /\ frontend' = Idle
  /\ UNCHANGED <<jobs, tcp, gating, touched>>

Serves == PollLooksUp \/ PollWrites \/ JoinEnds \/ JoinTimesOut
            \/ StopIdle \/ StopOwned \/ HandMove

Server ==
  \/ \E a \in Axis : PollChecks(a) \/ \E v \in Variant : GotoStarted(a, v)
  \/ \E a \in ByHand, k \in {"stop", "move"} : Move(a, k)
  \/ Serves

-----------------------------------------------------------------------------
(***************************************************************************)
(* The GoTo thread of an axis: FakeMountBackend.goto with a gate, then     *)
(* GoToCoordinator._run.                                                   *)
(***************************************************************************)
At(a, p) == thread[a] = p
Goes(a, p) == thread' = [thread EXCEPT ![a] = p]

Polled(a) == frontend.at \in {"speed", "write"} /\ frontend.axis = a

GotoBegins(a) ==
  /\ At(a, "start")
  /\ Goes(a, "wait")
  /\ motion_commanded' = [motion_commanded EXCEPT ![a] = TRUE]
  /\ speed' = [speed EXCEPT ![a] = TRUE]
  /\ UNCHANGED <<job, server, on_target, gating, history>>

LooksAtGate(a) ==
  /\ At(a, "wait")
  /\ Goes(a, IF gate THEN "arrive" ELSE "closed")
  /\ UNCHANGED <<job, server, backend, gating, history>>

\* Faulty: a cancelled GoTo raises without calling stop.
CancelledMoving(a) ==
  /\ At(a, "closed")
  /\ Goes(a, IF job[a].state = "STOPPING" THEN "publish" ELSE "wait")
  /\ UNCHANGED <<job, server, backend, gating, history>>

\* A cancelled GoTo calls stop, which integrates once more.
LooksAtCancellation(a) ==
  /\ At(a, "closed")
  /\ IF job[a].state = "STOPPING"
       THEN Goes(a, "halt") /\ Integrates(a)
       ELSE Goes(a, "wait") /\ UNCHANGED on_target
  /\ UNCHANGED <<job, server, motion_commanded, speed, gating, history>>

Arrive(a) ==
  /\ At(a, "arrive")
  /\ Goes(a, "halt")
  /\ on_target' = [on_target EXCEPT ![a] = TRUE]
  /\ disturbed' = [disturbed EXCEPT ![a] = @ \/ Polled(a)]
  /\ UNCHANGED <<job, server, motion_commanded, speed, gating, touched>>

\* Faulty: the speed is removed and the flag left set.
HaltsBySpeed(a) ==
  /\ At(a, "halt")
  /\ Goes(a, "publish")
  /\ speed' = [speed EXCEPT ![a] = FALSE]
  /\ disturbed' = [disturbed EXCEPT ![a] = @ \/ Polled(a)]
  /\ UNCHANGED <<job, server, motion_commanded, on_target, gating, touched>>

\* Two assignments, _motion_commanded first: a check between them finds the
\* axis at rest.
Halt(a) ==
  /\ At(a, "halt")
  /\ Goes(a, "publish")
  /\ motion_commanded' = [motion_commanded EXCEPT ![a] = FALSE]
  /\ speed' = [speed EXCEPT ![a] = FALSE]
  /\ disturbed' = [disturbed EXCEPT ![a] = @ \/ Polled(a)]
  /\ UNCHANGED <<job, server, on_target, gating, touched>>

Outcome(a) == IF job[a].state = "STOPPING" THEN "CANCELLED" ELSE "COMPLETED"

\* observe has work only for a FAST job that completed.  BOUND: the observer
\* of an axis's last FAST job is done before the next one's begins.
Publish(a) ==
  /\ At(a, "publish")
  /\ observer[a] = "none"
  /\ job' = [job EXCEPT ![a].state = Outcome(a)]
  /\ Goes(a, "none")
  /\ observer' = [observer EXCEPT ![a] =
       IF job[a].variant = "FAST" /\ Outcome(a) = "COMPLETED" THEN "observe" ELSE @]
  /\ UNCHANGED <<server, backend, gate, path, watcher, fast_rearmed, lock, history>>

GotoThread(a) ==
  \/ GotoBegins(a) \/ LooksAtGate(a) \/ LooksAtCancellation(a) \/ Arrive(a)
  \/ Halt(a) \/ Publish(a)

-----------------------------------------------------------------------------
(***************************************************************************)
(* observe, in the GoTo thread that has published, and the gate.           *)
(***************************************************************************)
Observes(a, p) == observer' = [observer EXCEPT ![a] = p]
FastCompleted(b) == job[b] = [state |-> "COMPLETED", variant |-> "FAST"]

\* With the lock: both jobs are fetched, AZ's first.
LooksAtAz(a) ==
  /\ observer[a] = "observe"
  /\ lock = NoAxis
  /\ IF ~fast_rearmed /\ FastCompleted(AZ)
       THEN Observes(a, "look") /\ lock' = a
       ELSE Observes(a, "none") /\ UNCHANGED lock
  /\ UNCHANGED <<jobs, server, backend, gate, path, watcher, fast_rearmed, history>>

LooksAtAlt(a) ==
  /\ observer[a] = "look"
  /\ IF FastCompleted(ALT)
       THEN Observes(a, "clear") /\ fast_rearmed' = TRUE /\ UNCHANGED lock
       ELSE Observes(a, "none") /\ lock' = NoAxis /\ UNCHANGED fast_rearmed
  /\ UNCHANGED <<jobs, server, backend, gate, path, watcher, history>>

ClearsGate(a) ==
  /\ observer[a] = "clear"
  /\ Observes(a, "unlink")
  /\ gate' = FALSE
  /\ touched' = FALSE
  /\ UNCHANGED <<jobs, server, backend, path, watcher, fast_rearmed, lock, disturbed>>

\* Faulty: the file that released FAST is left where it is.
KeepsFile(a) ==
  /\ observer[a] = "unlink"
  /\ Observes(a, "watch")
  /\ UNCHANGED <<jobs, server, backend, gate, path, watcher, fast_rearmed, lock, history>>

UnlinksFile(a) ==
  /\ observer[a] = "unlink"
  /\ Observes(a, "watch")
  /\ path' = FALSE
  /\ UNCHANGED <<jobs, server, backend, gate, watcher, fast_rearmed, lock, history>>

\* Faulty: the first watcher is expected to go on.
StartsNobody(a) ==
  /\ observer[a] = "watch"
  /\ Observes(a, "none")
  /\ lock' = NoAxis
  /\ UNCHANGED <<jobs, server, backend, gate, path, watcher, fast_rearmed, history>>

StartsWatcher(a) ==
  /\ observer[a] = "watch"
  /\ Observes(a, "none")
  /\ watcher' = "polling"
  /\ lock' = NoAxis
  /\ UNCHANGED <<jobs, server, backend, gate, path, fast_rearmed, history>>

Observer(a) ==
  LooksAtAz(a) \/ LooksAtAlt(a) \/ ClearsGate(a) \/ UnlinksFile(a) \/ StartsWatcher(a)

\* watch_gate_file.  Only the watcher sets the gate, so its loop does not end
\* in any other way.
WatcherSees ==
  /\ watcher = "polling"
  /\ path
  /\ watcher' = "saw"
  /\ UNCHANGED <<jobs, server, backend, gate, path, fast_rearmed, lock, observer, history>>

WatcherReleases ==
  /\ watcher = "saw"
  /\ gate' = TRUE
  /\ watcher' = "none"
  /\ UNCHANGED <<jobs, server, backend, path, fast_rearmed, lock, observer, history>>

\* The operator.
CreatesFile ==
  /\ ~path
  /\ path' = TRUE
  /\ touched' = TRUE
  /\ UNCHANGED <<jobs, server, backend, gate, watcher, fast_rearmed, lock, observer, disturbed>>

Next ==
  \/ Server
  \/ \E a \in Axis : GotoThread(a) \/ Observer(a)
  \/ WatcherSees \/ WatcherReleases \/ CreatesFile

\* Threads are scheduled; frames and files come when they come.
Fairness ==
  /\ WF_vars(Serves)
  /\ \A a \in Axis : WF_vars(GotoThread(a)) /\ WF_vars(Observer(a))
  /\ WF_vars(WatcherSees \/ WatcherReleases)

Spec == Init /\ [][Next]_vars
FairSpec == Spec /\ Fairness

-----------------------------------------------------------------------------
TypeOK ==
  /\ job \in [Axis -> Job]
  /\ thread \in [Axis -> Points]
  /\ observer \in [Axis -> ObserverPoints]
  /\ frontend \in Frontend
  /\ frontend.at # "idle" => frontend.axis \in Axis
  /\ tcp \in {"serving", "dead"}
  /\ motion_owned \in [Axis -> BOOLEAN]
  /\ motion_commanded \in [Axis -> BOOLEAN]
  /\ speed \in [Axis -> BOOLEAN]
  /\ on_target \in [Axis -> BOOLEAN]
  /\ gate \in BOOLEAN /\ path \in BOOLEAN /\ fast_rearmed \in BOOLEAN
  /\ watcher \in {"none", "polling", "saw"}
  /\ lock \in Axis \cup {NoAxis}
  /\ touched \in BOOLEAN
  /\ disturbed \in [Axis -> BOOLEAN]

\* The fake mount integrates an axis only for a GoTo under way or for manual
\* motion on record: it does not drift on after a cancellation.
NoDrift ==
  \A a \in Axis : motion_commanded[a] => motion_owned[a] \/ is_active(a)

\* The types, and no axis that nobody can stop.
Consistent == TypeOK /\ NoDrift

\* What an open gate lets through was released by a file the operator created
\* since the gate was last closed: the SLOW stage does not pass on FAST's file.
SecondTouch == gate => touched

\* A GoTo published as COMPLETED, "exact", stands at its target, unless its
\* axis was read while it ended or has been moved by hand since.
ExactUnlessRead ==
  \A a \in Axis :
    job[a].state = "COMPLETED" /\ ~disturbed[a] => on_target[a]

\* The server thread dies of nothing but such a read.
DiesOfReads == tcp = "dead" => \E a \in Axis : disturbed[a]

\* The backend without a lock does harm only when a position read overlaps the
\* end of a GoTo.
HarmNeedsOverlap == ExactUnlessRead /\ DiesOfReads

\* A file that appears lets a waiting GoTo go, unless the re-arming observer
\* takes it away: the gate has a watcher again whenever somebody waits.
Waiting(a) == thread[a] \in {"wait", "closed"}

Released == \A a \in Axis : Waiting(a) /\ path ~> ~Waiting(a) \/ ~path

\* Once both FAST jobs have completed the gate is re-armed, unless the client
\* starts its next GoTo before the observer has looked.
Rearmed ==
  FastCompleted(AZ) /\ FastCompleted(ALT)
    ~> fast_rearmed \/ ~(FastCompleted(AZ) /\ FastCompleted(ALT))

\* The two stages follow each other as far as the operator and the client let
\* them.
StagesFollow == Released /\ Rearmed
=============================================================================
