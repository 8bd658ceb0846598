------------------------- MODULE TwoStageGate_proofs -------------------------
(***************************************************************************)
(* Proofs about TwoStageGate, for any two axes and whichever of them the   *)
(* client moves by hand.  IInv is the inductive invariant: what the        *)
(* threads' places say of the jobs, the motors, a position read under way  *)
(* and the gate.                                                           *)
(***************************************************************************)
EXTENDS TwoStageGate, TLAPS

\* A job is active as long as its thread runs goto and _run.
JobHasThread == \A a \in Axis : is_active(a) <=> thread[a] # "none"

\* The server thread acts on a manual command when no GoTo of the axis runs,
\* and a GoTo starts when no manual motion is on record.
ManualAlone ==
  /\ frontend.at = "act" => ~is_active(frontend.axis)
  /\ \A a \in Axis : motion_owned[a] => ~is_active(a) /\ disturbed[a]

\* stop has been called when _run publishes.
HaltedAtPublish == \A a \in Axis : thread[a] = "publish" => ~motion_commanded[a]

\* goto has put the axis at its target and was not cancelled before.
Arrived(a) == thread[a] \in {"halt", "publish"} /\ job[a].state = "GOTO_ACTIVE"

ArrivedExact == \A a \in Axis : Arrived(a) /\ ~disturbed[a] => on_target[a]

\* A read that is under way when its GoTo has arrived, or completed, or when
\* its speed is gone, is on record.
ReadOnRecord ==
  /\ \A a \in Axis :
       Polled(a) /\ (Arrived(a) \/ job[a].state = "COMPLETED") => disturbed[a]
  /\ frontend.at = "speed" => speed[frontend.axis] \/ disturbed[frontend.axis]
  /\ \A a \in Axis : motion_commanded[a] => speed[a]

Motors ==
  /\ JobHasThread /\ ManualAlone /\ HaltedAtPublish /\ NoDrift
  /\ ArrivedExact /\ ReadOnRecord /\ HarmNeedsOverlap

\* An observer past its look at AZ holds the lock.
Rearming(a) == observer[a] \in {"clear", "unlink", "watch"}

LockHeld ==
  \A a \in Axis :
    /\ observer[a] = "look" => lock = a /\ ~fast_rearmed
    /\ Rearming(a) => lock = a /\ fast_rearmed /\ watcher = "none"

\* Before the gate is re-armed it stays open once the watcher is done, and
\* what has passed it passed it open.
FirstRelease ==
  ~fast_rearmed =>
    /\ gate <=> watcher = "none"
    /\ \A a \in Axis :
         thread[a] = "arrive" \/ Arrived(a) \/ job[a].state = "COMPLETED" => gate

\* The file that a watcher sees, or will see, is of the current stage.
FreshFile ==
  /\ watcher = "saw" => touched
  /\ watcher = "polling" \/ (\E a \in Axis : observer[a] = "watch") => (path => touched)

Gating == LockHeld /\ FirstRelease /\ FreshFile /\ SecondTouch

IInv == TypeOK /\ Motors /\ Gating

-----------------------------------------------------------------------------
\* Init establishes the inductive invariant.
LEMMA InitIInv == Init => IInv
  <1> SUFFICES ASSUME Init PROVE IInv
    OBVIOUS
  <1> USE AxisAssumption DEF Init
  <1>1. TypeOK
    BY DEF TypeOK, Job, GotoState, ActiveStates, Variant, Points, ObserverPoints, Frontend, Idle
  <1>2. Motors
    BY DEF Motors, JobHasThread, ManualAlone, HaltedAtPublish, NoDrift, ArrivedExact, Arrived,
       ReadOnRecord, Polled, HarmNeedsOverlap, ExactUnlessRead, DiesOfReads, is_active,
       ActiveStates, Idle
  <1>3. Gating
    BY DEF Gating, LockHeld, Rearming, FirstRelease, Arrived, FreshFile, SecondTouch
  <1> QED BY <1>1, <1>2, <1>3 DEF IInv

-----------------------------------------------------------------------------
(***************************************************************************)
(* The types.                                                              *)
(***************************************************************************)
LEMMA ServerTypes ==
  ASSUME TypeOK, Server
  PROVE  TypeOK'
  <1> USE DEF TypeOK, server, jobs, backend, gating, history, Frontend, Idle
  <1>1. ASSUME NEW a \in Axis, NEW v \in Variant, GotoStarted(a, v)  PROVE TypeOK'
    BY <1>1 DEF GotoStarted, Job, GotoState, ActiveStates, Points
  <1>2. ASSUME NEW a \in Axis, PollChecks(a)  PROVE TypeOK'
    BY <1>2 DEF PollChecks, Ending
  <1>3. CASE PollLooksUp
    BY <1>3 DEF PollLooksUp
  <1>4. CASE PollWrites
    BY <1>4 DEF PollWrites, Integrates
  <1>5. ASSUME NEW a \in ByHand, NEW k \in {"stop", "move"}, Move(a, k)  PROVE TypeOK'
    BY <1>5, ByHandAssumption DEF Move, Job, GotoState, ActiveStates
  <1>6. CASE JoinEnds \/ JoinTimesOut \/ StopIdle
    BY <1>6 DEF JoinEnds, JoinTimesOut, StopIdle
  <1>7. CASE StopOwned
    BY <1>7 DEF StopOwned, Acts, Integrates
  <1>8. CASE HandMove
    BY <1>8 DEF HandMove, Acts, Integrates
  <1> QED BY <1>1, <1>2, <1>3, <1>4, <1>5, <1>6, <1>7, <1>8 DEF Server, Serves

\* A thread's step keeps the types.
LEMMA ThreadTypes ==
  ASSUME TypeOK, NEW a \in Axis, GotoThread(a) \/ Observer(a)
  PROVE  TypeOK'
  <1> USE DEF TypeOK, server, jobs, backend, gating, history
  <1>1. CASE GotoBegins(a) \/ LooksAtGate(a)
    BY <1>1 DEF GotoBegins, LooksAtGate, Goes, Points
  <1>2. CASE LooksAtCancellation(a)
    BY <1>2 DEF LooksAtCancellation, Goes, Points, Integrates
  <1>3. CASE Arrive(a) \/ Halt(a)
    BY <1>3 DEF Arrive, Halt, Goes, Points, Polled
  <1>4. CASE Publish(a)
    BY <1>4 DEF Publish, Goes, Points, Outcome, Job, GotoState, ObserverPoints
  <1>5. CASE LooksAtAz(a) \/ LooksAtAlt(a)
    BY <1>5 DEF LooksAtAz, LooksAtAlt, Observes, ObserverPoints
  <1>6. CASE ClearsGate(a) \/ UnlinksFile(a) \/ StartsWatcher(a)
    BY <1>6 DEF ClearsGate, UnlinksFile, StartsWatcher, Observes, ObserverPoints
  <1> QED BY <1>1, <1>2, <1>3, <1>4, <1>5, <1>6 DEF GotoThread, Observer

\* So do the steps of the gate's watchers ...
LEMMA GateTypes ==
  ASSUME TypeOK, WatcherSees \/ WatcherReleases \/ CreatesFile
  PROVE  TypeOK'
  BY DEF WatcherSees, WatcherReleases, CreatesFile, TypeOK, server, jobs, backend, history

\* ... and every other one.
LEMMA StepTypes == TypeOK /\ [Next]_vars => TypeOK'
  <1>1. TypeOK /\ UNCHANGED vars => TypeOK'
    BY DEF TypeOK, vars
  <1> QED BY <1>1, ServerTypes, ThreadTypes, GateTypes DEF Next

-----------------------------------------------------------------------------
(***************************************************************************)
(* The motors.                                                             *)
(***************************************************************************)
\* The server thread reads and moves axes without upsetting what the GoTo
\* threads rely on.
LEMMA ServerMotors ==
  ASSUME TypeOK, Motors, Server
  PROVE  Motors'
  <1> USE DEF TypeOK, Motors, server, jobs, backend, gating, history, Frontend, Idle, Job
  <1> USE DEF is_active, ActiveStates, Arrived, Polled, Ending, JobHasThread, ManualAlone,
          HaltedAtPublish, NoDrift, ArrivedExact, ReadOnRecord, HarmNeedsOverlap,
          ExactUnlessRead, DiesOfReads
  <1>1. ASSUME NEW a \in Axis, NEW v \in Variant, GotoStarted(a, v)  PROVE Motors'
    BY <1>1 DEF GotoStarted, Receives
  <1>2. ASSUME NEW a \in Axis, PollChecks(a)  PROVE Motors'
    BY <1>2 DEF PollChecks, Receives
  <1>3. CASE PollLooksUp
    BY <1>3 DEF PollLooksUp
  <1>4. CASE PollWrites
    BY <1>4 DEF PollWrites, Integrates
  <1>5. ASSUME NEW a \in ByHand, NEW k \in {"stop", "move"}, Move(a, k)  PROVE Motors'
    BY <1>5, ByHandAssumption DEF Move, Receives
  <1>6. CASE JoinEnds \/ JoinTimesOut \/ StopIdle
    BY <1>6 DEF JoinEnds, JoinTimesOut, StopIdle, Acts
  <1>7. CASE StopOwned
    BY <1>7 DEF StopOwned, Acts, Integrates
  <1>8. CASE HandMove
    BY <1>8 DEF HandMove, Acts, Integrates
  <1> QED BY <1>1, <1>2, <1>3, <1>4, <1>5, <1>6, <1>7, <1>8 DEF Server, Serves

\* A GoTo thread moves an axis nobody else moves, and is not disturbed by a
\* read unless the record says so.
LEMMA ThreadMotors ==
  ASSUME TypeOK, Motors, NEW a \in Axis, GotoThread(a)
  PROVE  Motors'
  <1> USE DEF TypeOK, Motors, server, jobs, backend, gating, history, Frontend, Idle, Job
  <1> USE DEF is_active, ActiveStates, Arrived, Polled, Ending, JobHasThread, ManualAlone,
          HaltedAtPublish, NoDrift, ArrivedExact, ReadOnRecord, HarmNeedsOverlap,
          ExactUnlessRead, DiesOfReads
  <1> USE DEF At, Goes
  <1>1. CASE GotoBegins(a)
    BY <1>1 DEF GotoBegins
  <1>2. CASE LooksAtGate(a)
    BY <1>2 DEF LooksAtGate
  <1>3. CASE LooksAtCancellation(a)
    BY <1>3 DEF LooksAtCancellation, Integrates
  <1>4. CASE Arrive(a)
    BY <1>4 DEF Arrive
  <1>5. CASE Halt(a)
    BY <1>5 DEF Halt
  <1>6. CASE Publish(a)
    BY <1>6 DEF Publish, Outcome, GotoState
  <1> QED BY <1>1, <1>2, <1>3, <1>4, <1>5, <1>6 DEF GotoThread

\* The observers, the watcher and the operator do not touch the motors.
LEMMA StepMotors == TypeOK /\ Motors /\ [Next]_vars => Motors'
  <1> SUFFICES ASSUME TypeOK, Motors, [Next]_vars PROVE Motors'
    OBVIOUS
  <1>1. CASE \/ \E a \in Axis : Observer(a)
             \/ WatcherSees \/ WatcherReleases \/ CreatesFile \/ UNCHANGED vars
    <2>1. UNCHANGED <<jobs, server, backend, disturbed>>
      BY <1>1 DEF Observer, LooksAtAz, LooksAtAlt, ClearsGate, UnlinksFile, StartsWatcher,
         WatcherSees, WatcherReleases, CreatesFile, vars, jobs, server, backend, history
    <2> QED BY <2>1 DEF Motors, jobs, server, backend, is_active, ActiveStates, Arrived, Polled, Ending, JobHasThread, ManualAlone,
         HaltedAtPublish, NoDrift, ArrivedExact, ReadOnRecord, HarmNeedsOverlap,
         ExactUnlessRead, DiesOfReads
  <1> QED BY <1>1, ServerMotors, ThreadMotors DEF Next

-----------------------------------------------------------------------------
(***************************************************************************)
(* The gate.                                                               *)
(***************************************************************************)
\* The server thread gives no job a look at the gate that it has not had.
LEMMA ServerGating ==
  ASSUME TypeOK, Motors, Gating, Server
  PROVE  Gating'
  <1> DEFINE Changes ==
        \A a \in Axis :
          /\ thread'[a] = thread[a] \/ thread'[a] = "start"
          /\ \/ job'[a].state = job[a].state
             \/ job'[a].state = "STOPPING"
             \/ thread'[a] = "start" /\ job'[a].state = "GOTO_ACTIVE"
  <1>1. UNCHANGED <<gate, path, watcher, fast_rearmed, lock, observer, touched>> /\ Changes
    <2>1. ASSUME NEW a \in Axis, NEW v \in Variant, GotoStarted(a, v)
          PROVE  UNCHANGED <<gate, path, watcher, fast_rearmed, lock, observer, touched>> /\ Changes
      BY <2>1 DEF GotoStarted, gating, TypeOK, Job
    <2>2. ASSUME NEW a \in ByHand, NEW k \in {"stop", "move"}, Move(a, k)
          PROVE  UNCHANGED <<gate, path, watcher, fast_rearmed, lock, observer, touched>> /\ Changes
      BY <2>2, ByHandAssumption DEF Move, gating, history, TypeOK, Job
    <2>3. ASSUME Serves \/ \E a \in Axis : PollChecks(a)
          PROVE  UNCHANGED <<gate, path, watcher, fast_rearmed, lock, observer, touched, jobs>>
      <3>1. CASE PollLooksUp \/ PollWrites \/ JoinEnds \/ JoinTimesOut \/ StopIdle
        BY <3>1 DEF PollLooksUp, PollWrites, JoinEnds, JoinTimesOut, StopIdle, history, gating, jobs
      <3>2. CASE StopOwned \/ HandMove
        BY <3>2 DEF StopOwned, HandMove, history, gating, jobs
      <3>3. CASE \E a \in Axis : PollChecks(a)
        BY <3>3 DEF PollChecks, gating, jobs
      <3> QED BY <2>3, <3>1, <3>2, <3>3 DEF Serves
    <2> QED BY <2>1, <2>2, <2>3 DEF Server, jobs
  <1>2. (LockHeld /\ FreshFile /\ SecondTouch)'
    BY <1>1 DEF Gating, LockHeld, Rearming, FreshFile, SecondTouch
  <1>3. FirstRelease'
    BY <1>1 DEF Gating, FirstRelease, Arrived
  <1> QED BY <1>2, <1>3 DEF Gating

\* A GoTo thread passes the gate when it finds it open.
LEMMA ThreadGating ==
  ASSUME TypeOK, Motors, Gating, NEW a \in Axis, GotoThread(a)
  PROVE  Gating'
  <1>0. /\ UNCHANGED <<gate, path, watcher, fast_rearmed, lock, touched>>
        /\ \A b \in Axis : observer'[b] = observer[b] \/ observer'[b] = "observe"
    BY DEF GotoThread, GotoBegins, LooksAtGate, LooksAtCancellation, Arrive, Halt, Publish,
       gating, history, TypeOK
  <1>1. (LockHeld /\ FreshFile /\ SecondTouch)'
    BY <1>0 DEF Gating, LockHeld, Rearming, FreshFile, SecondTouch
  <1>2. FirstRelease'
    <2> SUFFICES ASSUME ~fast_rearmed
                 PROVE  \A b \in Axis : thread'[b] = "arrive" \/ Arrived(b)'
                                          \/ job'[b].state = "COMPLETED" => gate
      BY <1>0 DEF Gating, FirstRelease
    <2>1. \A b \in Axis : thread[b] = "arrive" \/ Arrived(b) \/ job[b].state = "COMPLETED" => gate
      BY DEF Gating, FirstRelease
    <2> USE DEF At, Goes, Arrived, jobs, TypeOK, Job
    <2>2. CASE GotoBegins(a) \/ LooksAtGate(a)
      BY <2>1, <2>2 DEF GotoBegins, LooksAtGate
    <2>3. CASE LooksAtCancellation(a)
      BY <2>1, <2>3 DEF LooksAtCancellation
    <2>4. CASE Arrive(a) \/ Halt(a)
      BY <2>1, <2>4 DEF Arrive, Halt
    <2>5. CASE Publish(a)
      <3>1. is_active(a) /\ (job[a].state = "STOPPING" \/ Arrived(a))
        BY <2>5 DEF Publish, Motors, JobHasThread, is_active, ActiveStates
      <3> QED BY <2>1, <2>5, <3>1 DEF Publish, Outcome
    <2> QED BY <2>2, <2>3, <2>4, <2>5 DEF GotoThread
  <1> QED BY <1>1, <1>2 DEF Gating

\* The observer that re-arms the gate finds it open with its watcher gone, and
\* takes FAST's file away before there is a watcher again.
LEMMA ObserverGating ==
  ASSUME TypeOK, Gating, NEW a \in Axis, Observer(a)
  PROVE  Gating'
  <1>0. UNCHANGED jobs /\ \A b \in Axis \ {a} : observer'[b] = observer[b]
    BY DEF Observer, LooksAtAz, LooksAtAlt, ClearsGate, UnlinksFile, StartsWatcher, Observes, TypeOK
  <1> USE <1>0, AxisAssumption
  <1> USE DEF TypeOK, Gating, LockHeld, Rearming, FirstRelease, FreshFile, SecondTouch, Arrived,
         Observes, jobs, backend, server, history
  <1>1. CASE LooksAtAz(a)
    BY <1>1 DEF LooksAtAz
  <1>2. CASE LooksAtAlt(a)
    <2>1. CASE FastCompleted(ALT)
      <3>1. ~fast_rearmed /\ gate /\ watcher = "none"
        BY <1>2, <2>1 DEF LooksAtAlt, FastCompleted, Axis
      <3> QED BY <1>2, <2>1, <3>1 DEF LooksAtAlt
    <2>2. CASE ~FastCompleted(ALT)
      BY <1>2, <2>2 DEF LooksAtAlt
    <2> QED BY <2>1, <2>2
  <1>3. CASE ClearsGate(a)
    BY <1>3 DEF ClearsGate
  <1>4. CASE UnlinksFile(a)
    BY <1>4 DEF UnlinksFile
  <1>5. CASE StartsWatcher(a)
    BY <1>5 DEF StartsWatcher
  <1> QED BY <1>1, <1>2, <1>3, <1>4, <1>5 DEF Observer

\* The watcher opens the gate for a file of the current stage.
LEMMA WatcherGating ==
  ASSUME TypeOK, Gating, WatcherSees \/ WatcherReleases \/ CreatesFile
  PROVE  Gating'
  <1> USE DEF TypeOK, Gating, LockHeld, Rearming, FirstRelease, FreshFile, SecondTouch, Arrived,
         jobs, backend, server, history
  <1>1. CASE WatcherSees
    BY <1>1 DEF WatcherSees
  <1>2. CASE WatcherReleases
    BY <1>2 DEF WatcherReleases
  <1>3. CASE CreatesFile
    BY <1>3 DEF CreatesFile
  <1> QED BY <1>1, <1>2, <1>3

\* Every step keeps what the gate promises.
LEMMA StepGating == TypeOK /\ Motors /\ Gating /\ [Next]_vars => Gating'
  <1>1. Gating /\ UNCHANGED vars => Gating'
    BY DEF vars, Gating, LockHeld, Rearming, FirstRelease, FreshFile, SecondTouch, Arrived
  <1> QED BY <1>1, ServerGating, ThreadGating, ObserverGating, WatcherGating DEF Next

\* The invariant holds of every behaviour.
LEMMA Inductive == Spec => []IInv
  <1>1. IInv /\ [Next]_vars => IInv'
    BY StepTypes, StepMotors, StepGating DEF IInv
  <1> QED BY InitIInv, <1>1, PTL DEF Spec

-----------------------------------------------------------------------------
\* The fake mount never drives an axis that nobody can stop.
THEOREM NobodyDrifts == Spec => []Consistent
  <1>1. IInv => Consistent
    BY DEF IInv, Motors, Consistent
  <1> QED BY <1>1, Inductive, PTL

\* What passes the gate was released by a file of its own stage.
THEOREM ReleasedByOwnFile == Spec => []SecondTouch
  <1>1. IInv => SecondTouch
    BY DEF IInv, Gating
  <1> QED BY <1>1, Inductive, PTL

\* The backend without a lock does harm only where a position read overlaps
\* the end of a GoTo.
THEOREM HarmOnlyByOverlap == Spec => []HarmNeedsOverlap
  <1>1. IInv => HarmNeedsOverlap
    BY DEF IInv, Motors
  <1> QED BY <1>1, Inductive, PTL
=============================================================================
