------------------------- MODULE GotoBridge_proofs -------------------------
(***************************************************************************)
(* Proofs about GotoBridge, for every set of axes and directions and every *)
(* bound.  IInv is the inductive invariant: types, which thread owns an    *)
(* axis, and where the motor of an active GoTo is.                         *)
(***************************************************************************)
EXTENDS GotoBridge, TLAPS

\* A thread past backend.goto's first read has chosen a direction.
ThreadHasDir ==
  \A a \in Axis :
    thread[a].at \in {"prestop", "initial", "activate", "loop", "stop", "settle"}
      => thread[a].dir \in Dir

\* From the first move to the final STOP the motor runs in the thread's
\* direction; after a final STOP that did not raise, it is still.
ThreadDrivesMotor ==
  \A a \in Axis :
    /\ thread[a].at \in {"none", "start", "prestop", "initial", "activate"}
         => ~thread[a].moved
    /\ thread[a].at \in {"loop", "stop"} => motor[a] = thread[a].dir
    /\ thread[a].at = "settle" => motor[a] = Still
    /\ thread[a].at = "finish" /\ thread[a].moved /\ thread[a].ending # "error"
         => motor[a] = Still

\* motion_stopped belongs to jobs that are over.
ActiveUnproved == \A a \in Axis : is_active(a) => ~job[a].motion_stopped

Types == TypeOK /\ ThreadHasDir
IInv == Types /\ OneOwner /\ ThreadDrivesMotor /\ ActiveUnproved

-----------------------------------------------------------------------------
\* Init establishes the inductive invariant.
LEMMA InitIInv == Init => IInv
  BY BoundAssumption
  DEF Init, IInv, Types, OneOwner, TypeOK, ThreadHasDir, ThreadDrivesMotor,
      ActiveUnproved, ThreadRunsJob, OneCommander, AxisOwnership,
      OwnedHasDirection, is_active, ActiveStates, TerminalStates, GotoState,
      GotoJob, NoJob, Thread, NoThread, Points, Endings, Frontend, Idle,
      MoveKinds, Reply, NoReply, Answers

\* Every write outcome leaves the fault counter within its bound.
LEMMA FaultBound ==
  ASSUME TypeOK, NEW o \in SendOutcomes, CountFault(o # "sent")
  PROVE  faults' \in 0 .. MaxFaults
  BY BoundAssumption DEF TypeOK, SendOutcomes, CountFault, FaultPossible

\* Neither a move nor a STOP turns a motor into anything but a motor.
LEMMA MotorTypes ==
  ASSUME TypeOK, NEW a \in Axis, NEW o, NEW d \in Dir
  PROVE  /\ MoveReaches(a, d, o) => motor' \in [Axis -> Dir \cup {Still}]
         /\ StopReaches(a, d, o) => motor' \in [Axis -> Dir \cup {Still}]
  BY DEF TypeOK, MoveReaches, StopReaches, StopEffect

\* The updates of a thread's record, each with the type it keeps.
LEMMA GoesUpdate ==
  ASSUME TypeOK, NEW a \in Axis, NEW p \in Points, Goes(a, p)
  PROVE  /\ thread' \in [Axis -> Thread]
         /\ \A b \in Axis \ {a} : thread'[b] = thread[b]
         /\ thread'[a].at = p
         /\ thread'[a].dir = thread[a].dir
         /\ thread'[a].moved = thread[a].moved
         /\ thread'[a].ending = thread[a].ending
  BY DEF TypeOK, Goes, Thread

LEMMA AimsUpdate ==
  ASSUME TypeOK, NEW a \in Axis, NEW p \in Points, NEW d \in Dir, Aims(a, p, d)
  PROVE  /\ thread' \in [Axis -> Thread]
         /\ \A b \in Axis \ {a} : thread'[b] = thread[b]
         /\ thread'[a].at = p
         /\ thread'[a].dir = d
         /\ thread'[a].moved = thread[a].moved
  BY DEF TypeOK, Aims, Thread

LEMMA EndsUpdate ==
  ASSUME TypeOK, NEW a \in Axis, NEW e \in Endings, Ends(a, e)
  PROVE  /\ thread' \in [Axis -> Thread]
         /\ \A b \in Axis \ {a} : thread'[b] = thread[b]
         /\ thread'[a].at = "finish"
         /\ thread'[a].dir = thread[a].dir
         /\ thread'[a].moved = thread[a].moved
         /\ thread'[a].ending = e
  BY DEF TypeOK, Ends, Thread, Points

LEMMA LeavesUpdate ==
  ASSUME TypeOK, NEW a \in Axis, NEW e \in Endings, Leaves(a, e)
  PROVE  /\ thread' \in [Axis -> Thread]
         /\ \A b \in Axis \ {a} : thread'[b] = thread[b]
         /\ thread'[a].at = "stop"
         /\ thread'[a].dir = thread[a].dir
         /\ thread'[a].moved = thread[a].moved
  BY DEF TypeOK, Leaves, Thread, Points

-----------------------------------------------------------------------------
(***************************************************************************)
(* The GoTo thread's actions.  <1>1 says what the action does to the       *)
(* thread's record; the conjuncts of IInv follow from that.                *)
(***************************************************************************)

LEMMA GotoBeginsStep ==
  ASSUME IInv, NEW a \in Axis, GotoBegins(a)
  PROVE  IInv'
<1>0. TypeOK /\ thread[a] \in Thread /\ motor \in [Axis -> Dir \cup {Still}]
  BY DEF IInv, Types, TypeOK
<1>1. /\ thread' \in [Axis -> Thread]
      /\ \A b \in Axis \ {a} : thread'[b] = thread[b]
      /\ \A b \in Axis \ {a} : motor'[b] = motor[b]
      /\ thread'[a].moved = thread[a].moved
      /\ \/ thread'[a].at = "finish"
         \/ thread'[a].at = "prestop" /\ thread'[a].dir \in Dir
  BY <1>0, EndsUpdate, AimsUpdate DEF GotoBegins, Points, Endings
<1>2. TypeOK'
  BY <1>0, <1>1, BoundAssumption DEF GotoBegins, TypeOK, IInv, Types, ThreadHasDir, At
<1>3. ThreadHasDir'
  BY <1>1 DEF GotoBegins, IInv, Types, ThreadHasDir, At
<1>4. OneOwner'
  BY <1>0, <1>1 DEF GotoBegins, TypeOK, At, IInv, OneOwner, ThreadRunsJob, OneCommander, AxisOwnership, OwnedHasDirection, is_active, ActiveStates
<1>5. ThreadDrivesMotor'
  BY <1>0, <1>1 DEF GotoBegins, At, IInv, Types, ThreadHasDir, ThreadDrivesMotor
<1>6. ActiveUnproved'
  BY DEF GotoBegins, IInv, ActiveUnproved, is_active
<1> QED
  BY <1>2, <1>3, <1>4, <1>5, <1>6 DEF IInv, Types


LEMMA PreStopStep ==
  ASSUME IInv, NEW a \in Axis, PreStop(a)
  PROVE  IInv'
<1>0. TypeOK /\ thread[a] \in Thread /\ motor \in [Axis -> Dir \cup {Still}]
  BY DEF IInv, Types, TypeOK
<1>1. /\ thread' \in [Axis -> Thread]
      /\ \A b \in Axis \ {a} : thread'[b] = thread[b]
      /\ \A b \in Axis \ {a} : motor'[b] = motor[b]
      /\ thread'[a].at \in {"initial", "finish"}
      /\ thread'[a].dir = thread[a].dir
      /\ thread'[a].moved = thread[a].moved
  BY <1>0, GoesUpdate, EndsUpdate DEF PreStop, Points, Endings, StopReaches, StopEffect
<1>2. TypeOK'
  BY <1>0, <1>1, BoundAssumption DEF PreStop, TypeOK, SendOutcomes, FaultPossible, CountFault, StopReaches, StopEffect, IInv, Types, ThreadHasDir, At
<1>3. ThreadHasDir'
  BY <1>1 DEF PreStop, IInv, Types, ThreadHasDir, At
<1>4. OneOwner'
  BY <1>0, <1>1 DEF PreStop, TypeOK, At, IInv, OneOwner, ThreadRunsJob, OneCommander, AxisOwnership, OwnedHasDirection, is_active, ActiveStates
<1>5. ThreadDrivesMotor'
  BY <1>0, <1>1 DEF PreStop, At, IInv, Types, ThreadHasDir, ThreadDrivesMotor, StopReaches, StopEffect
<1>6. ActiveUnproved'
  BY DEF PreStop, IInv, ActiveUnproved, is_active
<1> QED
  BY <1>2, <1>3, <1>4, <1>5, <1>6 DEF IInv, Types


LEMMA InitialReadStep ==
  ASSUME IInv, NEW a \in Axis, InitialRead(a)
  PROVE  IInv'
<1>0. TypeOK /\ thread[a] \in Thread /\ motor \in [Axis -> Dir \cup {Still}]
  BY DEF IInv, Types, TypeOK
<1>1. /\ thread' \in [Axis -> Thread]
      /\ \A b \in Axis \ {a} : thread'[b] = thread[b]
      /\ \A b \in Axis \ {a} : motor'[b] = motor[b]
      /\ thread'[a].moved = thread[a].moved
      /\ \/ thread'[a].at = "finish"
         \/ thread'[a].at = "activate" /\ thread'[a].dir \in Dir
  BY <1>0, EndsUpdate, AimsUpdate DEF InitialRead, Points, Endings
<1>2. TypeOK'
  BY <1>0, <1>1, BoundAssumption DEF InitialRead, TypeOK, ReadRaises, FaultPossible, CountFault, IInv, Types, ThreadHasDir, At
<1>3. ThreadHasDir'
  BY <1>1 DEF InitialRead, IInv, Types, ThreadHasDir, At
<1>4. OneOwner'
  BY <1>0, <1>1 DEF InitialRead, TypeOK, At, IInv, OneOwner, ThreadRunsJob, OneCommander, AxisOwnership, OwnedHasDirection, is_active, ActiveStates
<1>5. ThreadDrivesMotor'
  BY <1>0, <1>1 DEF InitialRead, At, IInv, Types, ThreadHasDir, ThreadDrivesMotor
<1>6. ActiveUnproved'
  BY DEF InitialRead, IInv, ActiveUnproved, is_active
<1> QED
  BY <1>2, <1>3, <1>4, <1>5, <1>6 DEF IInv, Types


LEMMA ActivateStep ==
  ASSUME IInv, NEW a \in Axis, Activate(a)
  PROVE  IInv'
<1>0. TypeOK /\ thread[a] \in Thread /\ motor \in [Axis -> Dir \cup {Still}]
  BY DEF IInv, Types, TypeOK
<1>1. /\ thread' \in [Axis -> Thread]
      /\ \A b \in Axis \ {a} : thread'[b] = thread[b]
      /\ \A b \in Axis \ {a} : motor'[b] = motor[b]
      /\ thread'[a].dir = thread[a].dir
      /\ \/ /\ thread'[a].at = "loop"
            /\ motor'[a] = thread[a].dir
         \/ thread'[a].at = "finish" /\ thread'[a].ending = "error"
  <2>1. PICK o \in SendOutcomes :
          /\ MoveReaches(a, thread[a].dir, o)
          /\ IF o = "sent"
               THEN thread' = [thread EXCEPT ![a].at = "loop", ![a].moved = TRUE]
               ELSE Ends(a, "error")
    BY DEF Activate
  <2>2. CASE o = "sent"
    <3> DEFINE t == [thread[a] EXCEPT !.at = "loop", !.moved = TRUE]
    <3>1. t \in Thread /\ t.at = "loop" /\ t.dir = thread[a].dir
      BY <1>0 DEF Thread, Points
    <3>2. thread' = [thread EXCEPT ![a] = t]
      BY <2>1, <2>2
    <3>3. motor' = [motor EXCEPT ![a] = thread[a].dir]
      BY <2>1, <2>2 DEF MoveReaches
    <3> HIDE DEF t
    <3> QED
      BY <1>0, <3>1, <3>2, <3>3 DEF TypeOK
  <2>3. CASE o # "sent"
    BY <1>0, <2>1, <2>3, EndsUpdate DEF Endings, MoveReaches
  <2> QED
    BY <2>2, <2>3
<1>2. TypeOK'
  BY <1>0, <1>1, BoundAssumption DEF Activate, TypeOK, SendOutcomes, FaultPossible, CountFault, MoveReaches, IInv, Types, ThreadHasDir, At
<1>3. ThreadHasDir'
  BY <1>1 DEF Activate, IInv, Types, ThreadHasDir, At
<1>4. OneOwner'
  BY <1>0, <1>1 DEF Activate, TypeOK, At, IInv, OneOwner, ThreadRunsJob, OneCommander, AxisOwnership, OwnedHasDirection, is_active, ActiveStates
<1>5. ThreadDrivesMotor'
  BY <1>0, <1>1 DEF Activate, At, IInv, Types, ThreadHasDir, ThreadDrivesMotor, MoveReaches
<1>6. ActiveUnproved'
  BY DEF Activate, IInv, ActiveUnproved, is_active
<1> QED
  BY <1>2, <1>3, <1>4, <1>5, <1>6 DEF IInv, Types


LEMMA SampleAbortsStep ==
  ASSUME IInv, NEW a \in Axis, SampleAborts(a)
  PROVE  IInv'
<1>0. TypeOK /\ thread[a] \in Thread /\ motor \in [Axis -> Dir \cup {Still}]
  BY DEF IInv, Types, TypeOK
<1>1. /\ thread' \in [Axis -> Thread]
      /\ \A b \in Axis \ {a} : thread'[b] = thread[b]
      /\ \A b \in Axis \ {a} : motor'[b] = motor[b]
      /\ thread'[a].at = "stop"
      /\ thread'[a].dir = thread[a].dir
      /\ thread'[a].moved = thread[a].moved
  BY <1>0, LeavesUpdate DEF SampleAborts, Points, Endings
<1>2. TypeOK'
  BY <1>0, <1>1, BoundAssumption DEF SampleAborts, TypeOK, IInv, Types, ThreadHasDir, At
<1>3. ThreadHasDir'
  BY <1>1 DEF SampleAborts, IInv, Types, ThreadHasDir, At
<1>4. OneOwner'
  BY <1>0, <1>1 DEF SampleAborts, TypeOK, At, IInv, OneOwner, ThreadRunsJob, OneCommander, AxisOwnership, OwnedHasDirection, is_active, ActiveStates
<1>5. ThreadDrivesMotor'
  BY <1>0, <1>1 DEF SampleAborts, At, IInv, Types, ThreadHasDir, ThreadDrivesMotor
<1>6. ActiveUnproved'
  BY DEF SampleAborts, IInv, ActiveUnproved, is_active
<1> QED
  BY <1>2, <1>3, <1>4, <1>5, <1>6 DEF IInv, Types


LEMMA SampleContinuesStep ==
  ASSUME IInv, NEW a \in Axis, SampleContinues(a)
  PROVE  IInv'
<1>0. TypeOK /\ thread[a] \in Thread /\ motor \in [Axis -> Dir \cup {Still}]
  BY DEF IInv, Types, TypeOK
<1>1. /\ thread' \in [Axis -> Thread]
      /\ \A b \in Axis \ {a} : thread'[b] = thread[b]
      /\ \A b \in Axis \ {a} : motor'[b] = motor[b]
      /\ thread'[a].at = "loop"
      /\ thread'[a].dir = thread[a].dir
      /\ thread'[a].moved = thread[a].moved
  <2>1. [thread[a] EXCEPT !.samples = @ + 1] \in Thread
    BY <1>0, BoundAssumption DEF SampleContinues, Samples, Thread
  <2> QED
    BY <1>0, <2>1 DEF Counts, SampleContinues, Thread, TypeOK, At, Samples
<1>2. TypeOK'
  BY <1>0, <1>1, BoundAssumption DEF SampleContinues, TypeOK, Samples, IInv, Types, ThreadHasDir, At
<1>3. ThreadHasDir'
  BY <1>1 DEF SampleContinues, Samples, IInv, Types, ThreadHasDir, At
<1>4. OneOwner'
  BY <1>0, <1>1 DEF SampleContinues, Samples, TypeOK, At, IInv, OneOwner, ThreadRunsJob, OneCommander, AxisOwnership, OwnedHasDirection, is_active, ActiveStates
<1>5. ThreadDrivesMotor'
  BY <1>0, <1>1 DEF SampleContinues, Samples, At, IInv, Types, ThreadHasDir, ThreadDrivesMotor
<1>6. ActiveUnproved'
  BY DEF SampleContinues, Samples, IInv, ActiveUnproved, is_active
<1> QED
  BY <1>2, <1>3, <1>4, <1>5, <1>6 DEF IInv, Types


LEMMA SampleReachesStep ==
  ASSUME IInv, NEW a \in Axis, SampleReaches(a)
  PROVE  IInv'
<1>0. TypeOK /\ thread[a] \in Thread /\ motor \in [Axis -> Dir \cup {Still}]
  BY DEF IInv, Types, TypeOK
<1>1. /\ thread' \in [Axis -> Thread]
      /\ \A b \in Axis \ {a} : thread'[b] = thread[b]
      /\ \A b \in Axis \ {a} : motor'[b] = motor[b]
      /\ thread'[a].at = "stop"
      /\ thread'[a].dir = thread[a].dir
      /\ thread'[a].moved = thread[a].moved
  BY <1>0, LeavesUpdate DEF SampleReaches, Samples, Points, Endings
<1>2. TypeOK'
  BY <1>0, <1>1, BoundAssumption DEF SampleReaches, TypeOK, Samples, IInv, Types, ThreadHasDir, At
<1>3. ThreadHasDir'
  BY <1>1 DEF SampleReaches, Samples, IInv, Types, ThreadHasDir, At
<1>4. OneOwner'
  BY <1>0, <1>1 DEF SampleReaches, Samples, TypeOK, At, IInv, OneOwner, ThreadRunsJob, OneCommander, AxisOwnership, OwnedHasDirection, is_active, ActiveStates
<1>5. ThreadDrivesMotor'
  BY <1>0, <1>1 DEF SampleReaches, Samples, At, IInv, Types, ThreadHasDir, ThreadDrivesMotor
<1>6. ActiveUnproved'
  BY DEF SampleReaches, Samples, IInv, ActiveUnproved, is_active
<1> QED
  BY <1>2, <1>3, <1>4, <1>5, <1>6 DEF IInv, Types


LEMMA SampleRaisesStep ==
  ASSUME IInv, NEW a \in Axis, SampleRaises(a)
  PROVE  IInv'
<1>0. TypeOK /\ thread[a] \in Thread /\ motor \in [Axis -> Dir \cup {Still}]
  BY DEF IInv, Types, TypeOK
<1>1. /\ thread' \in [Axis -> Thread]
      /\ \A b \in Axis \ {a} : thread'[b] = thread[b]
      /\ \A b \in Axis \ {a} : motor'[b] = motor[b]
      /\ thread'[a].at = "stop"
      /\ thread'[a].dir = thread[a].dir
      /\ thread'[a].moved = thread[a].moved
  BY <1>0, LeavesUpdate DEF SampleRaises, Samples, Points, Endings
<1>2. TypeOK'
  BY <1>0, <1>1, BoundAssumption DEF SampleRaises, TypeOK, Samples, ReadRaises, FaultPossible, CountFault, IInv, Types, ThreadHasDir, At
<1>3. ThreadHasDir'
  BY <1>1 DEF SampleRaises, Samples, IInv, Types, ThreadHasDir, At
<1>4. OneOwner'
  BY <1>0, <1>1 DEF SampleRaises, Samples, TypeOK, At, IInv, OneOwner, ThreadRunsJob, OneCommander, AxisOwnership, OwnedHasDirection, is_active, ActiveStates
<1>5. ThreadDrivesMotor'
  BY <1>0, <1>1 DEF SampleRaises, Samples, At, IInv, Types, ThreadHasDir, ThreadDrivesMotor
<1>6. ActiveUnproved'
  BY DEF SampleRaises, Samples, IInv, ActiveUnproved, is_active
<1> QED
  BY <1>2, <1>3, <1>4, <1>5, <1>6 DEF IInv, Types


LEMMA FinalStopStep ==
  ASSUME IInv, NEW a \in Axis, FinalStop(a)
  PROVE  IInv'
<1>0. TypeOK /\ thread[a] \in Thread /\ motor \in [Axis -> Dir \cup {Still}]
  BY DEF IInv, Types, TypeOK
<1>1. /\ thread' \in [Axis -> Thread]
      /\ \A b \in Axis \ {a} : thread'[b] = thread[b]
      /\ \A b \in Axis \ {a} : motor'[b] = motor[b]
      /\ thread'[a].dir = thread[a].dir
      /\ \/ thread'[a].at = "finish" /\ thread'[a].ending = "error"
         \/ /\ thread'[a].at \in {"settle", "finish"}
            /\ motor'[a] = Still
  BY <1>0, GoesUpdate, EndsUpdate DEF AfterStop, FinalStop, Points, Endings, StopReaches, StopEffect, IInv, ThreadDrivesMotor, At
<1>2. TypeOK'
  BY <1>0, <1>1, BoundAssumption DEF FinalStop, TypeOK, SendOutcomes, FaultPossible, CountFault, StopReaches, StopEffect, IInv, Types, ThreadHasDir, At
<1>3. ThreadHasDir'
  BY <1>1 DEF FinalStop, IInv, Types, ThreadHasDir, At
<1>4. OneOwner'
  BY <1>0, <1>1 DEF FinalStop, TypeOK, At, IInv, OneOwner, ThreadRunsJob, OneCommander, AxisOwnership, OwnedHasDirection, is_active, ActiveStates
<1>5. ThreadDrivesMotor'
  BY <1>0, <1>1 DEF FinalStop, At, IInv, Types, ThreadHasDir, ThreadDrivesMotor, StopReaches, StopEffect
<1>6. ActiveUnproved'
  BY DEF FinalStop, IInv, ActiveUnproved, is_active
<1> QED
  BY <1>2, <1>3, <1>4, <1>5, <1>6 DEF IInv, Types


LEMMA SettleStep ==
  ASSUME IInv, NEW a \in Axis, Settle(a)
  PROVE  IInv'
<1>0. TypeOK /\ thread[a] \in Thread /\ motor \in [Axis -> Dir \cup {Still}]
  BY DEF IInv, Types, TypeOK
<1>1. /\ thread' \in [Axis -> Thread]
      /\ \A b \in Axis \ {a} : thread'[b] = thread[b]
      /\ \A b \in Axis \ {a} : motor'[b] = motor[b]
      /\ thread'[a].at = "finish"
      /\ thread'[a].moved = thread[a].moved
  BY <1>0, EndsUpdate DEF Settle, Points, Endings
<1>2. TypeOK'
  BY <1>0, <1>1, BoundAssumption DEF Settle, TypeOK, ReadRaises, FaultPossible, CountFault, IInv, Types, ThreadHasDir, At
<1>3. ThreadHasDir'
  BY <1>1 DEF Settle, IInv, Types, ThreadHasDir, At
<1>4. OneOwner'
  BY <1>0, <1>1 DEF Settle, TypeOK, At, IInv, OneOwner, ThreadRunsJob, OneCommander, AxisOwnership, OwnedHasDirection, is_active, ActiveStates
<1>5. ThreadDrivesMotor'
  BY <1>0, <1>1 DEF Settle, At, IInv, Types, ThreadHasDir, ThreadDrivesMotor
<1>6. ActiveUnproved'
  BY DEF Settle, IInv, ActiveUnproved, is_active
<1> QED
  BY <1>2, <1>3, <1>4, <1>5, <1>6 DEF IInv, Types

\* The lock of the coordinator publishes the outcome as the thread ends.
LEMMA FinishStep ==
  ASSUME IInv, NEW a \in Axis, Finish(a)
  PROVE  IInv'
<1>0. /\ TypeOK /\ job[a] \in GotoJob
      /\ NoThread \in Thread /\ NoThread.at = "none" /\ ~NoThread.moved
  BY BoundAssumption DEF IInv, Types, TypeOK, NoThread, Thread, Points, Endings
<1>1. /\ thread' \in [Axis -> Thread]
      /\ thread'[a] = NoThread
      /\ \A b \in Axis \ {a} : thread'[b] = thread[b]
  BY <1>0 DEF Finish, TypeOK
<1>2. /\ job' \in [Axis -> GotoJob]
      /\ job'[a].state \in TerminalStates
      /\ \A b \in Axis \ {a} : job'[b] = job[b]
  <2> DEFINE j == Published(job[a], thread[a].ending)
  <2>1. j \in GotoJob /\ j.state \in TerminalStates
    BY <1>0 DEF Published, GotoJob, TerminalStates, GotoState
  <2>2. job' = [job EXCEPT ![a] = j]
    BY DEF Finish
  <2> QED
    BY <1>0, <2>1, <2>2 DEF TypeOK
<1>3. TypeOK'
  BY <1>0, <1>1, <1>2 DEF Finish, TypeOK
<1>4. ThreadHasDir'
  BY <1>0, <1>1 DEF IInv, Types, ThreadHasDir
<1>5. OneOwner'
  BY <1>0, <1>1, <1>2
  DEF Finish, IInv, OneOwner, ThreadRunsJob, OneCommander, AxisOwnership,
      OwnedHasDirection, is_active, ActiveStates, TerminalStates, TypeOK, At
<1>6. ThreadDrivesMotor'
  BY <1>0, <1>1 DEF Finish, IInv, ThreadDrivesMotor
<1>7. ActiveUnproved'
  BY <1>2 DEF IInv, ActiveUnproved, is_active, ActiveStates, TerminalStates
<1> QED
  BY <1>3, <1>4, <1>5, <1>6, <1>7 DEF IInv, Types

-----------------------------------------------------------------------------
(***************************************************************************)
(* The dispatch thread's actions and the end of the process.               *)
(***************************************************************************)
\* Frames and waits that leave jobs, threads, ownership and motors alone.
LEMMA QuietStep ==
  ASSUME IInv,
         \/ \E a \in Axis : GotoRejected(a) \/ SlewDone(a)
         \/ JoinEnds \/ JoinTimesOut \/ MoveRefused \/ StopIdle
         \/ ManualReadFails \/ Shutdown \/ ProcessExits
  PROVE  IInv'
<1>1. UNCHANGED <<job, thread, motion_owned, last_direction, motion_commanded, motor>>
  BY DEF GotoRejected, SlewDone, JoinEnds, JoinTimesOut, MoveRefused, StopIdle,
         ManualReadFails, Shutdown, ProcessExits
<1>2. /\ frontend' \in Frontend
      /\ frontend'.at # "idle" => /\ frontend'.axis \in Axis
                                  /\ frontend'.dir \in Dir
                                  /\ frontend'.kind \in MoveKinds
      /\ frontend'.at = "act" => thread[frontend'.axis].at = "none"
  BY DEF IInv, Types, OneOwner, TypeOK, OneCommander, ThreadRunsJob, Frontend, Idle,
         GotoRejected, SlewDone, JoinEnds, JoinTimesOut, MoveRefused, StopIdle,
         ManualReadFails, Shutdown, ProcessExits
<1>3. reply' \in Reply
  BY DEF IInv, Types, TypeOK, Reply, Answer, Answers, NoReply, Acts, GotoRejected,
         SlewDone, JoinEnds, JoinTimesOut, MoveRefused, StopIdle, ManualReadFails,
         Shutdown, ProcessExits
<1>4. /\ port' \in {"open", "closed"}
      /\ tcp' \in {"serving", "dead"}
      /\ faults' \in 0 .. MaxFaults
  BY BoundAssumption
  DEF IInv, Types, TypeOK, GotoRejected, SlewDone, JoinEnds, JoinTimesOut,
      MoveRefused, StopIdle, ManualReadFails, Shutdown, ProcessExits, CountFault,
      Escapes, ReadRaises, FaultPossible
<1>5. Types'
  BY <1>1, <1>2, <1>3, <1>4 DEF IInv, Types, TypeOK, ThreadHasDir
<1>6. OneOwner' /\ ThreadDrivesMotor' /\ ActiveUnproved'
  BY <1>1, <1>2
  DEF IInv, OneOwner, ThreadRunsJob, OneCommander, AxisOwnership, OwnedHasDirection,
      ThreadDrivesMotor, ActiveUnproved, is_active
<1> QED
  BY <1>5, <1>6 DEF IInv

LEMMA GotoStartedStep ==
  ASSUME IInv, NEW a \in Axis, GotoStarted(a)
  PROVE  IInv'
<1> DEFINE j == [NoJob EXCEPT !.state = "GOTO_ACTIVE"]
           t == [NoThread EXCEPT !.at = "start"]
<1>1. j \in GotoJob /\ j.state = "GOTO_ACTIVE" /\ ~j.motion_stopped
  BY DEF GotoJob, NoJob, GotoState, ActiveStates
<1>2. t \in Thread /\ t.at = "start" /\ ~t.moved
  <2>1. NoThread \in Thread /\ ~NoThread.moved /\ "start" \in Points
    BY BoundAssumption DEF Thread, NoThread, Points, Endings
  <2> QED
    BY <2>1 DEF Thread
<1>3. job' = [job EXCEPT ![a] = j] /\ thread' = [thread EXCEPT ![a] = t]
  BY DEF GotoStarted
<1> HIDE DEF j, t
<1>4. TypeOK'
  BY <1>1, <1>2, <1>3
  DEF GotoStarted, IInv, Types, TypeOK, Reply, Answer, Answers
<1>5. ThreadHasDir'
  BY <1>2, <1>3 DEF IInv, Types, TypeOK, ThreadHasDir
<1>6. OneOwner'
  BY <1>1, <1>2, <1>3
  DEF Accepts, GotoStarted, Receives, IInv, Types, TypeOK, OneOwner, ThreadRunsJob, OneCommander,
      AxisOwnership, OwnedHasDirection, is_active, ActiveStates
<1>7. ThreadDrivesMotor' /\ ActiveUnproved'
  BY <1>1, <1>2, <1>3
  DEF GotoStarted, IInv, Types, TypeOK, ThreadDrivesMotor, ActiveUnproved, is_active
<1> QED
  BY <1>4, <1>5, <1>6, <1>7 DEF IInv, Types

LEMMA MoveStep ==
  ASSUME IInv, NEW a \in Axis, NEW d \in Dir, NEW k \in MoveKinds, Move(a, d, k)
  PROVE  IInv'
<1> DEFINE j == Cancelled(job[a])
<1>1. TypeOK /\ job[a] \in GotoJob
  BY DEF IInv, Types, TypeOK
<1>2. j \in GotoJob /\ j.state = "STOPPING" /\ j.motion_stopped = job[a].motion_stopped
  BY <1>1 DEF Cancelled, GotoJob, GotoState, ActiveStates
<1>3. job' = IF is_active(a) THEN [job EXCEPT ![a] = j] ELSE job
  BY DEF Move
<1> HIDE DEF j
<1>4. /\ frontend' \in Frontend /\ frontend'.at \in {"join", "act"}
      /\ frontend'.axis = a /\ frontend'.dir = d /\ frontend'.kind = k
      /\ frontend'.at = "act" => ~is_active(a)
  BY DEF Move, Frontend
<1>5. Types'
  BY <1>1, <1>2, <1>3, <1>4
  DEF Move, IInv, Types, TypeOK, ThreadHasDir, Reply, NoReply, Answers
<1>6. \A b \in Axis : is_active(b)' <=> is_active(b)
  BY <1>1, <1>2, <1>3 DEF is_active, ActiveStates, TypeOK
<1>7. OneOwner' /\ ThreadDrivesMotor'
  BY <1>4, <1>6
  DEF Move, IInv, OneOwner, ThreadRunsJob, OneCommander, AxisOwnership,
      OwnedHasDirection, ThreadDrivesMotor
<1>8. ActiveUnproved'
  BY <1>1, <1>2, <1>3, <1>6 DEF IInv, ActiveUnproved, TypeOK
<1> QED
  BY <1>5, <1>7, <1>8 DEF IInv

LEMMA StopOwnedStep ==
  ASSUME IInv, StopOwned
  PROVE  IInv'
<1> DEFINE a == frontend.axis
<1>0. /\ TypeOK /\ a \in Axis /\ thread[a].at = "none"
      /\ last_direction[a] \in Dir
  BY DEF StopOwned, Acts, IInv, Types, OneOwner, TypeOK, OneCommander, OwnedHasDirection
<1>1. /\ motor' \in [Axis -> Dir \cup {Still}]
      /\ \A b \in Axis \ {a} : motor'[b] = motor[b]
  BY <1>0 DEF StopOwned, StopReaches, StopEffect, TypeOK
<1>2. TypeOK'
  BY <1>0, <1>1, BoundAssumption
  DEF StopOwned, Acts, TypeOK, Escapes, SendOutcomes, FaultPossible, CountFault,
      Frontend, Idle, Reply, NoReply, Answer, Answers
<1>3. OneOwner'
  BY <1>0
  DEF StopOwned, Idle, IInv, OneOwner, ThreadRunsJob, OneCommander, AxisOwnership,
      OwnedHasDirection, is_active, TypeOK
<1>4. ThreadHasDir' /\ ThreadDrivesMotor' /\ ActiveUnproved'
  BY <1>0, <1>1
  DEF StopOwned, IInv, Types, ThreadHasDir, ThreadDrivesMotor, ActiveUnproved, is_active
<1> QED
  BY <1>2, <1>3, <1>4 DEF IInv, Types

LEMMA ManualMoveStep ==
  ASSUME IInv, ManualMove
  PROVE  IInv'
<1> DEFINE a == frontend.axis
<1>0. /\ TypeOK /\ a \in Axis /\ thread[a].at = "none" /\ ~is_active(a)
      /\ frontend.dir \in Dir
  BY DEF ManualMove, Acts, IInv, Types, OneOwner, TypeOK, OneCommander, ThreadRunsJob
<1>1. /\ motor' \in [Axis -> Dir \cup {Still}]
      /\ \A b \in Axis \ {a} : motor'[b] = motor[b]
  BY <1>0 DEF ManualMove, MoveReaches, TypeOK
<1>2. /\ last_direction' \in [Axis -> Dir \cup {NoDir}]
      /\ motion_owned' \in [Axis -> BOOLEAN]
      /\ motion_commanded' \in [Axis -> BOOLEAN]
      /\ \A b \in Axis \ {a} : /\ motion_owned'[b] = motion_owned[b]
                               /\ last_direction'[b] = last_direction[b]
      /\ motion_owned'[a] => last_direction'[a] # NoDir
  BY <1>0, DirAssumption DEF Owns, ManualMove, TypeOK, IInv, OneOwner, OwnedHasDirection
<1>3. TypeOK'
  BY <1>0, <1>1, <1>2, BoundAssumption
  DEF Owns, ManualMove, Acts, TypeOK, Escapes, SendOutcomes, FaultPossible, CountFault,
      Frontend, Idle, Reply, Answer, Answers
<1>4. OneOwner'
  BY <1>0, <1>2
  DEF ManualMove, Idle, IInv, OneOwner, ThreadRunsJob, OneCommander, AxisOwnership,
      OwnedHasDirection, is_active
<1>5. ThreadHasDir' /\ ThreadDrivesMotor' /\ ActiveUnproved'
  BY <1>0, <1>1
  DEF ManualMove, IInv, Types, ThreadHasDir, ThreadDrivesMotor, ActiveUnproved, is_active
<1> QED
  BY <1>3, <1>4, <1>5 DEF IInv, Types

-----------------------------------------------------------------------------
\* Every step keeps the inductive invariant.
LEMMA NextIInv ==
  ASSUME IInv, [Next]_vars
  PROVE  IInv'
<1>1. CASE Dispatch
  BY <1>1, QuietStep, GotoStartedStep, MoveStep, StopOwnedStep, ManualMoveStep
  DEF Dispatch
<1>2. ASSUME NEW a \in Axis, GotoThread(a)
      PROVE  IInv'
  BY <1>2, GotoBeginsStep, PreStopStep, InitialReadStep, ActivateStep,
     SampleAbortsStep, SampleContinuesStep, SampleReachesStep, SampleRaisesStep,
     FinalStopStep, SettleStep, FinishStep
  DEF GotoThread
<1>3. CASE Shutdown \/ ProcessExits
  BY <1>3, QuietStep
<1>4. CASE UNCHANGED vars
  BY <1>4
  DEF vars, IInv, Types, OneOwner, TypeOK, ThreadHasDir, ThreadRunsJob, OneCommander,
      AxisOwnership, OwnedHasDirection, ThreadDrivesMotor, ActiveUnproved, is_active
<1> QED
  BY <1>1, <1>2, <1>3, <1>4 DEF Next

\* IInv is an invariant.
THEOREM Inductive == Spec => []IInv
<1>1. Init => IInv
  BY InitIInv
<1>2. IInv /\ [Next]_vars => IInv'
  BY NextIInv
<1> QED
  BY <1>1, <1>2, PTL DEF Spec

\* The type invariant of the bridge.
THEOREM TypeCorrect == Spec => []TypeOK
<1>1. IInv => TypeOK
  BY DEF IInv, Types
<1> QED
  BY <1>1, Inductive, PTL

\* The two threads that can command an axis never both do, and an axis under
\* manual motion has no GoTo: the ownership rules of the coordinator and the
\* virtual motor controllers, for any number of axes, faults and shutdowns.
THEOREM Ownership == Spec => []OneOwner
<1>1. IInv => OneOwner
  BY DEF IInv
<1> QED
  BY <1>1, Inductive, PTL

\* A job that moved the motor is never published as done or as safely stopped
\* with the motor moving, whatever the serial port does.
THEOREM SafePublication == Spec => PublishedStop
<1> DEFINE Safe == \A a \in Axis :
       /\ is_active(a) /\ thread[a].moved
       /\ job'[a].state = "COMPLETED" \/ job'[a].motion_stopped
       => motor'[a] = Still
<1>1. ASSUME IInv, [Next]_vars, NEW a \in Axis, is_active(a), thread[a].moved,
             job'[a].state = "COMPLETED" \/ job'[a].motion_stopped
      PROVE  motor'[a] = Still
  <2>1. job'[a] # job[a]
    BY <1>1 DEF IInv, ActiveUnproved, is_active, ActiveStates
  <2>2. ~\E b \in Axis \ {a} : Finish(b)
    BY <1>1, <2>1 DEF Finish, IInv, Types, TypeOK
  <2>3. ~\E b \in Axis : GotoStarted(b)
    BY <1>1, <2>1 DEF Accepts, GotoStarted, IInv, Types, TypeOK
  <2>4. ~\E b \in Axis, d \in Dir, k \in MoveKinds : Move(b, d, k)
    <3>1. SUFFICES ASSUME NEW b \in Axis, NEW d \in Dir, NEW k \in MoveKinds,
                          Move(b, d, k)
                   PROVE  FALSE
      OBVIOUS
    <3>2. /\ job'[a].state \notin TerminalStates
          /\ job'[a].motion_stopped = job[a].motion_stopped
      BY <1>1, <3>1
      DEF Cancelled, Move, IInv, Types, TypeOK, GotoJob, is_active, ActiveStates, TerminalStates
    <3> QED
      BY <1>1, <3>2 DEF IInv, ActiveUnproved, TerminalStates
  <2>5. Finish(a)
    BY <1>1, <2>1, <2>2, <2>3, <2>4
    DEF Next, Dispatch, GotoThread, vars, GotoRejected, SlewDone, JoinEnds,
        JoinTimesOut, MoveRefused, StopIdle, StopOwned, ManualReadFails, ManualMove,
        GotoBegins, PreStop, InitialRead, Activate, SampleAborts, SampleContinues,
        SampleReaches, SampleRaises, FinalStop, Settle, Shutdown, ProcessExits
  <2>6. thread[a].ending # "error"
    BY <1>1, <2>5 DEF Published, Finish, IInv, Types, TypeOK, GotoJob
  <2> QED
    BY <1>1, <2>5, <2>6 DEF Finish, At, IInv, ThreadDrivesMotor
<1>2. IInv /\ [Next]_vars => [Safe]_vars
  BY <1>1
<1> QED
  BY <1>2, Inductive, PTL DEF Spec, PublishedStop

-----------------------------------------------------------------------------
(***************************************************************************)
(* As long as the serial port has not raised and the process goes on:      *)
(* position reads may still fail in every way.                             *)
(***************************************************************************)
Answered == StopAcks \cup {"slew_done"}

\* A motor is still unless the axis is owned or its thread is between the
\* first move and the final STOP; until the next frame the axis of an answer
\* has no thread, and an acknowledged STOP stays true.
Known ==
  /\ \A a \in Axis :
       /\ ~motion_owned[a] /\ thread[a].at \notin {"loop", "stop"}
            => motor[a] = Still
       /\ motion_owned[a] => motor[a] = last_direction[a]
  /\ reply.answer \in Answered =>
       /\ frontend.at = "idle"
       /\ reply.to \in Axis
       /\ thread[reply.to].at = "none"
  /\ reply.answer \in StopAcks => motor[reply.to] = Still
KnownInv == Untroubled => Known

\* Trouble stays: what is untroubled after a step was so before it, and what
\* the step sent was sent without an exception.
LEMMA UntroubledSends ==
  ASSUME TypeOK, port = "open", faults' = 0
  PROVE  /\ \A o \in SendOutcomes : CountFault(o # "sent") => o = "sent"
         /\ ~CountFault(TRUE)
  BY DEF TypeOK, CountFault

LEMMA KnownThread ==
  ASSUME IInv, Known, Untroubled, Untroubled', NEW a \in Axis, GotoThread(a)
  PROVE  Known'
<1>1. /\ TypeOK /\ \A o \in SendOutcomes : CountFault(o # "sent") => o = "sent"
      /\ ~CountFault(TRUE)
      /\ thread[a].at # "none" /\ ~motion_owned[a]
  <2>1. TypeOK /\ port = "open" /\ faults' = 0
    BY DEF Untroubled, IInv, Types
  <2>2. thread[a].at # "none"
    BY DEF GotoThread, At, GotoBegins, PreStop, InitialRead, Activate, SampleAborts,
           SampleContinues, SampleReaches, SampleRaises, Samples, FinalStop, Settle,
           Finish
  <2> QED
    BY <2>1, <2>2, UntroubledSends DEF IInv, OneOwner, ThreadRunsJob, AxisOwnership
<1>2. UNCHANGED <<motion_owned, last_direction, reply, frontend>>
  BY DEF GotoThread, GotoBegins, PreStop, InitialRead, Activate, SampleAborts,
         SampleContinues, SampleReaches, SampleRaises, FinalStop, Settle, Finish
<1>3. \A b \in Axis \ {a} : thread'[b] = thread[b] /\ motor'[b] = motor[b]
  BY <1>1
  DEF AfterStop, Counts, TypeOK, GotoThread, GotoBegins, PreStop, InitialRead, Activate, SampleAborts,
      SampleContinues, SampleReaches, SampleRaises, FinalStop, Settle, Finish, Ends,
      Aims, Goes, Leaves, StopReaches, MoveReaches
<1>4. thread'[a].at \notin {"loop", "stop"} => motor'[a] = Still
  <2>1. CASE GotoBegins(a) \/ InitialRead(a) \/ Settle(a) \/ Finish(a)
    BY <1>1, <2>1 DEF Known, TypeOK, At, GotoBegins, InitialRead, Settle, Finish
  <2>2. CASE PreStop(a)
    BY <1>1, <2>2 DEF Known, TypeOK, At, PreStop, StopReaches, StopEffect
  <2>3. CASE Activate(a)
    BY <1>1, <2>3 DEF TypeOK, At, Activate, Thread
  <2>4. CASE SampleAborts(a) \/ SampleContinues(a) \/ SampleReaches(a) \/ SampleRaises(a)
    <3>1. CASE SampleContinues(a)
      BY <1>1, <3>1 DEF Counts, TypeOK, At, SampleContinues, Samples, Thread
    <3>2. CASE ~SampleContinues(a)
      BY <1>1, <2>4, <3>2, LeavesUpdate
      DEF SampleAborts, SampleReaches, SampleRaises, Endings
    <3> QED
      BY <3>1, <3>2
  <2>5. CASE FinalStop(a)
    BY <1>1, <2>5
    DEF TypeOK, At, FinalStop, StopReaches, StopEffect, IInv, ThreadDrivesMotor
  <2> QED
    BY <2>1, <2>2, <2>3, <2>4, <2>5 DEF GotoThread
<1> QED
  BY <1>1, <1>2, <1>3, <1>4 DEF Known, Answered

LEMMA KnownFrontend ==
  ASSUME IInv, Known, Untroubled, Untroubled', Dispatch \/ ProcessExits
  PROVE  Known'
<1>1. /\ TypeOK /\ \A o \in SendOutcomes : CountFault(o # "sent") => o = "sent"
      /\ port = "open" /\ thread \in [Axis -> Thread]
  BY UntroubledSends DEF Untroubled, IInv, Types, TypeOK
<1>2. ASSUME NEW a \in Axis, GotoStarted(a)
      PROVE  Known'
  BY <1>1, <1>2
  DEF Accepts, GotoStarted, Known, Answered, StopAcks, Answer, TypeOK, IInv, OneOwner,
      ThreadRunsJob, NoThread, Thread
<1>3. CASE StopOwned
  <2> DEFINE a == frontend.axis
  <2>1. a \in Axis /\ thread[a].at = "none" /\ motor[a] = last_direction[a]
    BY <1>1, <1>3
    DEF StopOwned, Acts, TypeOK, IInv, OneOwner, OneCommander, Known
  <2>2. motor' = [motor EXCEPT ![a] = Still]
    BY <1>1, <1>3, <2>1 DEF StopOwned, StopReaches, StopEffect
  <2>3. /\ motion_owned' = [motion_owned EXCEPT ![a] = FALSE]
        /\ reply' = Answer(a, "backend_stopped")
    BY <1>1, <1>3 DEF StopOwned
  <2> QED
    BY <1>1, <1>3, <2>1, <2>2, <2>3
    DEF StopOwned, Known, Answered, StopAcks, Answer, Idle, TypeOK
<1>4. CASE StopIdle
  BY <1>1, <1>4
  DEF StopIdle, Acts, Known, Answered, StopAcks, Answer, Idle, TypeOK, IInv, OneOwner,
      OneCommander
<1>5. CASE ManualMove
  <2> DEFINE a == frontend.axis
  <2>1. a \in Axis /\ thread[a].at = "none" /\ reply.answer \notin Answered
    BY <1>1, <1>5 DEF ManualMove, Acts, TypeOK, IInv, OneOwner, OneCommander, Known
  <2>2. /\ motor' = [motor EXCEPT ![a] = frontend.dir]
        /\ last_direction' = [last_direction EXCEPT ![a] = frontend.dir]
        /\ motion_owned' = [motion_owned EXCEPT ![a] = TRUE]
        /\ reply' = Answer(a, "manual_motion")
        /\ UNCHANGED thread
    BY <1>1, <1>5 DEF Owns, ManualMove, MoveReaches
  <2> QED
    BY <1>1, <2>1, <2>2 DEF Known, Answered, StopAcks, Answer, TypeOK
<1>6. CASE \/ \E a \in Axis : GotoRejected(a)
           \/ \E a \in Axis, d \in Dir, k \in MoveKinds : Move(a, d, k)
           \/ JoinEnds \/ JoinTimesOut \/ MoveRefused \/ ManualReadFails
  <2>1. UNCHANGED <<thread, motor, motion_owned, last_direction>>
    BY <1>6
    DEF GotoRejected, Move, JoinEnds, JoinTimesOut, MoveRefused, ManualReadFails
  <2>2. reply'.answer \notin Answered
    <3>1. CASE JoinEnds \/ JoinTimesOut \/ MoveRefused \/ ManualReadFails
      BY <3>1 DEF JoinEnds, JoinTimesOut, MoveRefused, ManualReadFails, Acts, Known
    <3>2. CASE \/ \E a \in Axis : GotoRejected(a)
               \/ \E a \in Axis, d \in Dir, k \in MoveKinds : Move(a, d, k)
      <4>1. reply' = NoReply
        BY <3>2 DEF GotoRejected, Move
      <4> QED
        BY <4>1 DEF NoReply, Answered, StopAcks
    <3> QED
      BY <1>6, <3>1, <3>2
  <2> QED
    BY <2>1, <2>2 DEF Known, Answered
<1>7. ASSUME NEW a \in Axis, SlewDone(a)
      PROVE  Known'
  <2>1. UNCHANGED <<thread, motor, motion_owned, last_direction, frontend>>
    BY <1>7 DEF SlewDone
  <2>2. reply'.answer \notin StopAcks
    BY <1>7 DEF SlewDone, NoReply, Answer, StopAcks
  <2>3. reply'.answer = "slew_done" =>
          frontend.at = "idle" /\ reply'.to = a /\ job[a].state \in TerminalStates
    BY <1>7 DEF SlewDone, Receives, NoReply, Answer, DoneStates, TerminalStates
  <2>4. job[a].state \in TerminalStates => thread[a].at = "none"
    BY DEF IInv, OneOwner, ThreadRunsJob, is_active, ActiveStates, TerminalStates
  <2> QED
    BY <2>1, <2>2, <2>3, <2>4 DEF Known, Answered
<1>8. CASE ProcessExits
  BY <1>1, <1>8 DEF ProcessExits
<1> QED
  BY <1>2, <1>3, <1>4, <1>5, <1>6, <1>7, <1>8 DEF Dispatch

\* Nothing repairs the port or takes a fault back.
LEMMA TroubleStays ==
  ASSUME IInv, [Next]_vars, Untroubled'
  PROVE  Untroubled
<1>1. TypeOK /\ faults \in Nat
  BY BoundAssumption DEF IInv, Types, TypeOK
<1>2. ASSUME NEW raised, CountFault(raised), faults' = 0
      PROVE  faults = 0
  BY <1>1, <1>2 DEF CountFault
<1>3. CASE UNCHANGED vars
  BY <1>3 DEF vars, Untroubled
<1>4. CASE \E a \in Axis : GotoThread(a)
  BY <1>1, <1>2, <1>4
  DEF Untroubled, GotoThread, GotoBegins, PreStop, InitialRead, Activate, SampleAborts,
      SampleContinues, SampleReaches, SampleRaises, FinalStop, Settle, Finish
<1>5. CASE Dispatch \/ Shutdown \/ ProcessExits
  BY <1>1, <1>2, <1>5
  DEF Untroubled, Dispatch, GotoRejected, GotoStarted, SlewDone, Move, JoinEnds,
      JoinTimesOut, MoveRefused, StopIdle, StopOwned, ManualReadFails, ManualMove,
      Shutdown, ProcessExits
<1> QED
  BY <1>3, <1>4, <1>5 DEF Next

\* KnownInv is an invariant.
THEOREM KnownInductive == Spec => []KnownInv
<1>1. Init => KnownInv
  BY DEF Init, KnownInv, Known, Answered, StopAcks, NoReply
<1>2. IInv /\ KnownInv /\ [Next]_vars => KnownInv'
  <2> SUFFICES ASSUME IInv, KnownInv, [Next]_vars, Untroubled'
               PROVE  Known'
    BY DEF KnownInv
  <2>1. Untroubled /\ Known
    BY TroubleStays DEF KnownInv
  <2>2. CASE \E a \in Axis : GotoThread(a)
    BY <2>1, <2>2, KnownThread
  <2>3. CASE Dispatch \/ ProcessExits
    BY <2>1, <2>3, KnownFrontend
  <2>4. CASE UNCHANGED vars
    BY <2>1, <2>4 DEF vars, Known
  <2>5. CASE Shutdown
    BY <2>5 DEF Shutdown, Untroubled
  <2> QED
    BY <2>2, <2>3, <2>4, <2>5 DEF Next
<1> QED
  BY <1>1, <1>2, Inductive, PTL DEF Spec

\* Until the port raises or the process ends, a motor moves only while some
\* frame can stop it, with the prefix it was started with, and what STOP and
\* SLEW_DONE are answered is true.
THEOREM FaultFreeSafety == Spec => []InControl
<1>1. IInv /\ KnownInv => InControl
  BY DEF IInv, OneOwner, ThreadRunsJob, KnownInv, Known, Answered, NoRunaway, OwnedPrefix,
         StopAckTruthful, SlewDoneTruthful, Stoppable, TruthfulReplies,
         InControl
<1> QED
  BY <1>1, Inductive, KnownInductive, PTL

\* Manual motion starts on a still axis, in particular after a GoTo it has
\* cancelled.
THEOREM SafeTakeover == Spec => ManualAfterSafeStop
<1> DEFINE Safe == \A a \in Axis :
       /\ Untroubled'
       /\ job[a].state = "CANCELLED"
       /\ ~motion_owned[a] /\ motion_owned'[a]
       => motor[a] = Still
<1>1. ASSUME IInv, KnownInv, [Next]_vars, NEW a \in Axis, Untroubled',
             job[a].state = "CANCELLED", ~motion_owned[a], motion_owned'[a]
      PROVE  motor[a] = Still
  <2>1. Known
    BY <1>1, TroubleStays DEF KnownInv
  <2>2. thread[a].at = "none"
    BY <1>1 DEF IInv, OneOwner, ThreadRunsJob, is_active, ActiveStates
  <2> QED
    BY <1>1, <2>1, <2>2 DEF Known
<1>2. IInv /\ KnownInv /\ [Next]_vars => [Safe]_vars
  BY <1>1
<1> QED
  BY <1>2, Inductive, KnownInductive, PTL DEF Spec, ManualAfterSafeStop

-----------------------------------------------------------------------------
(***************************************************************************)
(* The bridge implements GotoService: each of its steps is one of the      *)
(* service or leaves the variables of the service alone.                   *)
(***************************************************************************)
\* cancel is the only place that sets the event, and it sets STOPPING with it.
CancelSaysStopping ==
  \A a \in Axis :
    is_active(a) => (job[a].cancellation <=> job[a].state = "STOPPING")

\* The steps that leave every job alone.
LEMMA JobsAlone ==
  ASSUME \/ \E a \in Axis : GotoRejected(a) \/ SlewDone(a)
         \/ JoinEnds \/ JoinTimesOut \/ MoveRefused \/ StopIdle \/ StopOwned
         \/ ManualReadFails \/ ManualMove \/ Shutdown \/ ProcessExits
         \/ \E a \in Axis :
              \/ GotoBegins(a) \/ PreStop(a) \/ InitialRead(a) \/ Activate(a)
              \/ SampleAborts(a) \/ SampleContinues(a) \/ SampleReaches(a)
              \/ SampleRaises(a) \/ FinalStop(a) \/ Settle(a)
         \/ UNCHANGED vars
  PROVE  UNCHANGED job
  BY DEF GotoRejected, SlewDone, JoinEnds, JoinTimesOut, MoveRefused, StopIdle,
         StopOwned, ManualReadFails, ManualMove, Shutdown, ProcessExits,
         GotoBegins, PreStop, InitialRead, Activate, SampleAborts,
         SampleContinues, SampleReaches, SampleRaises, FinalStop, Settle, vars

\* CancelSaysStopping is an invariant.
THEOREM CancelInvariant == Spec => []CancelSaysStopping
<1>1. Init => CancelSaysStopping
  BY DEF Init, CancelSaysStopping, is_active, NoJob, ActiveStates
<1>2. IInv /\ CancelSaysStopping /\ [Next]_vars => CancelSaysStopping'
  <2> SUFFICES ASSUME IInv, CancelSaysStopping, [Next]_vars
               PROVE  CancelSaysStopping'
    OBVIOUS
  <2>0. job \in [Axis -> GotoJob]
    BY DEF IInv, Types, TypeOK
  <2>1. CASE \E a \in Axis : GotoStarted(a)
    BY <2>0, <2>1 DEF GotoStarted, CancelSaysStopping, is_active, NoJob, ActiveStates
  <2>2. CASE \E a \in Axis, d \in Dir, k \in MoveKinds : Move(a, d, k)
    BY <2>0, <2>2 DEF Move, Cancelled, CancelSaysStopping, is_active, GotoJob, ActiveStates
  <2>3. CASE \E a \in Axis : Finish(a)
    BY <2>0, <2>3 DEF Finish, Published, CancelSaysStopping, is_active, GotoJob, ActiveStates
  <2>4. CASE UNCHANGED job
    BY <2>4 DEF CancelSaysStopping, is_active
  <2> QED
    BY <2>1, <2>2, <2>3, <2>4, JobsAlone DEF Next, Dispatch, GotoThread
<1> QED
  BY <1>1, <1>2, Inductive, PTL DEF Spec

-----------------------------------------------------------------------------
(***************************************************************************)
(* Who owns an axis, and what changes an owner.                            *)
(***************************************************************************)

\* The owners of all axes are compared one by one.
LEMMA OwnersAlone ==
  ASSUME \A b \in Axis : OwnerOf(b)' = OwnerOf(b)
  PROVE  [b \in Axis |-> OwnerOf(b)]' = [b \in Axis |-> OwnerOf(b)]
  OBVIOUS

LEMMA OwnerChanges ==
  ASSUME NEW a \in Axis, NEW o, OwnerOf(a)' = o,
         \A b \in Axis \ {a} : OwnerOf(b)' = OwnerOf(b)
  PROVE  [b \in Axis |-> OwnerOf(b)]'
           = [[b \in Axis |-> OwnerOf(b)] EXCEPT ![a] = o]
  OBVIOUS

\* A GoTo accepted: the axis was nobody's, for the dispatch thread, which
\* accepts it, is not acting on any.
LEMMA StartIsAccept ==
  ASSUME IInv, NEW a \in Axis, GotoStarted(a)
  PROVE  Service!Accept(a)
<1>0. job \in [Axis -> GotoJob] /\ thread \in [Axis -> Thread]
  BY DEF IInv, Types, TypeOK
<1>1. thread[a].at = "none" /\ ~motion_owned[a] /\ frontend.at = "idle"
  BY DEF GotoStarted, Accepts, Receives, IInv, OneOwner, ThreadRunsJob
<1>2. OwnerOf(a) = "nobody" /\ OwnerOf(a)' = "goto"
  BY <1>0, <1>1 DEF GotoStarted, OwnerOf, NoThread
<1>3. \A b \in Axis \ {a} : OwnerOf(b)' = OwnerOf(b)
  BY <1>0 DEF GotoStarted, OwnerOf
<1>4. ~thread[a].moved
  BY <1>1 DEF IInv, ThreadDrivesMotor
<1>5. [b \in Axis |-> thread[b].moved]' = [b \in Axis |-> thread[b].moved]
  BY <1>0, <1>4 DEF GotoStarted, NoThread, IInv, Types, TypeOK, Thread
<1>6. /\ [b \in Axis |-> job[b].state]'
           = [[b \in Axis |-> job[b].state] EXCEPT ![a] = "GOTO_ACTIVE"]
      /\ [b \in Axis |-> job[b].motion_stopped]'
           = [[b \in Axis |-> job[b].motion_stopped] EXCEPT ![a] = FALSE]
  BY <1>0 DEF GotoStarted, NoJob, GotoJob
<1> QED
  BY <1>2, <1>3, <1>5, <1>6, OwnerChanges DEF GotoStarted, Service!Accept


\* Every action of a GoTo thread but the last leaves the job, the dispatch
\* thread and the other axes alone, and the thread running.
ThreadGoesOn(a) ==
  /\ UNCHANGED <<job, frontend, motion_owned>>
  /\ thread[a].at # "none" /\ thread'[a].at # "none"
  /\ thread'[a].moved \in {thread[a].moved, TRUE}
  /\ \A b \in Axis \ {a} : thread'[b] = thread[b]
  /\ \E m \in Dir \cup {Still} : motor' = [motor EXCEPT ![a] = m]

LEMMA QuietThreadGoesOn ==
  ASSUME IInv, NEW a \in Axis,
         \/ GotoBegins(a) \/ InitialRead(a) \/ SampleAborts(a)
         \/ SampleReaches(a) \/ Settle(a)
  PROVE  ThreadGoesOn(a)
<1>0. TypeOK /\ thread[a] \in Thread /\ motor[a] \in Dir \cup {Still}
  BY DEF IInv, Types, TypeOK
<1>1. \E m \in Dir \cup {Still} : motor' = [motor EXCEPT ![a] = m]
  BY <1>0 DEF TypeOK, GotoBegins, InitialRead, SampleAborts, SampleReaches, Settle
<1>2. /\ thread'[a].at # "none"
      /\ thread'[a].moved = thread[a].moved
      /\ \A b \in Axis \ {a} : thread'[b] = thread[b]
  BY <1>0, EndsUpdate, AimsUpdate, LeavesUpdate
  DEF GotoBegins, InitialRead, SampleAborts, SampleReaches, Settle, Points, Endings
<1> QED
  BY <1>1, <1>2
  DEF ThreadGoesOn, GotoBegins, InitialRead, SampleAborts, SampleReaches, Settle, At,
      Samples

LEMMA SendingThreadGoesOn ==
  ASSUME IInv, NEW a \in Axis,
         \/ PreStop(a) \/ Activate(a) \/ SampleContinues(a) \/ SampleRaises(a)
         \/ FinalStop(a)
  PROVE  ThreadGoesOn(a)
<1>0. TypeOK /\ thread[a] \in Thread /\ motor[a] \in Dir \cup {Still}
  BY DEF IInv, Types, TypeOK
<1>1. thread[a].dir \in Dir
  BY DEF IInv, Types, ThreadHasDir, PreStop, Activate, SampleContinues,
         SampleRaises, FinalStop, At, Samples
<1>2. \E m \in Dir \cup {Still} : motor' = [motor EXCEPT ![a] = m]
  <2>1. CASE PreStop(a) \/ FinalStop(a)
    BY <1>0, <1>1, <2>1 DEF PreStop, FinalStop, StopReaches, StopEffect
  <2>2. CASE Activate(a)
    BY <1>0, <1>1, <2>2 DEF TypeOK, Activate, MoveReaches
  <2>3. CASE SampleContinues(a) \/ SampleRaises(a)
    BY <1>0, <1>1, <2>3 DEF TypeOK, SampleContinues, SampleRaises
  <2> QED
    BY <2>1, <2>2, <2>3
<1>3. /\ thread'[a].at # "none"
      /\ thread'[a].moved \in {thread[a].moved, TRUE}
      /\ \A b \in Axis \ {a} : thread'[b] = thread[b]
  <2>1. CASE PreStop(a) \/ FinalStop(a)
    BY <1>0, <2>1, GoesUpdate, EndsUpdate
    DEF PreStop, FinalStop, AfterStop, Points, Endings
  <2>2. CASE Activate(a)
    <3>1. CASE Ends(a, "error")
      BY <1>0, <3>1, EndsUpdate DEF Endings
    <3>2. CASE thread' = [thread EXCEPT ![a].at = "loop", ![a].moved = TRUE]
      BY <1>0, <3>2 DEF TypeOK, Thread
    <3> QED
      BY <2>2, <3>1, <3>2 DEF Activate
  <2>3. CASE SampleRaises(a)
    BY <1>0, <2>3, LeavesUpdate DEF SampleRaises, Endings
  <2>4. CASE SampleContinues(a)
    BY <1>0, <2>4 DEF SampleContinues, Counts, TypeOK, Thread, Samples, At
  <2> QED
    BY <2>1, <2>2, <2>3, <2>4
<1> QED
  BY <1>2, <1>3
  DEF ThreadGoesOn, PreStop, Activate, SampleContinues, SampleRaises, FinalStop,
      At, Samples

LEMMA GoingOnIsDrive ==
  ASSUME IInv, NEW a \in Axis, ThreadGoesOn(a)
  PROVE  Service!Drive(a)
<1>0. job \in [Axis -> GotoJob] /\ thread \in [Axis -> Thread]
  BY DEF IInv, Types, TypeOK
<1>1. OwnerOf(a) = "goto"
  BY DEF ThreadGoesOn, OwnerOf
<1>2. \A b \in Axis : OwnerOf(b)' = OwnerOf(b)
  BY DEF ThreadGoesOn, OwnerOf
<1>3. \E d \in {thread[a].moved, TRUE} :
        [b \in Axis |-> thread[b].moved]'
          = [[b \in Axis |-> thread[b].moved] EXCEPT ![a] = d]
  BY <1>0 DEF ThreadGoesOn
<1> QED
  BY <1>1, <1>2, <1>3, OwnersAlone DEF ThreadGoesOn, Service!Drive


\* The publication of a job is the end the service allows: cancelled jobs end
\* as CANCELLED, and COMPLETED or motion_stopped is said of a still motor.
LEMMA FinishIsEnd ==
  ASSUME IInv, CancelSaysStopping, NEW a \in Axis, Finish(a)
  PROVE  Service!End(a)
<1>0. /\ job \in [Axis -> GotoJob] /\ thread \in [Axis -> Thread]
      /\ thread[a] \in Thread /\ job[a] \in GotoJob
  BY DEF IInv, Types, TypeOK
<1>1. thread[a].at = "finish"
  BY DEF Finish, At
<1>2. is_active(a) /\ ~motion_owned[a] /\ ~(frontend.at = "act" /\ frontend.axis = a)
  BY <1>1 DEF IInv, OneOwner, ThreadRunsJob, AxisOwnership, OneCommander
<1>3. OwnerOf(a) = "goto" /\ OwnerOf(a)' = "nobody"
  BY <1>0, <1>1, <1>2 DEF Finish, OwnerOf, NoThread
<1>4. \A b \in Axis \ {a} : OwnerOf(b)' = OwnerOf(b)
  BY <1>0 DEF Finish, OwnerOf
<1> DEFINE outcome == Published(job[a], thread[a].ending).state
           proved == Published(job[a], thread[a].ending).motion_stopped
<1>5. /\ outcome = IF job[a].cancellation THEN "CANCELLED"
                    ELSE IF thread[a].ending = "returned" THEN "COMPLETED" ELSE "FAILED"
      /\ proved = (thread[a].ending = "abort")
  BY <1>0 DEF Published, GotoJob
<1>6. thread[a].moved /\ thread[a].ending # "error" => motor[a] = Still
  BY <1>1 DEF IInv, ThreadDrivesMotor
<1>7. /\ IF job[a].state = "STOPPING" THEN outcome = "CANCELLED"
           ELSE outcome \in {"COMPLETED", "FAILED"}
      /\ thread[a].moved /\ (outcome = "COMPLETED" \/ proved) => motor[a] = Still
  BY <1>2, <1>5, <1>6 DEF CancelSaysStopping
<1>8. /\ outcome \in {"COMPLETED", "FAILED", "CANCELLED"} /\ proved \in BOOLEAN
      /\ [b \in Axis |-> job[b].state]'
           = [[b \in Axis |-> job[b].state] EXCEPT ![a] = outcome]
      /\ [b \in Axis |-> job[b].motion_stopped]'
           = [[b \in Axis |-> job[b].motion_stopped] EXCEPT ![a] = proved]
  BY <1>0, <1>5 DEF Finish
<1>9. [b \in Axis |-> thread[b].moved]'
        = [[b \in Axis |-> thread[b].moved] EXCEPT ![a] = FALSE]
  BY <1>0 DEF Finish, NoThread
<1>10. Service!EndsAs(a, outcome, proved)
  BY <1>7 DEF Service!EndsAs
<1> HIDE DEF outcome, proved
<1> QED
  BY <1>3, <1>4, <1>8, <1>9, <1>10, OwnerChanges DEF Service!End, Finish

-----------------------------------------------------------------------------
(***************************************************************************)
(* The dispatch thread.                                                    *)
(***************************************************************************)

\* What it does to an axis in its hands, from the point of view of the axis.
Handles(a) ==
  /\ UNCHANGED <<job, thread>>
  /\ frontend.at = "act" /\ frontend.axis = a /\ frontend'.at = "idle"
  /\ \A b \in Axis \ {a} : motion_owned'[b] = motion_owned[b]
  /\ \E m \in Dir \cup {Still} : motor' = [motor EXCEPT ![a] = m]

LEMMA ActsHandle ==
  ASSUME IInv, MoveRefused \/ StopIdle \/ StopOwned \/ ManualReadFails \/ ManualMove
  PROVE  frontend.axis \in Axis /\ Handles(frontend.axis)
<1>0. TypeOK /\ frontend.at = "act" /\ frontend.axis \in Axis /\ frontend.dir \in Dir
  BY DEF IInv, Types, TypeOK, MoveRefused, StopIdle, StopOwned, ManualReadFails,
         ManualMove, Acts
<1>1. CASE MoveRefused \/ StopIdle \/ ManualReadFails
  <2>1. \E m \in Dir \cup {Still} : motor' = [motor EXCEPT ![frontend.axis] = m]
    BY <1>0, <1>1 DEF TypeOK, MoveRefused, StopIdle, ManualReadFails
  <2>2. frontend'.at = "idle" /\ UNCHANGED <<job, thread, motion_owned>>
    BY <1>1 DEF MoveRefused, StopIdle, ManualReadFails, Idle
  <2> QED
    BY <1>0, <2>1, <2>2 DEF Handles
<1>2. CASE StopOwned
  <2>1. last_direction[frontend.axis] \in Dir /\ motor[frontend.axis] \in Dir \cup {Still}
    BY <1>0, <1>2 DEF StopOwned, TypeOK, IInv, OneOwner, OwnedHasDirection
  <2>2. \E m \in Dir \cup {Still} : motor' = [motor EXCEPT ![frontend.axis] = m]
    <3>1. PICK o \in SendOutcomes :
            StopReaches(frontend.axis, last_direction[frontend.axis], o)
      BY <1>2 DEF StopOwned
    <3> QED
      BY <2>1, <3>1 DEF StopReaches, StopEffect
  <2> QED
    BY <1>0, <1>2, <2>2 DEF Handles, StopOwned, Idle, TypeOK
<1>3. CASE ManualMove
  <2>1. \E m \in Dir \cup {Still} : motor' = [motor EXCEPT ![frontend.axis] = m]
    <3>1. PICK o \in SendOutcomes : MoveReaches(frontend.axis, frontend.dir, o)
      BY <1>3 DEF ManualMove
    <3>2. motor[frontend.axis] \in Dir \cup {Still} /\ motor \in [Axis -> Dir \cup {Still}]
      BY <1>0 DEF TypeOK
    <3> QED
      BY <1>0, <3>1, <3>2 DEF MoveReaches
  <2> QED
    BY <1>0, <1>3, <2>1 DEF Handles, ManualMove, Owns, Idle, TypeOK
<1> QED
  BY <1>0, <1>1, <1>2, <1>3

\* It has the axis for its own, and keeps it or gives it up.
LEMMA HandlingIsSteer ==
  ASSUME IInv, NEW a \in Axis, Handles(a)
  PROVE  Service!Steer(a)
<1>1. thread[a].at = "none"
  BY DEF IInv, OneOwner, OneCommander, Handles
<1>2. OwnerOf(a) = "manual" /\ OwnerOf(a)' \in {"manual", "nobody"}
  BY <1>1 DEF OwnerOf, Handles
<1>3. \A b \in Axis \ {a} : OwnerOf(b)' = OwnerOf(b)
  BY DEF OwnerOf, Handles
<1> QED
  BY <1>2, <1>3, OwnerChanges DEF Service!Steer, Handles

\* It comes to act on an axis: nobody's, or one under manual motion already.
Turns(a) ==
  /\ UNCHANGED <<job, thread, motion_owned, motor>>
  /\ frontend.at # "act" /\ frontend'.at = "act" /\ frontend'.axis = a
  /\ thread[a].at = "none"

LEMMA TurningTakes ==
  ASSUME NEW a \in Axis, Turns(a)
  PROVE  Service!TakeInHand(a) \/ UNCHANGED Service!vars
<1>1. \A b \in Axis \ {a} : OwnerOf(b)' = OwnerOf(b)
  BY DEF OwnerOf, Turns
<1>2. CASE motion_owned[a]
  <2>1. OwnerOf(a)' = OwnerOf(a)
    BY <1>2 DEF OwnerOf, Turns
  <2> QED
    BY <1>1, <2>1, OwnersAlone DEF Service!vars, Turns
<1>3. CASE ~motion_owned[a]
  <2>1. OwnerOf(a) = "nobody" /\ OwnerOf(a)' = "manual"
    BY <1>3 DEF OwnerOf, Turns
  <2> QED
    BY <1>1, <2>1, OwnerChanges DEF Service!TakeInHand, Turns
<1> QED
  BY <1>2, <1>3

LEMMA MoveService ==
  ASSUME IInv, NEW a \in Axis, NEW d \in Dir, NEW k \in MoveKinds, Move(a, d, k)
  PROVE  Service!Cancel(a) \/ Service!TakeInHand(a) \/ UNCHANGED Service!vars
<1>0. job \in [Axis -> GotoJob] /\ frontend.at = "idle"
  BY DEF IInv, Types, TypeOK, Move, Receives
<1>1. CASE is_active(a)
  <2>1. OwnerOf(a) = "goto"
    BY <1>1 DEF OwnerOf, IInv, OneOwner, ThreadRunsJob
  <2>2. \A b \in Axis : OwnerOf(b)' = OwnerOf(b)
    BY <1>0, <1>1 DEF OwnerOf, Move
  <2>3. /\ [b \in Axis |-> job[b].state]'
             = [[b \in Axis |-> job[b].state] EXCEPT ![a] = "STOPPING"]
        /\ [b \in Axis |-> job[b].motion_stopped]' = [b \in Axis |-> job[b].motion_stopped]
    BY <1>0, <1>1 DEF Move, Cancelled, GotoJob
  <2> QED
    BY <2>1, <2>2, <2>3, OwnersAlone DEF Service!Cancel, Move
<1>2. CASE ~is_active(a)
  <2>1. Turns(a)
    BY <1>0, <1>2 DEF Turns, Move, IInv, OneOwner, ThreadRunsJob
  <2> QED
    BY <2>1, TurningTakes
<1> QED
  BY <1>1, <1>2


\* The steps the service does not see: frames that command nothing, a join
\* given up, the port closed.
LEMMA UnseenSteps ==
  ASSUME IInv,
         \/ \E a \in Axis : GotoRejected(a) \/ SlewDone(a)
         \/ JoinTimesOut \/ Shutdown \/ UNCHANGED vars
  PROVE  UNCHANGED Service!vars
<1>1. UNCHANGED <<job, thread, motion_owned, motor>>
  BY DEF GotoRejected, SlewDone, JoinTimesOut, Shutdown, vars
<1>2. UNCHANGED frontend \/ (frontend.at # "act" /\ frontend'.at # "act")
  BY DEF GotoRejected, SlewDone, JoinTimesOut, Shutdown, Idle, vars
<1>3. \A b \in Axis : OwnerOf(b)' = OwnerOf(b)
  BY <1>1, <1>2 DEF OwnerOf
<1> QED
  BY <1>1, <1>3, OwnersAlone DEF Service!vars

\* The process ends under a frame: the dispatch thread lets go.
LEMMA ExitService ==
  ASSUME IInv, ProcessExits
  PROVE  (\E a \in Axis : Service!Steer(a)) \/ UNCHANGED Service!vars
<1>1. UNCHANGED <<job, thread, motion_owned, motor>> /\ frontend'.at = "idle"
  BY DEF ProcessExits, Idle
<1>2. CASE frontend.at = "act"
  <2>1. frontend.axis \in Axis /\ motor \in [Axis -> Dir \cup {Still}]
    BY <1>2 DEF IInv, Types, TypeOK
  <2>2. Handles(frontend.axis)
    BY <1>1, <1>2, <2>1 DEF Handles
  <2> QED
    BY <2>1, <2>2, HandlingIsSteer
<1>3. CASE frontend.at # "act"
  <2>1. \A b \in Axis : OwnerOf(b)' = OwnerOf(b)
    BY <1>1, <1>3 DEF OwnerOf
  <2> QED
    BY <1>1, <2>1, OwnersAlone DEF Service!vars
<1> QED
  BY <1>2, <1>3

LEMMA JoinService ==
  ASSUME IInv, JoinEnds
  PROVE  \E a \in Axis : Service!TakeInHand(a) \/ UNCHANGED Service!vars
<1>1. frontend.axis \in Axis /\ frontend \in Frontend
  BY DEF IInv, Types, TypeOK, JoinEnds
<1>2. Turns(frontend.axis)
  BY <1>1 DEF Turns, JoinEnds, IInv, OneOwner, ThreadRunsJob, Frontend
<1> QED
  BY <1>1, <1>2, TurningTakes

-----------------------------------------------------------------------------
\* Every step of the bridge is a step of the service or leaves it alone.
LEMMA StepService ==
  ASSUME IInv, CancelSaysStopping, [Next]_vars
  PROVE  [Service!Next]_(Service!vars)
<1>1. CASE \E a \in Axis : GotoThread(a)
  <2> PICK a \in Axis : GotoThread(a)
    BY <1>1
  <2>1. ThreadGoesOn(a) \/ Finish(a)
    BY QuietThreadGoesOn, SendingThreadGoesOn DEF GotoThread
  <2>2. Service!Drive(a) \/ Service!End(a)
    BY <2>1, GoingOnIsDrive, FinishIsEnd
  <2> QED
    BY <2>2 DEF Service!Next
<1>2. CASE Dispatch
  <2>1. CASE \E a \in Axis : GotoStarted(a)
    BY <2>1, StartIsAccept DEF Service!Next
  <2>2. CASE \E a \in Axis, d \in Dir, k \in MoveKinds : Move(a, d, k)
    BY <2>2, MoveService DEF Service!Next
  <2>3. CASE JoinEnds
    BY <2>3, JoinService DEF Service!Next
  <2>4. CASE MoveRefused \/ StopIdle \/ StopOwned \/ ManualReadFails \/ ManualMove
    BY <2>4, ActsHandle, HandlingIsSteer DEF Service!Next
  <2>5. CASE (\E a \in Axis : GotoRejected(a) \/ SlewDone(a)) \/ JoinTimesOut
    BY <2>5, UnseenSteps
  <2> QED
    BY <1>2, <2>1, <2>2, <2>3, <2>4, <2>5 DEF Dispatch
<1>3. CASE Shutdown \/ UNCHANGED vars
  BY <1>3, UnseenSteps
<1>4. CASE ProcessExits
  BY <1>4, ExitService DEF Service!Next
<1> QED
  BY <1>1, <1>2, <1>3, <1>4 DEF Next

\* The bridge implements the service: whatever the threads, the serial port
\* and the operator do, each motor has one owner at a time, only its commands
\* reach the motor, and every job ends once, as its cancellation asks.
THEOREM Implements == Spec => ImplementsService
<1>1. Init => Service!Init
  BY DEF Init, Service!Init, OwnerOf, NoJob, NoThread, Idle
<1>2. IInv /\ CancelSaysStopping /\ [Next]_vars => [Service!Next]_(Service!vars)
  BY StepService
<1> QED
  BY <1>1, <1>2, Inductive, CancelInvariant, PTL
  DEF Spec, ImplementsService, Service!Spec

=============================================================================
