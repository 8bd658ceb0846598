---------------------------- MODULE GotoService ----------------------------
(***************************************************************************)
(* What the bridge promises of an axis, without threads, frames or a       *)
(* serial port: its motor has at most one owner, only the owner's commands *)
(* change what it does, it changes hands only through nobody, and a GoTo   *)
(* job ends once, in the way its cancellation asks, reported as stopped    *)
(* only on a motor that stands.                                            *)
(***************************************************************************)
CONSTANTS
  Axis,    \* the axes served
  Motion,  \* what a motor may be doing
  Still    \* the motion of a motor that stands

VARIABLES
  owner,    \* who commands the motor of each axis
  phase,    \* the state of the last GoTo job of each axis
  stopped,  \* whether that job was published with motion_stopped
  driven,   \* whether the GoTo under way has moved the motor
  motor     \* what the motor of each axis does

vars == <<owner, phase, stopped, driven, motor>>

Owners == {"nobody", "goto", "manual"}

Init ==
  /\ owner = [a \in Axis |-> "nobody"]
  /\ phase = [a \in Axis |-> "IDLE"]
  /\ stopped = [a \in Axis |-> FALSE]
  /\ driven = [a \in Axis |-> FALSE]
  /\ motor = [a \in Axis |-> Still]

\* A GoTo is accepted on an axis nobody commands.
Accept(a) ==
  /\ owner[a] = "nobody"
  /\ owner' = [owner EXCEPT ![a] = "goto"]
  /\ phase' = [phase EXCEPT ![a] = "GOTO_ACTIVE"]
  /\ stopped' = [stopped EXCEPT ![a] = FALSE]
  /\ UNCHANGED <<driven, motor>>

\* A job asked to stop stays the owner until it has.
Cancel(a) ==
  /\ owner[a] = "goto"
  /\ phase' = [phase EXCEPT ![a] = "STOPPING"]
  /\ UNCHANGED <<owner, stopped, driven, motor>>

\* The job sends STOPs and moves.
Drive(a) ==
  /\ owner[a] = "goto"
  /\ \E m \in Motion : motor' = [motor EXCEPT ![a] = m]
  /\ \E d \in {driven[a], TRUE} : driven' = [driven EXCEPT ![a] = d]
  /\ UNCHANGED <<owner, phase, stopped>>

\* A cancelled job ends as CANCELLED and no other does.  One that has moved
\* its motor reports it stopped, in either of the two ways, only if it is.
EndsAs(a, outcome, proved) ==
  /\ IF phase[a] = "STOPPING" THEN outcome = "CANCELLED"
     ELSE outcome \in {"COMPLETED", "FAILED"}
  /\ driven[a] /\ (outcome = "COMPLETED" \/ proved) => motor[a] = Still

End(a) ==
  /\ owner[a] = "goto"
  /\ owner' = [owner EXCEPT ![a] = "nobody"]
  /\ \E outcome \in {"COMPLETED", "FAILED", "CANCELLED"}, proved \in BOOLEAN :
       /\ EndsAs(a, outcome, proved)
       /\ phase' = [phase EXCEPT ![a] = outcome]
       /\ stopped' = [stopped EXCEPT ![a] = proved]
  /\ driven' = [driven EXCEPT ![a] = FALSE]
  /\ UNCHANGED motor

\* The client takes an axis nobody commands in hand, and lets go of it.
TakeInHand(a) ==
  /\ owner[a] = "nobody"
  /\ owner' = [owner EXCEPT ![a] = "manual"]
  /\ UNCHANGED <<phase, stopped, driven, motor>>

Steer(a) ==
  /\ owner[a] = "manual"
  /\ \E o \in {"manual", "nobody"} : owner' = [owner EXCEPT ![a] = o]
  /\ \E m \in Motion : motor' = [motor EXCEPT ![a] = m]
  /\ UNCHANGED <<phase, stopped, driven>>

Next ==
  \E a \in Axis :
    Accept(a) \/ Cancel(a) \/ Drive(a) \/ End(a) \/ TakeInHand(a) \/ Steer(a)

Spec == Init /\ [][Next]_vars
=============================================================================
