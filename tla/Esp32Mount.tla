----------------------------- MODULE Esp32Mount -----------------------------
(***************************************************************************)
(* The ESP32 firmware behind its socket: SemanticCore, FakeMountRuntime    *)
(* and FakeMountBackend, for one axis (the three keep an array entry per   *)
(* axis and no operation touches two of them).  The read-only profile,     *)
(* which has no runtime and a backend that refuses to move, is left out.   *)
(*                                                                         *)
(* Everything runs in the Arduino loop: a poll ticks the runtime and then  *)
(* dispatches whatever frames have arrived, so any number of frames may    *)
(* come between two ticks.  The variable burst bounds that number in a     *)
(* behaviour, as the runtime looks at the job only when it ticks.          *)
(***************************************************************************)
EXTENDS Coordinates

CONSTANTS
  kPositionModulus,  \* counts in a revolution
  goto_duration,     \* length of a GoTo, in clock units
  ClockModulus,      \* millis() wraps here
  MaxStep,           \* bound on the clock units between two polls
  MaxFrames,         \* bound on burst
  Speeds,            \* counts per clock unit a manual rate may mean
  Medium,            \* counts per clock unit of SpeedTier::Medium
  Targets,           \* AUX targets the client asks for
  AxisConfig,        \* the axis's AxisCoordinateConfig
  AuxConfigs,        \* configurations the two adapters are compared under
  Start              \* native position at power-up

ASSUME ModulusAssumption == kPositionModulus \in Nat \ {0} /\ goto_duration \in Nat \ {0}
ASSUME ClockAssumption ==
  /\ MaxStep \in Nat \ {0} /\ MaxFrames \in Nat \ {0}
  /\ ClockModulus \in Nat /\ ClockModulus > goto_duration + MaxStep
ASSUME SpeedAssumption == Speeds \subseteq Nat /\ Medium \in Nat
ASSUME PositionAssumption ==
  Start \in 0 .. kPositionModulus - 1 /\ Targets \subseteq 0 .. AuxFullTurn - 1
\* A count is several AUX units: 0x102A00 counts and 2^24 units make a turn.
ASSUME ScaleAssumption == kPositionModulus < AuxFullTurn
ASSUME ConfigAssumption ==
  AuxConfigs \subseteq AxisCoordinateConfig(kPositionModulus) /\ AxisConfig \in AuxConfigs

VARIABLES
  goto_state,   \* SemanticCore::goto_states_
  goto_target,  \* SemanticCore::goto_targets_
  position,     \* FakeMountBackend::positions_
  moving,       \* FakeMountBackend::moving_
  direction,    \* FakeMountBackend::directions_, NoDir while has_direction_ is false
  speed,        \* FakeMountBackend::speeds_
  runtime,      \* FakeMountRuntime::axes_
  now,          \* millis() at the last tick, FakeMountRuntime::last_tick_ms_ too
  reply,        \* what the last frame was answered, as far as a property asks
  frames,       \* frames dispatched since the last tick
  burst         \* the most frames that come between two ticks

core == <<goto_state, goto_target>>
backend == <<position, moving, direction, speed>>
vars == <<core, backend, runtime, now, reply, frames, burst>>

-----------------------------------------------------------------------------
Plus == 1
Minus == -1
NoDir == 0

GotoState == {"Idle", "Active", "Completed", "Failed", "Cancelled"}
Positions == 0 .. kPositionModulus - 1
AxisRuntime == [goto_active : BOOLEAN, started : 0 .. ClockModulus - 1,
                start : Positions, target : Positions]

\* Faulty: the plain remainder.
NotNormalized(x) == x
normalizePosition(x) == x % kPositionModulus

\* Faulty: the difference as integers.
PlainDelta(start, target) == target - start

signedModularDelta(start, target) ==
  LET delta == target - start
      half == kPositionModulus \div 2
  IN  IF delta > half THEN delta - kPositionModulus
      ELSE IF delta < -half THEN delta + kPositionModulus
      ELSE delta

Init ==
  /\ goto_state = "Idle"
  /\ goto_target = 0
  /\ position = Start
  /\ moving = FALSE
  /\ direction = NoDir
  /\ speed = 0
  /\ runtime = [goto_active |-> FALSE, started |-> 0, start |-> 0, target |-> 0]
  /\ now = 0
  /\ reply = "other"
  /\ frames = 0
  /\ burst \in 1 .. MaxFrames

-----------------------------------------------------------------------------
(***************************************************************************)
(* FakeMountRuntime::tick.                                                 *)
(***************************************************************************)
Time(d) ==
  /\ now' = (now + d) % ClockModulus
  /\ frames' = 0
  /\ UNCHANGED <<goto_target, reply, burst>>

\* FakeMountBackend::tick, with speeds in whole counts per clock unit: the
\* remainder it carries from tick to tick stays zero.
Drifted(d) ==
  IF moving THEN normalizePosition(position + direction * speed * d) ELSE position

Driving == goto_state = "Active"

\* Faulty: the runtime is not told that the job is over.
TickIdleForgetful(d) ==
  /\ ~Driving
  /\ Time(d)
  /\ position' = Drifted(d)
  /\ UNCHANGED <<goto_state, runtime, moving, direction, speed>>

TickIdle(d) ==
  /\ ~Driving
  /\ Time(d)
  /\ position' = Drifted(d)
  /\ runtime' = [runtime EXCEPT !.goto_active = FALSE]
  /\ UNCHANGED <<goto_state, moving, direction, speed>>

\* The first tick that sees the job Active: nothing has elapsed, so the axis
\* is put where it started from.
TickStarts(d) ==
  /\ Driving
  /\ ~runtime.goto_active
  /\ Time(d)
  /\ position' = Drifted(d)
  /\ runtime' = [goto_active |-> TRUE, started |-> now', start |-> position',
                 target |-> goto_target]
  /\ moving' = TRUE
  /\ direction' = IF signedModularDelta(position', goto_target) >= 0 THEN Plus ELSE Minus
  /\ speed' = Medium
  /\ UNCHANGED goto_state

Elapsed(d) == (now + d - runtime.started) % ClockModulus

\* Faulty: every tick starts the time of the GoTo over.
TravelsAnew(d) ==
  /\ Driving
  /\ runtime.goto_active
  /\ Elapsed(d) < goto_duration
  /\ Time(d)
  /\ position' = position
  /\ runtime' = [runtime EXCEPT !.started = now']
  /\ UNCHANGED <<goto_state, moving, direction, speed>>

TickTravels(d) ==
  /\ Driving
  /\ runtime.goto_active
  /\ Elapsed(d) < goto_duration
  /\ Time(d)
  /\ position' = normalizePosition(
       runtime.start + Quotient(signedModularDelta(runtime.start, runtime.target) * Elapsed(d),
                                goto_duration))
  /\ UNCHANGED <<goto_state, runtime, moving, direction, speed>>

TickCompletes(d) ==
  /\ Driving
  /\ runtime.goto_active
  /\ Elapsed(d) >= goto_duration
  /\ Time(d)
  /\ position' = runtime.target
  /\ moving' = FALSE
  /\ goto_state' = "Completed"
  /\ runtime' = [runtime EXCEPT !.goto_active = FALSE]
  /\ UNCHANGED <<direction, speed>>

Tick ==
  \E d \in 1 .. MaxStep :
    TickIdle(d) \/ TickStarts(d) \/ TickTravels(d) \/ TickCompletes(d)

-----------------------------------------------------------------------------
(***************************************************************************)
(* SemanticCore::dispatch, for the frames that move the axis or ask after  *)
(* it.                                                                     *)
(***************************************************************************)
Handles(answer) ==
  /\ frames < burst
  /\ frames' = frames + 1
  /\ reply' = answer
  /\ UNCHANGED <<now, runtime, burst>>

Cancelled(s) == IF s = "Active" THEN "Cancelled" ELSE s

\* MOVE with rate 0.  A commanded motion has a direction, so the backend
\* does not refuse the STOP.
Stop ==
  /\ Handles("stop_accepted")
  /\ goto_state' = Cancelled(goto_state)
  /\ moving' = FALSE
  /\ UNCHANGED <<goto_target, position, direction, speed>>

\* Faulty: manual motion leaves the job alone.
ManualOnly(d, s) ==
  /\ Handles("manual_accepted")
  /\ moving' = TRUE
  /\ direction' = d
  /\ speed' = s
  /\ UNCHANGED <<core, position>>

\* MOVE with a rate of 1 to 9.
Manual(d, s) ==
  /\ goto_state' = Cancelled(goto_state)
  /\ Handles("manual_accepted")
  /\ moving' = TRUE /\ direction' = d /\ speed' = s
  /\ UNCHANGED <<goto_target, position>>

Goto(target_aux) ==
  LET target == fromAux(AxisConfig, target_aux) IN
  /\ goto_state # "Active"
  /\ target # Unavailable
  /\ Handles("goto_started")
  /\ goto_target' = target
  /\ goto_state' = "Active"
  /\ UNCHANGED backend

GetPosition ==
  /\ toAux(AxisConfig, position) # Unavailable
  /\ Handles("other")
  /\ UNCHANGED <<core, backend>>

SlewDone ==
  /\ Handles(IF goto_state = "Active" THEN "slew_active"
             ELSE IF goto_state = "Completed" THEN "slew_done"
             ELSE "slew_unanswered")
  /\ UNCHANGED <<core, backend>>

\* A rate over 9, a GoTo during a GoTo or out of bounds, a frame nothing
\* answers.
Refused ==
  /\ Handles("other")
  /\ UNCHANGED <<core, backend>>

Dispatch ==
  \/ Stop \/ GetPosition \/ SlewDone \/ Refused
  \/ \E d \in {Plus, Minus}, s \in Speeds : Manual(d, s)
  \/ \E target_aux \in Targets : Goto(target_aux)

Next == Tick \/ Dispatch

\* The loop keeps polling; what the client sends is its own affair.
Spec == Init /\ [][Next]_vars
FairSpec == Spec /\ WF_vars(Tick)

-----------------------------------------------------------------------------
TypeOK ==
  /\ goto_state \in GotoState
  /\ goto_target \in Positions
  /\ position \in Positions
  /\ moving \in BOOLEAN
  /\ direction \in {Plus, Minus, NoDir}
  /\ speed \in Speeds \cup {0, Medium}
  /\ runtime \in AxisRuntime
  /\ now \in 0 .. ClockModulus - 1
  /\ reply \in {"other", "stop_accepted", "manual_accepted", "goto_started",
                "slew_active", "slew_done", "slew_unanswered"}
  /\ burst \in 1 .. MaxFrames
  /\ frames \in 0 .. burst

Ticks == now' # now

Completes == goto_state = "Active" /\ goto_state' = "Completed"

\* A GoTo completes with the axis at rest on the target of that GoTo, however
\* it follows a cancelled one: what SLEW_DONE's FF reports is true.
CompletedAtTarget == [][Completes => position' = goto_target /\ ~moving']_vars

\* It does at least when no two frames come between two ticks: any other
\* order of STOP, MOVE, GOTO and ticks leaves core and runtime agreeing.
CompletedAtTargetOneByOne ==
  [][Completes /\ burst = 1 => position' = goto_target /\ ~moving']_vars

\* After an acknowledged STOP, and as long as nothing moves it, the axis stays
\* where it is: neither the backend nor the runtime of a GoTo that is over
\* goes on moving it.
StoppedStays ==
  [][reply = "stop_accepted" \/ (goto_state # "Active" /\ ~moving)
       => position' = position]_vars

\* An accepted manual motion is what moves the axis from the next tick on: it
\* drifts in the direction and at the speed asked, whatever GoTo it cancelled.
ManualMoves ==
  [][reply = "manual_accepted" /\ Ticks
       => \E d \in 1 .. MaxStep :
            position' = (position + direction * speed * d) % kPositionModulus]_vars

\* Outside a GoTo the axis does what it was told last: nothing a GoTo leaves
\* behind in the runtime or the backend moves it.
ObeysFrames == StoppedStays /\ ManualMoves

\* The distance of two positions on the circle.
Apart(p, q) ==
  LET ahead == (p - q) % kPositionModulus
      behind == (q - p) % kPositionModulus
  IN  IF ahead < behind THEN ahead ELSE behind

\* A GoTo never takes the axis further away from its target: it goes the
\* short way, across the wrap too, and neither drift nor rounding turns it.
GotoApproaches ==
  [][runtime.goto_active /\ runtime'.goto_active
       => Apart(position', runtime.target) <= Apart(position, runtime.target)]_vars

ConvertedRight ==
  {n \in Positions :
     \A c \in AuxConfigs :
       /\ SameAsPython(c, n)
       /\ ComesBack(c, n)
       /\ \A aux \in 0 .. AuxFullTurn - 1 : MeetsTarget(c, aux)}

\* Positions and targets survive their conversion wherever the axis stands:
\* the firmware and the Python bridge agree, a position comes back as itself
\* and a target is met to within half a count.
CoordinatesHold == position \in ConvertedRight

\* Every accepted GoTo comes to an end.
GotoEnds == goto_state = "Active" ~> goto_state # "Active"
=============================================================================
