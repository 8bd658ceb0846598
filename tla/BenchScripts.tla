---------------------------- MODULE BenchScripts ----------------------------
(***************************************************************************)
(* The bench scripts: programs of one thread that run a motor from the     *)
(* command line to measure it.  A script is written down as what it does   *)
(* to the mount and in which order; what it computes from the positions,   *)
(* prints and saves is left out.  BenchRun executes these programs.        *)
(*                                                                         *)
(* A program is a sequence of blocks, a block the body of a `try', of an   *)
(* `except' or of a `finally'.  Where a decision depends on a position the *)
(* program may go either way.                                              *)
(***************************************************************************)
EXTENDS Naturals, Sequences

Outcomes == {"ok", "error", "interrupt"}

----------------------------------------------------------------------------
(* Instructions *)

Ask == [op |-> "ask"]                       \* input()
Open == [op |-> "open"]                     \* serial.Serial(...)
Poll == [op |-> "poll"]                     \* a query that has to be answered
Look == [op |-> "look"]                     \* a query that need not be
Nap == [op |-> "nap"]                       \* a long time.sleep
Check == [op |-> "check"]                   \* may raise, for what was measured
Return == [op |-> "return"]                 \* the end of the block
Clear == [op |-> "clear"]                   \* bad = 0
Fork(n) == [op |-> "fork", skip |-> n]      \* goes on, or skips n instructions
Mark(d) == [op |-> "mark", to |-> d]        \* running = True; or False: "none"
Send(d) == [op |-> "send", prefix |-> d]    \* a motion command
Halt(d) == [op |-> "halt", prefix |-> d]    \* the same prefix with 00 00 00
Stop(d) == [op |-> "stop", prefix |-> d]    \* NXW436.stop: two of them
Sample(l) == [op |-> "sample", loop |-> l]  \* a sampling loop

(***************************************************************************)
(* A sampling loop looks at its deadline at the top of every lap (and ends *)
(* or raises there), or only after a reply it could use, or has none; the  *)
(* position may end it (`ends') or make it raise (`aborts').  `on' says what happens to a      *)
(* missing, a malformed (outside the modulus) and a wild (too far from the *)
(* one before) reply: it is used, skipped, counted, raises, or is held in  *)
(* doubt until the next one.                                               *)
(***************************************************************************)
Trusting == [none |-> "skip", bad |-> "use", wild |-> "use"]
Counting == [none |-> "count", bad |-> "count", wild |-> "count"]

Timed(on) == [deadline |-> "top", ends |-> FALSE, aborts |-> FALSE, on |-> on]
Until(on) == [Timed(on) EXCEPT !.ends = TRUE]
Watched(on) == [Timed(on) EXCEPT !.aborts = TRUE]

(* Blocks *)

(* `guarded': what it raises is seen by the closing blocks that follow. *)
Block(when, body) == [when |-> when, needs |-> FALSE, swallows |-> {},
                      guarded |-> TRUE, body |-> body]
Try(body) == Block({"ok"}, body)
Before(body) == [Try(body) EXCEPT !.guarded = FALSE]
Gently(body) == [Try(body) EXCEPT !.swallows = {"error"}]
On(e, body) == [Block({e}, body) EXCEPT !.swallows = {"error"}]
Finally(body) == [Block(Outcomes, body) EXCEPT !.guarded = FALSE]
Quietly(body) == [Finally(body) EXCEPT !.swallows = {"error"}]
IfMarked(b) == [b EXCEPT !.needs = TRUE]

MayReturn == <<Fork(1), Return>>
Twice(d) == <<Halt(d), Halt(d)>>

----------------------------------------------------------------------------
(* nxw436_alt_periodic_drag_test.py: a missing reply goes back to the top  *)
(* of the loop, past all three ways out of it.                             *)
AltDragSampling ==
    [Until(Trusting) EXCEPT !.deadline = "used"]
AltDragRun ==
    <<Poll, Ask, Poll, Send("+"), Sample(AltDragSampling), Halt("+"), Poll>>
AltDragEmergency == Twice("+")
AltPeriodicDrag == <<Try(AltDragRun), Quietly(AltDragEmergency)>>

(* nxw436_alt_periodic_drag_reverse.py *)
AltDragReverseRun ==
    <<Poll, Ask, Send("-"), Sample(Until(Trusting))>>
AltDragReverseStop ==
    <<Poll, Halt("-"), Sample(Timed(Trusting))>>
AltDragReverse ==
    <<Try(AltDragReverseRun), Quietly(AltDragReverseStop),
      Quietly(<<Halt("-")>>)>>

(* nxw436_az_direct_reverse_test.py *)

(* Faulty: STOP with the prefix of the forward motion only. *)
StopForwardOnly == <<Halt("+"), Halt("+")>>

AzStopAll == <<Halt("+"), Halt("-"), Halt("+")>>
RunForward == <<Poll, Send("+"), Sample(Timed(Trusting)), Check>>
DirectReverse == <<Send("-"), Sample(Timed(Trusting))>>
StopAndMeasure == <<Poll, Halt("-"), Sample(Timed(Trusting)), Poll>>
AzDirectReverseSpeed ==
    <<Gently(AzStopAll),
      Try(<<Poll>> \o RunForward \o DirectReverse \o StopAndMeasure
            \o <<Ask>>)>>
AzDirectReverse ==
    <<Try(<<Poll, Ask>>)>> \o AzDirectReverseSpeed \o AzDirectReverseSpeed
        \o <<Quietly(AzStopAll)>>

(* AZ reverse-test.py *)
SampleFor == <<Poll, Sample(Timed(Trusting))>>
ObserveStop(d) == <<Poll, Halt(d), Sample(Timed(Trusting)), Poll>>
MeasureReverse == <<Poll, Send("-"), Sample(Timed(Trusting))>>
AzReverseSpeed ==
    <<Gently(AzStopAll),
      Try(<<Poll, Send("+")>> \o SampleFor \o ObserveStop("+")
            \o MeasureReverse \o ObserveStop("-") \o <<Poll, Ask>>)>>
AzReverse ==
    <<Try(<<Poll, Ask>>)>> \o AzReverseSpeed \o AzReverseSpeed
        \o <<Quietly(AzStopAll)>>

(* AZ speed test.py *)
TestSpeed ==
    <<Halt("+"), Poll, Send("+"), Poll, Sample(Timed(Trusting)), Poll,
      Halt("+"), Poll>>
SpeedTest ==
    <<Try(<<Poll, Ask>> \o TestSpeed \o <<Ask>> \o TestSpeed \o <<Ask>>),
      Quietly(Twice("+"))>>

(* ALT speed test.py: other payloads and times, the same frames. *)
AltTestSpeed == TestSpeed
AltSpeedTest == SpeedTest

(* nxw436_test_AZ.py *)
RolloverLoop == [Until(Trusting) EXCEPT !.deadline = "never"]
Rollover ==
    <<Try(<<Poll, Ask, Send("+"), Sample(RolloverLoop), Halt("+"), Look>>),
      On("interrupt", <<Halt("+")>>), On("error", <<Halt("+")>>)>>

(* nxw436_test2.py and nxw436_test_Alt.py: another speed and another axis. *)
OtherRollover == Rollover
AltRollover == Rollover

(* nxw436_test_Alt-2.py: fast, a pause to slow down, slow; the wrap may    *)
(* come while it is fast, and the pause may show it is too early.          *)
SlowRolloverRun ==
    <<Poll, Ask, Send("+"), Sample(RolloverLoop), Halt("+"),
      Fork(2), Look, Return,
      Poll, Fork(2), Halt("+"), Return,
      Send("+"), Sample(RolloverLoop), Halt("+"), Look>>
SlowRollover ==
    <<Try(SlowRolloverRun),
      On("interrupt", <<Halt("+")>>), On("error", <<Halt("+")>>),
      Quietly(<<Halt("+")>>)>>

(* nxw436_wrap_capture.py *)
WrapLoop == Until([none |-> "raise", bad |-> "use", wild |-> "use"])
WrapCapture ==
    <<Try(<<Poll, Ask, Send("+"), Mark("+"), Sample(WrapLoop)>> \o MayReturn
            \o Twice("+") \o <<Mark("none")>>),
      IfMarked(Finally(Twice("+")))>>

(* nxw436_position_dual_probe.py *)
DualProbe(d) ==
    <<Try(<<Send(d), Sample(Timed(Trusting))>>), Finally(Twice(d))>>

----------------------------------------------------------------------------
(* The scripts built on the driver *)

(* NXW436.move_for, called by nxw436_pc_driver.py *)
MoveFor(d) ==
    <<Before(<<Poll>>), Try(<<Send(d), Nap>>), Finally(<<Stop(d)>>),
      Before(<<Poll>>)>>

(* nxw436_speed_characterize.py *)
SpeedCharacterize(d) ==
    <<Before(<<Poll>>), Try(<<Send(d), Sample(Timed(Trusting))>>),
      Finally(<<Stop(d)>>), Before(<<Poll>>)>>

(* nxw436_az_wrap_recover.py *)
AzWrapRecover ==
    <<Before(<<Poll, Poll, Poll, Check>>), Try(<<Send("-"), Nap>>),
      Finally(<<Stop("-")>>), Before(<<Poll, Check>>)>>

(* nxw436_az_motor_exercise.py: the last STOP opens the port again. *)
Leg(d) == <<Mark(d), Send(d), Nap, Stop(d), Mark("none")>>
AzMotorExercise ==
    <<Try(<<Open>> \o Leg("+") \o <<Nap>> \o Leg("-")),
      IfMarked(Quietly(<<Open, Stop("marked")>>))>>

(* nxw436_speed_ramp.py: a wild reply is not used, and resets the count. *)
RampLoop == Timed([none |-> "count", bad |-> "raise", wild |-> "use"])
RampStep(d) == <<Send(d), Mark(d), Sample(RampLoop)>>
SpeedRamp(d) ==
    <<Before(<<Ask, Open>>), Try(RampStep(d) \o RampStep(d)),
      IfMarked(Finally(<<Stop(d)>>))>>

(* nxw436_alt_breakaway_diagnostic.py *)
BreakawayLoop == Timed([none |-> "count", bad |-> "raise", wild |-> "raise"])
AltBreakaway(d) ==
    <<Before(<<Ask, Open>>),
      Try(<<Stop(d), Poll, Send(d), Clear, Sample(BreakawayLoop)>>),
      Quietly(<<Stop(d)>>)>>

(* nxw436_alt_long_run.py *)
LongRun(d) == <<Stop(d), Poll, Clear, Send(d), Sample(Watched(Counting))>>
AltLongRun(d) ==
    <<Try(<<Poll, Poll, Ask>> \o LongRun(d)), Quietly(<<Stop(d)>>),
      Before(<<Look>>)>>

(* nxw436_low_speed_characterize.py *)
LowSpeedPoint(d) ==
    <<Stop(d), Poll, Clear, Send(d), Sample(Watched(Counting)), Check>>
LowSpeedClosing(d) == <<Quietly(<<Stop(d)>>), Finally(<<Look, Look>>)>>
LowSpeed(d) ==
    <<Before(<<Poll, Poll, Ask>>), Try(LowSpeedPoint(d))>>
        \o LowSpeedClosing(d)

(* nxw436_az_start_sustain_characterize.py *)
SustainTrial(d) ==
    <<Stop(d), Poll, Send(d), Clear, Sample(Timed(Counting)), Check>>
AzStartSustain(d) ==
    <<Before(<<Poll, Poll, Ask>>), Try(SustainTrial(d)),
      Quietly(<<Stop(d)>>)>>

(* nxw436_az_transition_diagnostic.py *)
AzTransitionRun(d) ==
    <<Poll, Poll, Ask>> \o Twice(d)
        \o <<Poll, Mark(d), Send(d), Sample(Timed(Counting)), Check,
             Send(d), Sample(Until(Counting))>>
        \o MayReturn \o <<Sample(Timed(Counting))>>
        \o MayReturn \o <<Send(d), Sample(Timed(Counting))>>
AzTransition(d) == <<Try(AzTransitionRun(d)), IfMarked(Quietly(Twice(d)))>>

(* nxw436_az_transition_cycles.py *)
CycleStart == Twice("+") \o <<Poll, Clear>>

(* Faulty: every stage counts its own unusable replies. *)
CycleMotionAfresh ==
    <<Send("+"), Mark("+"), Sample(Timed(Counting)), Check,
      Send("+"), Clear, Sample(Until(Counting))>>

CycleMotion ==
    <<Send("+"), Mark("+"), Sample(Timed(Counting)), Check,
      Send("+"), Sample(Until(Counting))>>
CycleEnd == Twice("+") \o <<Mark("none")>> \o MayReturn
CycleResend == <<Fork(2), Send("+"), Sample(Timed(Counting))>>
Cycle == CycleStart \o CycleMotion \o CycleResend \o CycleEnd
AzTransitionCycles ==
    <<Try(<<Poll, Poll, Ask>> \o Cycle \o Cycle),
      IfMarked(Quietly(Twice("+")))>>

(* nxw436_az_scope_capture.py: it holds the stall for the scope. *)
ScopeResend ==
    <<Fork(3), Sample(Timed(Counting)), Send("+"), Sample(Timed(Counting))>>
ScopeCycle == CycleStart \o CycleMotion \o ScopeResend \o CycleEnd
AzScopeCapture ==
    <<Try(<<Poll, Poll, Ask>> \o ScopeCycle \o ScopeCycle),
      IfMarked(Quietly(Twice("+")))>>

(* nxw436_goto_relative.py around RelativePositionController.run, of which *)
(* PositionController has the decisions: the run starts in a stage, and    *)
(* commands motion up to twice more, for another stage or once again for   *)
(* the same one.  It raises when its time is over, and a reply in the      *)
(* wrong direction waits for a second one.                                 *)
StageLoop ==
    [Until([none |-> "count", bad |-> "count", wild |-> "doubt"])
        EXCEPT !.deadline = "raises"]
SettleLoop == [StageLoop EXCEPT !.ends = FALSE, !.deadline = "top"]
NextStage(d) == <<Fork(2), Send(d), Sample(StageLoop)>>
RelativeStart(d) ==
    <<Poll, Poll, Ask, Stop(d), Poll, Check, Send(d), Mark(d)>>
GotoRelative(d) ==
    <<Before(RelativeStart(d)),
      Try(<<Sample(StageLoop)>> \o NextStage(d) \o NextStage(d)),
      IfMarked(Finally(<<Stop(d)>>)), Before(<<Sample(SettleLoop)>>)>>

----------------------------------------------------------------------------
(* The scripts by name; d is the direction given on the command line. *)
Programs(d) ==
    [AltPeriodicDrag |-> AltPeriodicDrag, AltDragReverse |-> AltDragReverse,
     AzDirectReverse |-> AzDirectReverse, AzReverse |-> AzReverse,
     SpeedTest |-> SpeedTest, AltSpeedTest |-> AltSpeedTest,
     Rollover |-> Rollover, OtherRollover |-> OtherRollover,
     AltRollover |-> AltRollover, GotoRelative |-> GotoRelative(d),
     SlowRollover |-> SlowRollover, WrapCapture |-> WrapCapture,
     DualProbe |-> DualProbe(d), MoveFor |-> MoveFor(d),
     SpeedCharacterize |-> SpeedCharacterize(d),
     AzWrapRecover |-> AzWrapRecover, AzMotorExercise |-> AzMotorExercise,
     SpeedRamp |-> SpeedRamp(d), AltBreakaway |-> AltBreakaway(d),
     AltLongRun |-> AltLongRun(d), LowSpeed |-> LowSpeed(d),
     AzStartSustain |-> AzStartSustain(d), AzTransition |-> AzTransition(d),
     AzTransitionCycles |-> AzTransitionCycles,
     AzScopeCapture |-> AzScopeCapture]

(* The block a script returns to for the next payload or trial. *)
Repeats == [AltBreakaway |-> 2, LowSpeed |-> 2, AzStartSustain |-> 2]
=============================================================================
