----------------------------- MODULE MCBenchRun -----------------------------
(* BenchRun with every script, and what has to hold of them. *)
EXTENDS BenchRun

(* Scripts that command motion before they set the flag their `finally'    *)
(* asks for.                                                               *)
MarkLate == {"WrapCapture", "SpeedRamp", "AzTransitionCycles", "AzScopeCapture",
             "GotoRelative"}

(* Scripts whose closing blocks send a second STOP after a first one that  *)
(* raised.                                                                 *)
Insistent ==
    {"MoveFor", "SpeedCharacterize", "AzWrapRecover",
     "AzMotorExercise", "SpeedRamp", "AltBreakaway", "AltLongRun",
     "GotoRelative",
     "LowSpeed", "AzStartSustain"}

LoopsOf(s) ==
    {Programs("+")[s][b].body[i].loop :
        <<b, i>> \in {bi \in (1..Len(Programs("+")[s])) \X (1..40) :
            /\ bi[2] <= Len(Programs("+")[s][bi[1]].body)
            /\ Programs("+")[s][bi[1]].body[bi[2]].op = "sample"}}

Counters == {s \in Scripts : LoopsOf(s) # {} /\
                \A l \in LoopsOf(s) : l.on = Counting}
Bounded == {s \in Scripts : \A l \in LoopsOf(s) : l.deadline \in {"top", "raises"}}

(* Whatever raised, and however often, a script never leaves its motor     *)
(* running: not at its end, once its closing blocks got through (they were *)
(* not interrupted and could send their STOPs; where there is a second     *)
(* STOP one of them may be lost), and not while it waits for the operator. *)
(* The exception is an exception between a motion frame and the flag that  *)
(* the `finally' asks for.  The types hold.                                *)
NeverLeftRunning ==
    /\ TypeOK
    /\ (/\ Exited /\ ~cut
        /\ lost <= (IF script \in Insistent THEN 1 ELSE 0)
        /\ unmarked => script \notin MarkLate)
       => motor = NoDirection
    /\ At({"ask"}) => motor = NoDirection

(* A script that counts unusable replies does not go on driving after the  *)
(* third in a row, also when they come from two stages of a run.           *)
NotDrivenBlind ==
    script \in Counters /\ motor # NoDirection /\ blind > MAX_BAD
        => Closing \/ Exited

(* A motion ends, or its process does, whatever the mount answers, in the  *)
(* scripts whose loops all look at the clock in every lap.                 *)
MotionEnds ==
    script \in Bounded /\ motor # NoDirection
        ~> motor = NoDirection \/ Exited
=============================================================================
