------------------------------ MODULE BenchRun ------------------------------
(***************************************************************************)
(* One process that runs one of the bench scripts of BenchScripts against  *)
(* a mount.  The serial port may raise at any call, before or after the    *)
(* bytes got out, and the operator may press Ctrl+C at any moment, so the  *)
(* process may leave its program at any point: through the closing blocks  *)
(* (`except', `finally') that the script has at that point.                *)
(***************************************************************************)
EXTENDS BenchScripts, FiniteSetsExt

CONSTANTS
    Scripts,        \* the scripts of this model, names in Programs
    Laps,           \* the laps of a sampling loop before its deadline
    MAX_BAD,        \* MAX_CONSECUTIVE_INVALID
    MaxRounds,      \* bound: payloads or trials of one process
    MaxFaults,      \* bound: exceptions of the serial port
    MaxInterrupts   \* bound: times Ctrl+C is pressed

ASSUME BenchAssumption ==
    /\ Scripts \subseteq DOMAIN Programs("+")
    /\ {Laps, MAX_BAD, MaxRounds, MaxFaults, MaxInterrupts} \subseteq Nat

Directions == {"+", "-"}
NoDirection == "none"

VARIABLES
    script, direction,  \* what is run
    block, pc,          \* where it is; block 0: the process has ended
    outcome,            \* the exception in flight, "ok" if there is none
    doomed,             \* in NXW436.stop: what its first half raised
    half,               \* in NXW436.stop: the half that comes next
    commanded,          \* running, commanded, active_direction
    bad,                \* consecutive unusable replies, as it counts them
    lap,                \* laps of the sampling loop
    round,              \* payloads or trials begun
    motor,              \* the prefix the motor runs with
    blind,              \* replies without a position since the last one
    lost,               \* STOP calls of closing blocks that raised
    cut,                \* Ctrl+C hit a closing block, or it found no port
    unmarked,           \* an exception between a motion frame and its mark
    faults, interrupts

program == <<script, direction>>
place == <<block, pc, outcome, doomed, half, lap, round>>
mount == <<motor, blind>>
ghosts == <<lost, cut, unmarked>>
vars == <<program, place, commanded, bad, mount, ghosts, faults, interrupts>>

Blocks == Programs(direction)[script]
Exited == block = 0
Current == Blocks[block]
Instr == Current.body[pc]
Closing == ~Exited /\ Current.when # {"ok"}
At(ops) == ~Exited /\ Instr.op \in ops

TypeOK ==
    /\ script \in Scripts /\ direction \in Directions
    /\ block \in 0..Len(Blocks)
    /\ Exited \/ pc \in 1..Len(Current.body)
    /\ outcome \in Outcomes /\ doomed \in Outcomes /\ half \in 1..2
    /\ commanded \in Directions \cup {NoDirection}
    /\ motor \in Directions \cup {NoDirection}
    /\ bad \in 0..MAX_BAD + 1 /\ blind \in 0..MAX_BAD + 2
    /\ lap \in 0..Laps + 1 /\ round \in 1..MaxRounds
    /\ lost \in 0..MaxFaults /\ cut \in BOOLEAN /\ unmarked \in BOOLEAN
    /\ faults \in 0..MaxFaults /\ interrupts \in 0..MaxInterrupts

Init ==
    /\ script \in Scripts /\ direction \in Directions
    /\ block = 1 /\ pc = 1 /\ outcome = "ok" /\ doomed = "ok" /\ half = 1
    /\ commanded = NoDirection /\ bad = 0 /\ lap = 0 /\ round = 1
    /\ motor = NoDirection /\ blind = 0
    /\ lost = 0 /\ cut = FALSE /\ unmarked = FALSE
    /\ faults = 0 /\ interrupts = 0

----------------------------------------------------------------------------
(* Where control goes *)

Goto(b, i) ==
    /\ block' = b /\ pc' = i
    /\ lap' = 0 /\ half' = 1 /\ doomed' = "ok"

(* The blocks that are still to come if the run so far went as o. *)
Ahead(o) ==
    {b \in block + 1..Len(Blocks) :
        o \in Blocks[b].when /\ (Blocks[b].needs => commanded # NoDirection)}

Again(o) == o = "ok" /\ script \in DOMAIN Repeats /\ round < MaxRounds

(* The current block is over, and the run so far went as o. *)
LeavesBlock(o) ==
    /\ outcome' = o
    /\ \/ /\ Ahead(o) # {}
          /\ Goto(Min(Ahead(o)), 1)
          /\ UNCHANGED round
       \/ /\ Ahead(o) = {} /\ Again(o)
          /\ Goto(Repeats[script], 1)
          /\ round' = round + 1
       \/ /\ Ahead(o) = {} /\ ~Again(o)
          /\ Goto(0, 1)
          /\ UNCHANGED round

GoesTo(i) ==
    IF i <= Len(Current.body)
    THEN Goto(block, i) /\ UNCHANGED <<outcome, round>>
    ELSE LeavesBlock(outcome)
GoesOn == GoesTo(pc + 1)

(* An exception e is swallowed, seen by the closing blocks, or it ends     *)
(* the process.                                                            *)
Raises(e) ==
    \/ e \in Current.swallows /\ LeavesBlock(outcome)
    \/ e \notin Current.swallows /\ Current.guarded /\ LeavesBlock(e)
    \/ /\ e \notin Current.swallows /\ ~Current.guarded
       /\ outcome' = e /\ Goto(0, 1) /\ UNCHANGED round

----------------------------------------------------------------------------
(* The serial port and the mount *)

(* What a write or a read does: `sent' and `failed' say whether the bytes  *)
(* got out and whether the call raises.                                    *)
Attempts(sent, failed) ==
    /\ failed \/ sent
    /\ failed => faults < MaxFaults
    /\ faults' = IF failed THEN faults + 1 ELSE faults

(* A STOP ends motion with its own prefix; one of the other prefix may. *)
Obeys(d) ==
    /\ motor' \in {NoDirection} \cup
                  (IF motor = d THEN {} ELSE {motor})
    /\ blind' = IF motor' = NoDirection THEN 0 ELSE blind

Prefix == IF Instr.prefix = "marked" THEN commanded ELSE Instr.prefix

Loses(failed) ==
    lost' = IF Closing /\ failed THEN lost + 1 ELSE lost

----------------------------------------------------------------------------
(* One action per instruction *)

(* input() returns when the operator presses Enter. *)
Asks ==
    /\ At({"ask"})
    /\ GoesOn
    /\ UNCHANGED <<program, commanded, bad, mount, ghosts, faults, interrupts>>

(* A query or the opening of the port; a missing or refused answer raises  *)
(* where the script wants one.                                             *)
Queries ==
    /\ At({"poll", "look", "open", "check"})
    /\ \E failed \in BOOLEAN :
        /\ failed => Instr.op # "check"
        /\ Attempts(TRUE, failed)
        /\ \/ ~failed /\ GoesOn
           \/ (failed \/ Instr.op \in {"poll", "check"}) /\ Raises("error")
        /\ cut' = (cut \/ (Closing /\ failed /\ Instr.op = "open"))
    /\ UNCHANGED <<program, commanded, bad, mount, lost, unmarked, interrupts>>

Passes ==
    /\ At({"nap", "fork", "return", "clear", "mark"})
    /\ \/ Instr.op # "return" /\ GoesOn
       \/ Instr.op = "fork" /\ GoesTo(pc + 1 + Instr.skip)
       \/ Instr.op = "return" /\ LeavesBlock(outcome)
    /\ bad' = IF Instr.op = "clear" THEN 0 ELSE bad
    /\ commanded' = IF Instr.op = "mark" THEN Instr.to ELSE commanded
    /\ UNCHANGED <<program, mount, ghosts, faults, interrupts>>

Sends ==
    /\ At({"send"})
    /\ \E sent, failed \in BOOLEAN :
        /\ Attempts(sent, failed)
        /\ motor' = IF sent THEN Instr.prefix ELSE motor
        /\ unmarked' = (unmarked \/ (sent /\ failed))
        /\ IF failed THEN Raises("error") ELSE GoesOn
    /\ UNCHANGED <<program, commanded, bad, blind, lost, cut, interrupts>>

Halts ==
    /\ At({"halt"})
    /\ \E sent, failed \in BOOLEAN :
        /\ Attempts(sent, failed)
        /\ Loses(failed)
        /\ IF sent THEN Obeys(Prefix) ELSE UNCHANGED mount
        /\ IF failed THEN Raises("error") ELSE GoesOn
    /\ UNCHANGED <<program, commanded, bad, cut, unmarked, interrupts>>

(* NXW436.stop: the second STOP is sent even if the first one raises. *)
Stops ==
    /\ At({"stop"})
    /\ \E sent, failed \in BOOLEAN :
        /\ Attempts(sent, failed)
        /\ Loses(failed)
        /\ IF sent THEN Obeys(Prefix) ELSE UNCHANGED mount
        /\ \/ /\ half = 1
              /\ half' = 2
              /\ doomed' = IF failed THEN "error" ELSE "ok"
              /\ UNCHANGED <<block, pc, outcome, lap, round>>
           \/ /\ half = 2
              /\ \/ failed /\ Raises("error")
                 \/ ~failed /\ doomed # "ok" /\ Raises(doomed)
                 \/ ~failed /\ doomed = "ok" /\ GoesOn
    /\ UNCHANGED <<program, commanded, bad, cut, unmarked, interrupts>>

----------------------------------------------------------------------------
(* Sampling *)

Overdue == lap >= Laps
Capped(n, m) == Min({n, m})

(* Faulty: the deadline is put off by every lap. *)
StaysForEver ==
    /\ lap' = 1
    /\ UNCHANGED <<block, pc, outcome, doomed, half, round>>

StaysInLoop ==
    /\ lap' = Capped(lap + 1, Laps + 1)
    /\ UNCHANGED <<block, pc, outcome, doomed, half, round>>

(* The deadline is looked at before the next reply is asked for. *)
TimeIsUp == Instr.loop.deadline \in {"top", "raises"} /\ Overdue

LoopEnds ==
    /\ At({"sample"}) /\ TimeIsUp
    /\ IF Instr.loop.deadline = "top" THEN GoesOn ELSE Raises("error")
    /\ UNCHANGED <<program, commanded, bad, mount, ghosts, faults, interrupts>>

(* What the loop does with a reply that is good, missing, malformed or     *)
(* wild.                                                                   *)
Policy(reply) == IF reply = "good" THEN "use" ELSE Instr.loop.on[reply]

Uses ==
    /\ bad' = 0
    /\ \/ Instr.loop.ends /\ GoesOn
       \/ Instr.loop.aborts /\ Raises("error")
       \/ Instr.loop.deadline = "used" /\ Overdue /\ GoesOn
       \/ ~(Instr.loop.deadline = "used" /\ Overdue) /\ StaysInLoop

Counts ==
    /\ bad' = bad + 1
    /\ IF bad' > MAX_BAD THEN Raises("error") ELSE StaysInLoop

(* Counted as wild, held back, or the second of its kind. *)
Doubts ==
    \/ Counts
    \/ (StaysInLoop \/ Raises("error")) /\ UNCHANGED bad

Samples ==
    /\ At({"sample"}) /\ ~TimeIsUp
    /\ \/ \E reply \in {"good", "none", "bad", "wild"} :
            /\ \/ Policy(reply) = "use" /\ Uses
               \/ Policy(reply) = "count" /\ Counts
               \/ Policy(reply) = "skip" /\ StaysInLoop /\ UNCHANGED bad
               \/ Policy(reply) = "raise" /\ Raises("error") /\ UNCHANGED bad
               \/ Policy(reply) = "doubt" /\ Doubts
            /\ blind' = IF reply = "good" \/ motor = NoDirection THEN 0
                        ELSE Capped(blind + 1, MAX_BAD + 2)
            /\ UNCHANGED faults
       \/ /\ Attempts(TRUE, TRUE)
          /\ Raises("error")
          /\ UNCHANGED <<bad, blind>>
    /\ UNCHANGED <<program, commanded, motor, ghosts, interrupts>>

----------------------------------------------------------------------------
(* Ctrl+C, between any two instructions or in the middle of one.  In the   *)
(* first half of NXW436.stop it does not keep the second from being sent.  *)
Interrupt ==
    /\ ~Exited /\ interrupts < MaxInterrupts
    /\ interrupts' = interrupts + 1
    /\ cut' = (cut \/ Closing)
    /\ unmarked' = (unmarked \/ Instr.op = "mark")
    /\ \/ /\ Instr.op = "stop" /\ half = 1
          /\ half' = 2 /\ doomed' = "interrupt"
          /\ UNCHANGED <<block, pc, outcome, lap, round>>
       \/ Raises("interrupt")
    /\ UNCHANGED <<program, commanded, bad, mount, lost, faults>>

Step == Queries \/ Passes \/ Sends \/ Halts \/ Stops \/ LoopEnds \/ Samples

Next == Step \/ Asks \/ Interrupt

(* The process runs; the operator need not answer. *)
Spec == Init /\ [][Next]_vars /\ WF_vars(Step)
=============================================================================
