------------------------- MODULE PositionController -------------------------
(***************************************************************************)
(* One absolute GoTo on one axis: the launcher's target validator,         *)
(* NXW436MountBackend.goto and RelativePositionController.run, down to the *)
(* counts.  GotoBridge models the threads and the serial faults around it; *)
(* here the motor, the encoder and the clock are the environment: a reply  *)
(* may be missing, malformed or corrupted, a sample may come late, and the *)
(* axis moves at most as fast as its stage.                                *)
(*                                                                         *)
(* Time is counted in nominal sample intervals.  A step of the sampling    *)
(* loop is one iteration: the sleep, the query and _handle_sample.         *)
(***************************************************************************)
EXTENDS Integers, Sequences, FiniteSets

CONSTANTS
  RAW_MODULO,               \* counts of a revolution
  Threshold,                \* minimum_remaining_counts of the axis's stages
  Medium,                   \* the AZ stage with a recovery policy; 0 on ALT
  stop_margin_counts,
  MIN_JUMP, MAX_CPS,        \* plausible motion between two replies
  MAX_CONSECUTIVE_INVALID,
  OPPOSITE_COUNTS,
  MIN_PROGRESS,             \* AZ_MEDIUM_MIN_PROGRESS_COUNTS
  PROGRESS_WINDOW,          \* AZ_MEDIUM_PROGRESS_WINDOW_S
  RECOVERY_WINDOW,          \* AZ_MEDIUM_RECOVERY_WINDOW_S
  max_seconds, settle_seconds,
  max_delta_counts,         \* --max-goto-delta-counts
  \* The environment.
  Starts, Targets,          \* where the axis is, where it is sent (raw)
  Speed,                    \* counts per tick an axis can make in each stage
  Coast,                    \* counts it can make after a STOP, per reading
  MaxTicks,                 \* the longest an iteration can take
  MaxLies                   \* corrupted but valid-looking replies

ASSUME ModuloAssumption == RAW_MODULO \in Nat \ {0}
ASSUME StageAssumption ==
  /\ Threshold \in Seq(Nat) /\ Len(Threshold) > 0
  /\ \A i, j \in DOMAIN Threshold : i < j => Threshold[i] > Threshold[j]
  /\ Medium \in 0 .. Len(Threshold)
ASSUME LimitAssumption ==
  /\ {stop_margin_counts, MIN_JUMP, MAX_CPS, MAX_CONSECUTIVE_INVALID,
      PROGRESS_WINDOW, RECOVERY_WINDOW, max_seconds, settle_seconds,
      max_delta_counts} \subseteq Nat
  /\ OPPOSITE_COUNTS \in Nat \ {0, 1} /\ MIN_PROGRESS \in Nat \ {0}
ASSUME EnvironmentAssumption ==
  /\ Starts \subseteq 0 .. RAW_MODULO - 1 /\ Targets \subseteq 0 .. RAW_MODULO - 1
  /\ Speed \in [DOMAIN Threshold -> Nat] /\ Coast \in Nat /\ MaxLies \in Nat
  /\ MaxTicks \in Nat \ {0}

\* An axis makes less than half a revolution between two replies the run
\* compares: the counts of an iteration, over as many as it may have to wait.
ASSUME HalfTurnAssumption ==
  \A n \in {Coast} \cup {Speed[i] * MaxTicks : i \in DOMAIN Threshold} :
    2 * ((MAX_CONSECUTIVE_INVALID + 2) * n + 1) < RAW_MODULO

VARIABLES
  phase,                \* where the job is
  reason,               \* why it is over, or why the axis was stopped
  now,                  \* time.perf_counter()
  deadline,             \* of the sampling loop, then of the settle loop
  target_raw,           \* absolute_target_raw
  sign,                 \* of the commanded direction
  target_unwrapped,
  unwrapped,            \* the trusted position
  previous_raw,         \* the last trusted reply
  previous_time,        \* and when it was asked for
  start_raw,
  active_stage,
  consecutive_invalid,
  pending_opposite,     \* whether pending_opposite_raw is set
  motion_confirmed,
  history,              \* az_medium_history
  recovery,             \* the az_medium_recovery fields
  actual,               \* where the axis is
  lies,                 \* corrupted replies so far
  \* What the properties remember of the run.
  truth,                \* where the axis was at the last trusted reply
  medium_since          \* when the active MEDIUM command was sent

control == <<sign, target_unwrapped, start_raw, active_stage, history,
             motion_confirmed, medium_since>>
trust == <<unwrapped, previous_raw, previous_time, pending_opposite, truth>>
vars == <<phase, reason, now, deadline, target_raw, control, trust,
          consecutive_invalid, recovery, actual, lies>>

-----------------------------------------------------------------------------
Raw == 0 .. RAW_MODULO - 1
Stage == DOMAIN Threshold
Magnitude(n) == IF n < 0 THEN -n ELSE n
Sign(n) == IF n > 0 THEN 1 ELSE -1
Larger(m, n) == IF m > n THEN m ELSE n

signed_delta(previous, current) ==
  LET delta == current - previous IN
  IF delta > RAW_MODULO \div 2 THEN delta - RAW_MODULO
  ELSE IF delta < -(RAW_MODULO \div 2) THEN delta + RAW_MODULO
  ELSE delta

\* The first stage whose threshold the distance exceeds, the last otherwise.
choose_stage(remaining) ==
  CHOOSE i \in Stage :
    /\ \A j \in Stage : j < i => remaining <= Threshold[j]
    /\ remaining > Threshold[i] \/ i = Len(Threshold)

Remaining == (target_unwrapped - unwrapped) * sign

NoRecovery == [attempted |-> FALSE, start |-> 0, deadline |-> 0, success |-> FALSE]
RecoveryProgress(u) == (u - recovery.start) * sign
Recovering == recovery.attempted /\ ~recovery.success

-----------------------------------------------------------------------------
(***************************************************************************)
(* The environment.                                                        *)
(***************************************************************************)
\* Between two readings the axis makes at most n counts in the direction d;
\* the encoder of a moving axis may read one count short.
Moves(n, d) == {actual + d * i : i \in 0 .. n}
Reads(position, d) == {position % RAW_MODULO, (position - d) % RAW_MODULO}

\* The valid replies to a query made when the axis is at position: the truth,
\* or a corrupted frame that lies within the modulus.
Replies(position, d) ==
  Reads(position, d) \cup (IF lies < MaxLies THEN Raw ELSE {})
Counts(raw, position, d) ==
  lies' = IF raw \in Reads(position, d) THEN lies ELSE lies + 1

Init ==
  /\ phase = "validate" /\ reason = "none"
  /\ now = 0 /\ deadline = 0
  /\ target_raw \in Targets
  /\ sign = 1 /\ target_unwrapped = 0 /\ start_raw = 0
  /\ unwrapped = 0 /\ previous_raw = 0 /\ previous_time = 0 /\ truth = 0
  /\ active_stage = Len(Threshold)
  /\ consecutive_invalid = 0
  /\ pending_opposite = FALSE /\ motion_confirmed = FALSE
  /\ history = {} /\ medium_since = 0
  /\ recovery = NoRecovery
  /\ actual \in Starts
  /\ lies = 0

-----------------------------------------------------------------------------
(***************************************************************************)
(* Before the first move the position is read three times, and the axis    *)
(* may still coast from an earlier motion in either direction.             *)
(***************************************************************************)
Before(p) ==
  /\ phase = p
  /\ actual' \in {m % RAW_MODULO : m \in Moves(Coast, 1) \cup Moves(Coast, -1)}
FirstReplies == Replies(actual', 0)

Ends(p, why) == phase' = p /\ reason' = why

\* Faulty: only one direction is limited.
TooFarAhead(raw) == signed_delta(raw, target_raw) > max_delta_counts

TooFar(raw) == Magnitude(signed_delta(raw, target_raw)) > max_delta_counts

\* The target validator the launcher gives the coordinator.
Validate ==
  /\ Before("validate")
  /\ \E raw \in FirstReplies :
       /\ Counts(raw, actual', 0)
       /\ IF TooFar(raw) THEN Ends("rejected", "delta")
          ELSE Ends("goto", "none")
  /\ UNCHANGED <<now, deadline, target_raw, control, trust, consecutive_invalid,
                 recovery>>

\* backend.goto reads the position again and plans the direction from it.
GotoBegins ==
  /\ Before("goto")
  /\ \E raw \in FirstReplies :
       /\ Counts(raw, actual', 0)
       /\ IF raw = target_raw THEN Ends("returned", "exact")
          ELSE Ends("initial", "none")
  /\ UNCHANGED <<now, deadline, target_raw, control, trust, consecutive_invalid,
                 recovery>>

TargetFrom(raw) == raw + signed_delta(raw, target_raw)

\* run: the pre-STOP, a quarter of a second, and the read that decides the
\* direction and the distance; then the first move.
InitialRead ==
  /\ Before("initial")
  /\ \E raw \in FirstReplies :
       /\ Counts(raw, actual', 0)
       /\ raw # target_raw
       /\ Ends("moving", "none")
       /\ sign' = Sign(signed_delta(raw, target_raw))
       /\ start_raw' = raw
       /\ target_unwrapped' = TargetFrom(raw)
       /\ unwrapped' = raw /\ previous_raw' = raw /\ previous_time' = now
       /\ truth' = actual'
       /\ active_stage' = choose_stage(Magnitude(signed_delta(raw, target_raw)))
  /\ deadline' = now + max_seconds
  /\ medium_since' = now
  /\ UNCHANGED <<now, target_raw, pending_opposite, motion_confirmed, history,
                 consecutive_invalid, recovery>>

\* No valid reply to one of the three reads, or nothing left to do at the
\* last of them.
NotStarted ==
  /\ \/ phase \in {"validate", "goto", "initial"} /\ UNCHANGED <<actual, lies>>
     \/ /\ Before("initial") /\ target_raw \in FirstReplies
        /\ Counts(target_raw, actual', 0)
  /\ Ends("aborted", "no_initial")
  /\ UNCHANGED <<now, deadline, target_raw, control, trust, consecutive_invalid,
                 recovery>>

-----------------------------------------------------------------------------
(***************************************************************************)
(* The sampling loop.  Whatever ends it, the finally block stops the axis. *)
(***************************************************************************)
Aborts(why) == Ends("aborted", why)

\* The loop's own exits: the deadline, and the cancellation event.
GivesUp ==
  /\ phase = "moving"
  /\ Aborts(IF now >= deadline THEN "duration" ELSE "cancelled")
  /\ UNCHANGED <<now, deadline, target_raw, control, trust, consecutive_invalid,
                 recovery, actual, lies>>

\* An iteration of the sampling loop, or of the settle loop, that gets as far
\* as the query.
Sampling ==
  /\ now' \in now + 1 .. now + MaxTicks
  /\ \/ phase = "moving" /\ now < deadline
     \/ phase = "settle" /\ now' < deadline
  /\ actual' \in Moves(IF phase = "moving" THEN Speed[active_stage] * (now' - now)
                       ELSE Coast, sign)

\* _check_az_medium_recovery: the window has closed, or the progress made is
\* enough.
Overdue == Recovering /\ now' >= recovery.deadline
Checked(u) ==
  IF Recovering /\ RecoveryProgress(u) >= MIN_PROGRESS
    THEN [recovery EXCEPT !.success = TRUE] ELSE recovery

RecoveryFails ==
  /\ Sampling /\ Overdue
  /\ Aborts("recovery_failed")
  /\ UNCHANGED <<deadline, target_raw, control, trust, consecutive_invalid,
                 recovery, lies>>

Implausible(raw) ==
  Magnitude(signed_delta(previous_raw, raw))
    > Larger(MIN_JUMP, MAX_CPS * Larger(now' - previous_time, 0))

\* Faulty: off by one.
OppositeByMore(raw) == signed_delta(previous_raw, raw) * sign < -OPPOSITE_COUNTS

Opposite(raw) == signed_delta(previous_raw, raw) * sign <= -OPPOSITE_COUNTS

Queries == Sampling /\ ~Overdue

\* Faulty: one reply too many is tolerated.
TooManyLater(n) == n > MAX_CONSECUTIVE_INVALID + 1

TooMany(n) == n > MAX_CONSECUTIVE_INVALID

\* A timeout, a malformed frame or an implausible jump.
InvalidReply ==
  /\ Queries
  /\ \/ UNCHANGED lies
     \/ \E raw \in Replies(actual', sign) :
          Implausible(raw) /\ Counts(raw, actual', sign)
  /\ consecutive_invalid' = consecutive_invalid + 1
  /\ IF TooMany(consecutive_invalid')
       THEN Aborts("invalid") ELSE UNCHANGED <<phase, reason>>
  /\ recovery' = Checked(unwrapped)
  /\ UNCHANGED <<deadline, target_raw, control, trust>>

Plausible(raw) ==
  /\ raw \in Replies(actual', sign)
  /\ ~Implausible(raw)
  /\ Counts(raw, actual', sign)
OppositeReply ==
  Queries /\ \E raw \in Replies(actual', sign) : Plausible(raw) /\ Opposite(raw)

SetsAside(confirmed) ==
  /\ OppositeReply
  /\ ~confirmed
  /\ pending_opposite' = TRUE
  /\ recovery' = Checked(unwrapped)
  /\ UNCHANGED <<phase, reason, deadline, target_raw, control, unwrapped,
                 previous_raw, previous_time, truth, consecutive_invalid>>

Confirms(confirmed) ==
  /\ OppositeReply
  /\ confirmed
  /\ Aborts("opposite")
  /\ recovery' = Checked(unwrapped)
  /\ UNCHANGED <<deadline, target_raw, control, trust, consecutive_invalid>>

\* Faulty: every opposite reply is set aside, or the first one ends the run.
AlwaysPending == SetsAside(FALSE)
ConfirmedAtOnce == Confirms(TRUE)

\* A first reply against the commanded direction is set aside ...
OppositePending == SetsAside(pending_opposite)

\* ... a second one, compared with the same trusted position, confirms it.
OppositeConfirmed == Confirms(pending_opposite)

\* Faulty: the reply the position was counted from stays the same.
AdvancesOnly(raw) ==
  /\ unwrapped' = unwrapped + signed_delta(previous_raw, raw)
  /\ UNCHANGED previous_raw

Advances(raw) ==
  /\ unwrapped' = unwrapped + signed_delta(previous_raw, raw)
  /\ previous_raw' = raw

\* Any other valid reply is trusted.
Trusts(raw) ==
  /\ Plausible(raw) /\ ~Opposite(raw)
  /\ pending_opposite' = FALSE
  /\ consecutive_invalid' = 0
  /\ Advances(raw)
  /\ previous_time' = now' /\ truth' = actual'
  /\ motion_confirmed' = (motion_confirmed
                            \/ (unwrapped' - start_raw) * sign >= MIN_PROGRESS)
  /\ UNCHANGED <<target_raw, sign, target_unwrapped, start_raw>>

TrustedReply == Queries /\ \E raw \in Replies(actual', sign) : Trusts(raw)

Reaches ==
  /\ phase = "moving"
  /\ TrustedReply
  /\ Remaining' <= stop_margin_counts
  /\ Ends("settle", "reached")
  /\ deadline' = now' + settle_seconds
  /\ recovery' = Checked(unwrapped)
  /\ UNCHANGED <<active_stage, history, medium_since>>

\* evaluate_no_progress over the valid MEDIUM samples.  A sample too old to be
\* compared now is not kept: it will not be compared later either.
Recent(h) == {s \in h : s.time >= now' - (PROGRESS_WINDOW + 2)}
Measured == Recent(history) \cup {[time |-> now', position |-> unwrapped' * sign]}
Stalled ==
  \E s \in Measured :
    /\ s.time <= now' - PROGRESS_WINDOW
    /\ \A r \in Measured : r.time <= now' - PROGRESS_WINDOW => r.time <= s.time
    /\ unwrapped' * sign - s.position < MIN_PROGRESS

Eligible ==
  /\ active_stage = Medium /\ motion_confirmed'
  /\ ~recovery.attempted
  /\ Remaining' > Threshold[Medium]

\* Faulty: MEDIUM keeps the history of its last activation.
KeepsHistory(samples) ==
  LET stage == choose_stage(Remaining') IN
  /\ active_stage' = stage
  /\ history' = samples
  /\ medium_since' = IF stage = Medium /\ stage # active_stage THEN now' ELSE medium_since

\* The stage for the remaining distance is activated when it is another one;
\* activating MEDIUM clears its history.
Selects(samples) ==
  LET stage == choose_stage(Remaining')
      begins == stage = Medium /\ stage # active_stage
  IN /\ active_stage' = stage
     /\ history' = IF begins THEN {} ELSE samples
     /\ medium_since' = IF begins THEN now' ELSE medium_since

Drives ==
  /\ phase = "moving"
  /\ TrustedReply
  /\ Remaining' > stop_margin_counts
  /\ ~(Eligible /\ Stalled)
  /\ recovery' = Checked(unwrapped')
  /\ Selects(IF Eligible THEN Measured ELSE history)
  /\ UNCHANGED <<phase, reason, deadline>>

\* The one resend of the MEDIUM payload.
Resends ==
  /\ phase = "moving"
  /\ TrustedReply
  /\ Remaining' > stop_margin_counts
  /\ Eligible /\ Stalled
  /\ recovery' = [attempted |-> TRUE, start |-> unwrapped',
                  deadline |-> now' + RECOVERY_WINDOW, success |-> FALSE]
  /\ Selects(Measured)
  /\ UNCHANGED <<phase, reason, deadline>>

-----------------------------------------------------------------------------
\* The settle loop watches the axis after the STOP; it handles a reply like
\* the sampling loop does but commands nothing.
Settles ==
  /\ phase = "settle"
  /\ TrustedReply
  /\ recovery' = Checked(unwrapped)
  /\ UNCHANGED <<phase, reason, deadline, active_stage, history, medium_since>>

SettleEnds ==
  /\ phase = "settle"
  /\ now' \in now + 1 .. now + MaxTicks /\ now' >= deadline
  /\ phase' = "returned"
  /\ UNCHANGED <<reason, deadline, target_raw, control, trust,
                 consecutive_invalid, recovery, actual, lies>>

Next ==
  \/ Validate \/ GotoBegins \/ InitialRead \/ NotStarted
  \/ GivesUp \/ RecoveryFails \/ InvalidReply
  \/ OppositePending \/ OppositeConfirmed
  \/ Reaches \/ Drives \/ Resends
  \/ Settles \/ SettleEnds

Spec == Init /\ [][Next]_vars

-----------------------------------------------------------------------------
Phases == {"validate", "rejected", "goto", "initial", "moving", "settle",
           "returned", "aborted"}
Reasons == {"none", "delta", "exact", "no_initial", "duration", "cancelled",
            "recovery_failed", "invalid", "opposite", "reached"}

TypeOK ==
  /\ phase \in Phases /\ reason \in Reasons
  /\ {now, deadline, previous_time, medium_since} \subseteq Nat
  /\ target_raw \in Raw /\ previous_raw \in Raw /\ start_raw \in Raw
  /\ sign \in {1, -1}
  /\ {target_unwrapped, unwrapped, actual, truth} \subseteq Int
  /\ active_stage \in Stage
  /\ consecutive_invalid \in 0 .. MAX_CONSECUTIVE_INVALID + 1
  /\ {pending_opposite, motion_confirmed} \subseteq BOOLEAN
  /\ \A s \in history : s.time \in Nat /\ s.position \in Int
  /\ recovery \in [attempted : BOOLEAN, start : Int, deadline : Nat, success : BOOLEAN]
  /\ lies \in 0 .. MaxLies

Controlling == phase \in {"moving", "settle"}

\* The axis is driven only while its position is known: between the trusted
\* reply a command is based on and now lie no more iterations than the invalid
\* ones tolerated and one set aside as opposite, in whatever order they come.
NeverBlind ==
  Controlling =>
    now - previous_time <= (MAX_CONSECUTIVE_INVALID + 1) * MaxTicks

\* The position counted across the wrap is the last trusted reply, and the
\* target lies the short way round: what the run approaches is the position
\* it was asked for.
ShortWay ==
  Controlling =>
    /\ unwrapped % RAW_MODULO = previous_raw
    /\ target_unwrapped - target_raw \in {-RAW_MODULO, 0, RAW_MODULO}
    /\ 2 * Magnitude(target_unwrapped - start_raw) <= RAW_MODULO

Trustworthy == truth - unwrapped \in {0, sign}

\* Without corrupted replies the trusted position is where the axis was when
\* it was last read, up to the one count the encoder may be short: counting
\* never loses or gains a revolution.
TrustedIsTrue ==
  Controlling /\ lies = 0 => Trustworthy

\* Counting across the wrap is right: the target is the one asked for, the
\* short way round, and the trusted position the true one.
CountsAcrossWrap == ShortWay /\ TrustedIsTrue

\* "A single valid reply opposite to the commanded direction may be an
\* electrically corrupted frame": one does not end a run.  It takes two of
\* them, or a corrupted reply that was trusted before.
OneOutlierHarmless ==
  reason = "opposite" /\ Trustworthy => lies >= 2

\* The payload is never raised on the way to the target, except at a threshold
\* by a reply that runs back by less than an opposite one; and without
\* corrupted replies that is the one count the encoder may be short.
Decelerates ==
  [][phase = "moving" /\ phase' = "moving" /\ active_stage' < active_stage
       => LET excess == Remaining' - Threshold[active_stage'] IN
          /\ excess \in 1 .. OPPOSITE_COUNTS - 1
          /\ lies' = 0 => excess = 1]_vars

\* The resend rests on MEDIUM evidence alone: the whole window it looks back
\* over was driven in the MEDIUM stage.
EvidenceWithinMedium ==
  [][~recovery.attempted /\ recovery'.attempted
       => active_stage = Medium /\ now' - medium_since >= PROGRESS_WINDOW]_vars

\* Beyond the limit the operator set, the axis is sent no further than it can
\* still have coasted between the reading the limit was checked against and
\* the one the motion is planned from.
WithinLimit ==
  phase = "moving" /\ lies = 0 =>
    Magnitude(target_unwrapped - start_raw) <= max_delta_counts + 2 * Coast
=============================================================================
