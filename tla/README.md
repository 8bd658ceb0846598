# The SkyPortal bridge in TLA+

This directory holds a formal model of the program in `src/`: a bridge that lets
the Celestron SkyPortal app drive a telescope mount whose motor controller is the
NXW436. There are two implementations of it, a Python one that runs on a PC and
talks to the NXW436 over its J1 serial line, and a port to an ESP32 which so far
drives a simulated mount or only reads positions from J1.

The models are TLA+ modules checked with TLC on small instances; the theorems are
proved with TLAPS for every instance. `PROJECT.json` lists the components, the runs,
the hazards, the theorems, and for every definition the source lines it
stands for.

- [The system](#the-system)
- [The modules and the code](#the-modules-and-the-code)
- [The runs](#the-runs)
- [Where code and documents part](#where-code-and-documents-part)
- [Proofs](#proofs)
- [What is not modelled](#what-is-not-modelled)
- [Plan](#plan)

## The system

```
 SkyPortal --TCP--> AUXTCPServer -> parser -> AUXDispatcher -> virtual motor controllers
                        |                        |                    |
   UDP advertiser ------+                        v                    v
                                           GoToCoordinator --> MountController
                                          (a thread per axis)         |
                                                  NXW436MountBackend -+- FakeMountBackend
                                                         |
                                   RelativePositionController, NXW436 driver -> J1 serial

 SkyPortal --TCP--> Esp32FakeFrontend::poll -> parser -> SemanticCore --> MountController
                                 |                                              |
                                 +--> FakeMountRuntime::tick         FakeMountBackend or
                                                                     Nxw436ReadOnlyBackend -> J1
```

| Component | State it keeps | Operations | Talks to |
|---|---|---|---|
| AUX TCP server and advertiser (`tcp_server.py`, `hbg3_infrastructure_experiment.py`) | the one connection, its parser, `_active_connection`, `stop_event` | accept, receive, time out, dispatch and reply, advertise, stop | dispatcher (call), advertiser (shared flag), clients |
| AUX parser and codec (`parser.py`, `framing.py`; `AuxStreamParser.cpp`, `AuxCodec.cpp`) | buffered bytes | feed, encode | server, dispatcher |
| AUX dispatcher and virtual motor controllers (`dispatcher.py`, `virtual_mc.py`) | manual ownership of each axis, autoguide rate | one frame to one reply: MOVE, GOTO, SLEW_DONE, positions, identity | coordinator (lock), backend |
| GoTo coordinator (`goto_coordinator.py`) | one job per axis, under a lock; a thread per job; a cancellation event per job | start, cancel and join, publish the outcome | backend (from the job's thread), dispatcher |
| NXW436 backend and position controller (`nxw436_mount_backend.py`, `nxw436_position_controller.py`, `nxw436_progress_detector.py`) | last direction, commanded motion; the trusted position, stage, recovery and invalid-reply counts of one run | position, move, STOP, goto: sample, choose a stage, resend once, stop, settle | driver |
| NXW436 driver (`nxw436_driver.py`) | the serial port, a transaction lock | query, move, double STOP | J1 |
| Fake backend and two-stage gate (`fake_mount_backend.py`, `hbg3_infrastructure_experiment.py`) | positions, speeds (no lock); the gate | as the real backend | coordinator, gate watcher |
| Coordinate adapters (`coordinates.py`, `AuxCoordinateAdapter.cpp`) | the configuration of an axis | native counts to AUX units and back | dispatcher, semantic core |
| Network probe (`celestron_network_probe.py`) | buffered bytes of its one client | record and interpret what is received | clients |
| Launcher (`nxw436_hardware_experiment.py`) | – | validate a GoTo target, shut down | all of the above |
| ESP32 semantic core, fake mount (`SemanticCore.cpp`, `FakeMountRuntime.cpp`, `FakeMountBackend.cpp`) | job state and target per axis; the runtime's own copy of the running job; position, motion, remainder | dispatch, tick | frontend's loop |
| ESP32 frontend (`Esp32FakeFrontend.cpp`) | client, idle timer, advertisement timer | poll | core, runtime, sockets |
| ESP32 J1 reader (`Esp32J1ReadOnlyUart.cpp`, `Nxw436ReadOnlyBackend.cpp`) | the desync latch | query | J1 |
| Bench scripts (about thirty `nxw436_*.py` and others) | what was commanded, unusable replies in a row | one motor run each, from the command line | driver, or the port itself |

### What is hard

*Threads.* A GoTo runs in a thread of its own. The dispatch thread looks at the job,
cancels it and joins it in separate critical sections, and both threads send to the
same motor through the same port. `cancel` waits two seconds for a thread that may need longer.
The process may end while GoTo threads, which are not daemons, go on.

*Failure.* A serial write can raise before or after its bytes got out. The
final double STOP may fail in either half. What the bridge then says (the job's state,
`motion_stopped`, an acknowledged STOP, FF on SLEW_DONE) has to agree with the
motor it no longer controls.

*Bad data.* Position replies are three bytes without address, checksum or sequence
number. They come late, not at all, malformed, or corrupted into a plausible number, and the
controller must neither drive the axis on without a position nor stop for a single bad one.

*Missing locks.* The fake backend is used by the dispatch thread and the GoTo threads without one; the gate of the HBG3 experiment
is an event, a file, a watcher thread and an observer that runs in the GoTo threads.

*Order and time.* TCP splits and joins frames and clients vanish in the middle of
one. The firmware looks at jobs only when it ticks. Its clock, and the position of an axis,
wrap.

*Ways out.* A bench script may be left at any line, by an exception of the port or by Ctrl+C, once or again while it
is stopping its motor.

### What makes the components right

- The coordinator and backend: one commander per motor; a motor that moves is
  owned by a job or by manual motion; what is reported as stopped is stopped; every job
  and every frame ends; manual motion follows a GoTo only after its STOP.
- The gate: what it lets through was released by the operator since it was last closed; what waits at it is released by a file.
- The position controller: the trusted position is the true one, across the wrap; the axis is
  driven only while the position is known; a single outlier changes nothing; the stage
  suits the distance; the evidence for a resend comes from the stage that is judged.
- The server: sessions do not mix; replies come in order and once; waiting clients are
  served; the server stops when told.
- The coordinates: both programs convert alike, in range, and a position survives the round trip within the rounding of a unit.
- The firmware: a job completes at its own target; what is stopped stays; manual motion
  is what was asked for; every GoTo ends.
- The bench scripts: the motor is stopped on every way out, and does not run on without a position.
- The line: a reply is used for its own query; a double STOP is not interleaved; a
  reader that is out of step stays silent.

The hazards behind these properties are in `PROJECT.json`, each at the line where it bites,
with the properties that watch it.

## The modules and the code

Every module is one component, or a few that only make sense together. A definition
has the name of the function or field it stands for where there is one. Definitions
whose comment begins with *Faulty:* are not part of a specification: each is a plausible mistake in one
operation, kept to show that the properties notice it (`mutants` in
`PROJECT.json`).

### GotoBridge: coordinator, dispatcher, backend, port

State: `job` is `GoToCoordinator._jobs`; `thread` is where each GoTo thread is in
`backend.goto` and `controller.run` (`start`, `prestop`, `initial`, `activate`, `loop`, `stop`,
`settle`, `finish`) and how the call is going to end; `frontend` is the dispatch thread
with the frame it works on; `motion_owned`, `last_direction`, `motion_commanded` are the fields of
that name; `motor` is what the motor does, which no program knows; `port` and `tcp` say
whether the port is open and the server thread alive.

A step is what a thread does between two points where another can interfere: one
critical section of the coordinator's lock, or one UART transaction. `Dispatch` has an action per
way through the dispatcher (`GotoRejected`, `GotoStarted`, `SlewDone`, the MOVE frame with
its cancel, join, timeout and the command after it); `GotoThread` an action per stretch of the
thread. Every write has three outcomes (`SendOutcomes`): sent, lost with an exception, sent
with an exception. `Shutdown` closes the port under the running threads.

Abstracted: positions, except whether a read works and on which side the target
lies (PositionController has the rest); number and time of samples, bounded by
`MaxSamples`; a STOP with the prefix of another motion than the one going on, of which nobody
knows whether it works, may or may not stop the motor (`StopEffect`).

### GotoService: what the bridge promises

The abstract specification of GotoBridge: of each axis the owner of its motor, the phase of its last job, whether that was
published as stopped, and what the motor does. An axis is accepted for a GoTo or taken in hand only from nobody; only the owner's
commands change what the motor does, for better or worse; a job ends once, CANCELLED if and only if it was asked to stop, and says that the
motor stopped only if it did. There are no threads, frames, locks, exceptions or shutdown in it. GotoBridge instantiates it
(`Service`): the owner is read off the job and `motion_owned` (`OwnerOf`), a job has driven its motor when its thread has.

### TwoStageGate: fake backend, gate, observer

`job` and `thread` as in GotoBridge; `motion_commanded` and `speed` are the two dictionaries of `FakeMountBackend`, written one after
the other by threads that share no lock, so an `_integrate` of the server thread is three steps (`PollChecks`, `PollLooksUp`,
`PollWrites`). `gate`, `path`, `watcher`, `fast_rearmed` and `lock` are the event, the file, the thread in `watch_gate_file` and the two variables of
`configure_two_stage_gate`; `observer` is where a thread that has published a job is in `observe`. Positions are abstracted to whether they are the target
(`on_target`). The operator creates the file whenever it is not there and leaves it; the observer of an axis's last FAST
job is done before the next one's begins.

### Coordinates: AUX units and native counts

`to_aux` and `from_aux` are the Python adapter, `toAux` and `fromAux` the firmware's, each with its own way of rounding: Python
divides integers towards minus infinity, C++ towards zero and with `RoundDiv` and `NonNegative` put in their place. `SameAsPython`, `ComesBack` and
`MeetsTarget` compare the two, go round in both directions, and ask that a GoTo that arrived is reported at its AUX target. Esp32Mount uses the operators for its GoTo and position frames.

### PositionController: one GoTo, count by count

The launcher's validator, the two reads before the motion, and
`RelativePositionController.run` with every branch of `_handle_sample` and
`_handle_valid_position`: timeouts, malformed and implausible replies, a reply against the direction of
motion set aside and the second one that confirms it, progress evidence in the MEDIUM stage, the one resend and
its window, margin, deadline, settling. `actual`, the true position, is moved by
the environment at no more than the speed of the stage; `Replies` is what the encoder may answer
and, up to `MaxLies` times, any valid number at all. Time is counted in nominal
sample intervals; an iteration takes one to `MaxTicks` of them.

### Esp32Mount: semantic core, runtime, fake backend

One axis (the code keeps an array entry per axis and no operation touches two). `goto_state`
and `goto_target` belong to SemanticCore, `position`, `moving`, `direction`, `speed` to the backend, `runtime` to
`FakeMountRuntime`, which keeps a copy of the job it drives. `Tick` is `tickAxis`, in four cases; `Dispatch` the
frames that move the axis or ask after it. Between two ticks come up to `burst` frames, a number from 1 to `MaxFrames` fixed for
a behaviour, since a chunk may hold one frame or several and some promises need one. A GoTo takes its target, and a position reply
gives the position, in AUX units under any configuration of `AuxConfigs`. Speeds
are whole counts per clock unit, so the remainder that `FakeMountBackend::tick` carries stays
zero. `ClockModulus` stands for 2^32.

### Chunks: what a server sees of TCP

Shared by the two servers: a frame is two pieces, which is enough for a chunk to end inside a frame or to hold
several; `Whole` and `Rest` are what a parser takes out of a buffer and what it keeps.

### TcpServer: server thread, clients, advertiser

`serve_until`, `handle_connection` and `handle_chunk` in one thread, `advertise_once` in another, clients that
connect, send pieces of frames, close, reset, or stop reading. An exception of `sendall`, or of
`dispatch`, that nothing catches ends the thread. Looking at `active_connection` and sending the
datagram are two steps; accepting and setting the flag are one, which loses
nothing, as an advertisement in that gap is no later than one that was already decided. Capture files are left out.

### Esp32Frontend: the poll loop of the firmware

`loop` is where `poll` is: it probes the peer (`Probes`), accepts (`Accepts`, `AcceptsNobody`), takes what has come
(`Receives`, `ReceivesNothing`), processes the frames of a chunk one by one (`Drops`, `Answers`, `AnswersShort`,
`AnswerStops`), drops an idle client (`Idles`) and, without one, advertises when it is time (`Advertises`, `LapEnds`).
Times are `millis()`, a clock that wraps at `ClockModulus`; `elapsedAtLeast` and `Due` are the signed differences of the code.
`silence`, `free` and `age` measure real time and are what the properties compare the timers with. `connected` is the flag
of `WiFiClient`, which may fall at any time after the peer has gone. A client sends and leaves only once it is
served: the loop does not look at it earlier. lwIP and `WiFiClient` are not part of the repository, so a write
to a peer that is gone may succeed or stop the client, and one to a peer that does not read may block and be short.

### AuxParser: the three stream parsers on one stream

Every byte that arrives goes to the firmware's parser (`feedByte`, at most one event for a byte) and into the next chunk of
the Python parser (`feed`, as many events as there are), which is also one read of the network probe (`_receive_tcp`, `candidate_aux_frames`): that one
has no limit for a frame, but throws its buffer away, unparsed, when it is over `max_parser_buffer`. `Found` is the reference definition, by
positions in the stream instead of buffers, for any limit of a frame. `serialize`, `deserialize` and `checksum` are the codec on the same bytes, which are numbers
below `Base`. The recursive functions `Parsed` and `Candidates` stand for the loops of the Python bridge and the probe.

### J1Line: the serial line and its two readers

The transactions of the Python driver, whose threads share a lock, and
of the firmware, which has one loop; the variable `program` says which of the two a behaviour
is about. A byte is modelled as the pair of its query and its place in the reply: the model can tell what
the programs cannot. Bytes may be delivered at any time after they were sent, lost (`MaxLost`) or made up
(`MaxNoise`). A timeout may strike whenever fewer than three bytes have been read: how long the line
takes is left open.

### BenchScripts and BenchRun: the scripts that measure a motor

Some thirty scripts drive one axis from the command line. Each has its own loop and its own way of stopping, so the
model is a small language: BenchScripts writes down what each script sends, asks and waits for, in the order of the
code and in its `try`, `except` and `finally` blocks; scripts that differ in axis, speed and time only share a
program. A sampling loop is described by where it looks at its deadline, whether the position can end it or abort it, and
by what it does with a missing, a malformed and an implausible reply.

BenchRun executes a program. An instruction is an action: `Queries`, `Passes`, `Sends`, `Halts` (one STOP frame), `Stops` (the two
halves of `NXW436.stop`, of which the second is sent even if the first raised), `Samples` and `LoopEnds`, `Asks` for `input()`. Every access to
the port may raise, before or after its bytes got out, and `Interrupt` is Ctrl+C between any two instructions; `LeavesBlock` and `Raises` find the block that
comes next. A STOP with the prefix of another motion may or may not work. What is computed from
positions is left to chance (`Fork`, `ends`, `aborts`). `lost`, `cut`, `unmarked` and `blind` are what the properties remember: STOPs of closing blocks
that raised, closing blocks that were interrupted, exceptions between a motion and its flag, replies without a position.

### Bounds that stand for something in the code

`MaxSamples` is `max_seconds / sample_seconds`; `IdleTimeouts` is `client_idle_timeout` over the half second of a receive timeout;
`MAX_CONSECUTIVE_INVALID` and its neighbours are the constants of that name, scaled down with
`RAW_MODULO`; `Laps` is the time of a motion over its sample interval; `Base` and `MIN_LENGTH` are 256 and 3 in the code, `max_buffer` 4096 in Python and 512 in the firmware, `max_parser_buffer` 1024; `AuxFullTurn` is 2^24 and the full turn of an axis configuration 2 400 000; `ClockModulus` is 2^32; `MaxDelay` and `MaxBlock` bound how long a
lap of the firmware's loop and a blocked write take. `MaxFaults`, `MaxLies`, `MaxLost`, `MaxNoise`, `MaxRaises`, `MaxFrames`, `MaxPieces`, `MaxStream`, `MaxQueries`, `MaxRounds`, `MaxInterrupts` bound how
often the environment acts in one behaviour.

## The runs

| Run | What it asks | Instance |
|---|---|---|
| `goto` | Whatever the port does: thread and job agree, the two threads never command one motor and an axis changes hands only when it is free (`OneOwner`), nothing is published as stopped that is not (`PublishedStop`), and every step is one the abstract service allows (`ImplementsService`). Until the port first raises or is closed: every motor that runs can be stopped, with a STOP of its own prefix, STOP and SLEW_DONE answers are true (`InControl`), manual motion starts on a still axis (`ManualAfterSafeStop`). Every job and every frame ends (`EverythingEnds`). | one axis, two directions, three serial exceptions anywhere, shutdown at any moment, up to three samples; 27.8 thousand states |
| `goto_dead_end` | *Violation*, see below. | one axis, no fault |
| `gate` | No axis goes on integrating without a job or an owner (`Consistent`); an open gate was released by a file the operator created since it was closed (`SecondTouch`); a job published as completed stands at its target and the server thread lives, unless a position read overlapped the end of the GoTo (`HarmNeedsOverlap`); a file releases what waits, and two FAST jobs re-arm the gate (`StagesFollow`). | both axes, manual motion on one, a file that appears at any moment; 278 thousand states |
| `controller` | The axis is never driven without a position (`NeverBlind`), it goes the short way and the trusted position is the true one (`CountsAcrossWrap`), one outlier ends nothing (`OneOutlierHarmless`), the stage only goes down towards the target, up to a count at a threshold (`Decelerates`), a resend rests on MEDIUM evidence (`EvidenceWithinMedium`), the limit holds up to what the axis coasts (`WithinLimit`). | a circle of 40 counts, three stages, start beside the wrap, one target beyond it and one at the limit on the other side, one corrupted reply, late samples; 1.2 million states |
| `esp32` | What is stopped stays and manual motion is what was asked (`ObeysFrames`), a GoTo never leads away from its target (`GotoApproaches`) and ends (`GotoEnds`); with one frame per poll it ends at its own target, at rest (`CompletedAtTargetOneByOne`); the two programs' coordinates agree, come back, and meet the target (`CoordinatesHold`). | six counts, a circle of 16 AUX units, five configurations (either sign, shifted zeros, two limited axes), a clock that wraps every six units, two speeds, two targets, one or two frames per poll; 1.25 million states |
| `esp32_replaced` | *Violation*, see below. | as `esp32` |
| `tcp` | Sessions do not mix, and replies come in order and once (`OwnFramesInOrder`), talking clients are kept (`KeepsTalkers`), waiting ones are served while the thread lives, and it ends when told (`ServesAndStops`). | two clients of two frames, resets, deaf clients, one exception of dispatch, stop; 289 thousand states |
| `tcp_reset` | *Violation*, see below. | two clients of one frame |
| `j1` | The firmware never returns another query's reply, and the driver does only after a timeout (`OwnReplies`); the firmware falls silent for good once out of step (`SilentOutOfStep`); the two writes of a STOP stay together (`DoubleStopTogether`). | two threads, three queries, a lost and an invented byte; 45 thousand states |
| `frontend` | Frames belong to the client served and are answered in order, once (`OwnFramesInOrder`); only a silent client is dropped (`IdleOnlyWhenSilent`), the bridge advertises once a period while it is free (`AdvertisesPromptly`), both across the wrap of the clock; a waiting client is served (`NewClientServed`). | two clients of one frame, FIN, reset, a peer that stops reading, a clock that wraps every ten units; 1.7 million states |
| `aux_parser` | The three parsers find what there is to find, and nothing else, overflows included (`AllFindAll`; the probe from where it last lost its buffer), the firmware's with its last byte and with room for the next (`NothingPending`); what is taken for a frame is the encoding of what it says (`Canonical`). | every stream of up to eight bytes over four values, in every division into chunks; 970 thousand states |
| `bench` | No script leaves its motor running, whatever raised, once its closing blocks got through (`NeverLeftRunning`); one that counts unusable replies does not drive on after the third (`NotDrivenBlind`); every motion of a script with a clock ends (`MotionEnds`). | all 25 programs, both directions, two serial exceptions and two Ctrl+C anywhere, four laps before a deadline; 18 thousand states |

In `tcp`, `j1`, `frontend`, `aux_parser`, `bench` and `gate` the type invariant is a conjunct of one of the properties.

*Why the bounds are enough.* Two serial exceptions let a first one leave a motor running and
a second one break the attempt to stop it, and a third the next attempt. `goto` has one axis, because liveness rules out symmetry: no action of GotoBridge looks at
two axes but the dispatch thread, which is at one frame at a time, and the proofs are for every set of axes. `gate` has both, for the observer compares them. In the controller three stages
give one above, one at and one below MEDIUM, the only stage with a recovery; one corrupted reply is what the code
claims to survive, and the claim that takes two (`OneOutlierHarmless`) says so. Two frames between ticks are what a
cancel and a new GoTo need; more frames only repeat states. The clock of the frontend is as short as its assumption
allows (half its range is more than any interval it is used for), so every timer meets the wrap. Streams of eight bytes hold a complete frame, a refused length or a wrong checksum
and the frame after it. Two clients are the one served and
the one that waits. Three queries are the late one, the one that takes its bytes and one more. In `bench` two
exceptions are the one that ends a run and one in the closing block it leads to, and four laps are more than the
three unusable replies in a row that end a run.

*Deadlock* is checked in `esp32` and `frontend`, whose loops never stop. The other systems really stop: the process
exits, a run returns, the server ends, the queries or the bytes are used up.

*Fairness.* `goto`: the operating system schedules the GoTo threads and the dispatch
thread once it has begun a frame, so each has weak fairness as a whole; frames arrive or not, faults occur or not, the
operator stops the process or not, all without fairness. The join with its timeout is an action of the
dispatch thread, so the thread it joins need not be fast. `esp32` and `frontend`: the Arduino loop polls for ever (`WF(Tick)`, `WF(Poll)`); frames
and clients have no fairness. `tcp`: the server thread is scheduled (`WF(ServerSteps)`), and so its receive timeouts happen; clients and the
advertiser have no fairness. `gate`: each GoTo thread, with the observer it runs, the server thread within a frame and the watcher
are scheduled; frames and the operator have no fairness. `bench`: the process runs (`WF(Step)`), and what it waits for returns or times out; the operator need
neither press Enter nor Ctrl+C.

## Where code and documents part

Three runs show what the code does where a document, a docstring or a test says otherwise. Their counterexamples
were traced back to the code.

- `goto_dead_end`: a GoTo cancelled when its sampling loop is already over stops its motor, settles, and is
  set CANCELLED with `motion_stopped` left false: SLEW_DONE is never answered, although
  `research/ESP32_PORT_ARCHITECTURE.md` promises FF after a proved STOP. No fault is needed.
- `esp32_replaced`: a GoTo cancelled and replaced within one poll is driven to the old target and then reported as
  completed, because the runtime compares states and not jobs.
- `tcp_reset`: a client that resets its connection before a reply is written ends the server thread, while
  the advertiser goes on announcing it.

Other behaviours met while modelling, which the models have but no run singles out:

- After a serial exception `Stoppable`, `TruthfulReplies` and `ManualAfterSafeStop` fail, which is why they are
  stated for `Untroubled` states only: the first move is sent before
  the `try` whose `finally` stops the axis, a STOP on an unowned axis is acknowledged without traffic, a GoTo to
  the present position completes without a STOP, and a cancelled job counts as gone whether or not its STOP worked.
- A valid reply that is set aside as opposite does not reset the count of invalid ones (`nxw436_position_controller.py:287`), so a run
  can abort for "three consecutive" replies that were not consecutive, where `research/NXW436.md` lets a valid sample reset the streak.
- The reply that reaches the stop margin leaves `_handle_valid_position` before the recovery's progress is recorded, and
  the settle loop still looks at the recovery's deadline: a run that arrived can fail as `az_medium_recovery_failed`.
- The target limit is checked against one reading and the motion planned from a later one. `WithinLimit` states the
  slack that leaves: what an axis can coast between the readings.
- The fake backend has no lock. A position poll whose check of `_motion_commanded` precedes the end of a GoTo and whose look-up in `_speed` follows
  it raises KeyError (`fake_mount_backend.py:130`); the dispatcher catches MountError and RuntimeError only, so the TCP server thread ends, where
  `research/SKYPORTAL_GOTO_SLEW_RESEARCH.md:392` has polls answered throughout a GoTo. One that gets past the look-up writes its own position over the
  target of a GoTo that is then reported as completed. `HarmNeedsOverlap` is what remains true.
- If the client starts a SLOW GoTo after both FAST ones completed and before the observer has looked at the jobs, the gate is never re-armed and stays open:
  the SLOW stage passes without the second touch that `research/KILO_HANDOFF.md:197` and the docstring of `hbg3_infrastructure_experiment.py`
  (line 63) call for. `StagesFollow` says so in its second half.
- After a short write the firmware's frontend counts the loss and goes on with the next reply, so a client that reads again finds the rest of its stream
  out of frame; it is dropped only for silence.
- If the firmware serves one client for more than half the range of its clock (24.8 days) since the last advertisement, that client may leave a bridge that does not advertise
  until the clock has come round: the exception in `AdvertisesPromptly`.
- The firmware accepts a GoTo on an axis under manual motion, where the Python dispatcher refuses it; its
  read-only profile acknowledges a GoTo that nothing carries out.
- After a timeout the driver takes bytes that come late for the reply to its next query (`OwnReplies` says the most that holds); the firmware latches a desync instead.

- The probe drops a read whole, complete frames included, when it takes the buffer over its limit of 1024 bytes, although it reads up to 65536 at a
  time; it records that it did.
- The ALT drag test goes on after a missing reply without looking at any of its three ways out, and the scripts that hunt for the rollover have no
  deadline: the first never stops on a silent line, the others only when they see the rollover. They are the ones `MotionEnds` leaves out.
- Five scripts set the flag that their `finally` asks for after the motion frame (`MarkLate`): an exception between the two leaves the motor running.
- Where a closing block has several STOPs in one `try`, the first that raises takes the others with it; only the scripts in `Insistent` are sure to send a second one. In
  `nxw436_alt_periodic_drag_reverse.py` a position is asked for before the STOP, and a failed query uses up the first of two attempts.
- `nxw436_speed_ramp.py` announces that an impossible jump sends STOP; the loop marks such a reply as rejected and goes on, and the jump resets the count of timeouts.

## Proofs

Eight modules hold the theorems, each beside the component it is named for. All of them are for every value of the constants the
assumptions allow: any clients, threads, axes, any periods, speeds and bounds. Where a theorem is about a property of a
run, the run shows the property on a small instance first, and the inductive invariant was checked there before it was proved.

| Module | What it proves |
|---|---|
| `GotoBridge_proofs` | `TypeCorrect`; `Ownership` (`OneOwner`, whatever the port does); `SafePublication` (`PublishedStop`); `FaultFreeSafety` (`InControl`) and `SafeTakeover` (`ManualAfterSafeStop`), until the port first raises or is closed; `Implements`: GotoBridge implements GotoService, faults and shutdown included. |
| `TwoStageGate_proofs` | `NobodyDrifts` (`Consistent`), `ReleasedByOwnFile` (`SecondTouch`), `HarmOnlyByOverlap` (`HarmNeedsOverlap`), for every order of the unlocked accesses. |
| `PositionController_proofs` | All seven properties of the `controller` run: `TypeCorrect`, `NeverDrivenBlind`, `CountingIsRight`, `OneOutlierDoesNotAbort`, `LimitIsKept`, `PayloadNeverRaised` (`Decelerates`) and `ResendsOnOwnEvidence`. |
| `Esp32Mount_proofs` | `AdaptersAgree`, `PositionsComeBack`, `TargetsAreMet` about the two coordinate adapters, for every modulus, zero and sign; `CoordinatesAlwaysHold`, `TypeCorrect`, `CompletesAtTarget`, `FramesAreObeyed`, `NeverFurther` (`GotoApproaches`). |
| `AuxParser_proofs` | All three properties of the `aux_parser` run, for every base, limit and stream: `FindAll` (`AllFindAll`), `NonePending` (`NothingPending`), `AllCanonical` (`Canonical`); and `WrittenIsRead`, the converse of the last: what an encoder writes is read as that frame, whatever follows it. |
| `TcpServer_proofs` | `ChunkParsed`: wherever TCP cuts a stream, a parser yields exactly the frames that a chunk completes and keeps the odd piece; `SessionsApart` (`OwnFramesInOrder`), `TalkersKept` (`KeepsTalkers`). |
| `Esp32Frontend_proofs` | `SessionsApart` (`OwnFramesInOrder`), `AdvertisesInTime` (`AdvertisesPromptly`), `SilentDropped` (`IdleOnlyWhenSilent`), the last two wherever the clock wraps. |
| `J1Line_proofs` | `PositionsAreOwn` (`OwnReplies`), `StopUninterrupted` (`DoubleStopTogether`), `SilentOnceOutOfStep` (`SilentOutOfStep`), for both programs on the line. |

Every module has one inductive invariant, `IInv`, and a lemma for each action or group of actions that says it is kept. None of the properties
with a theorem is inductive by itself; what had to be added, and why, is said below.

### The arguments

*GotoBridge.* `PublishedStop` looks at the motor when a thread publishes its outcome, long
after the STOP was sent, so the invariant follows the thread: from
its first move to its final STOP the motor runs in the thread's direction (`ThreadDrivesMotor`), so the STOP has the right prefix;
after a final STOP that did not raise the motor is still, and stays so, because nobody else commands it
(`OneCommander`, which needs `ThreadRunsJob`: a cancelled job counts as active until its thread is gone). `ThreadHasDir` says that a thread that may send has chosen a
direction, `ActiveUnproved` that `motion_stopped` is set only when a job ends. For
`FaultFreeSafety` and `SafeTakeover` `KnownInv` adds what is known of the motors while nothing has gone wrong: `Untroubled => Known`, where `Known` joins the
properties to the fact that no thread and no frame is on its way to an exception. Trouble never ends (`TroubleStays`), so a
step that leads to an untroubled state starts in one, and no send in it failed (`UntroubledSends`).

The refinement rests on `IInv`: the owner of an axis is a function of the job and `motion_owned`, which never both hold it; a thread sends only while its
job is active; the dispatch thread only without one. One more invariant is needed (`CancelInvariant`): a job is STOPPING exactly
when its cancellation event is set, so a cancelled job can end only as CANCELLED. The proof has a lemma for each kind of step: those that leave
every abstract variable alone, and one for each action of the service. `PublishedStop` gives `End` its condition on the motor.

*TwoStageGate.* `Motors` says what a thread's place means for its axis: a job is active as long as its thread runs, manual motion excludes a
job, and a GoTo that has arrived is on target unless the axis was disturbed. The hard conjunct is `ReadOnRecord`: a poll between two of its
three unlocked steps while its GoTo has arrived has already been recorded, since otherwise the damage would come after
the evidence. `Gating` relates the gate to the file: an observer past its look at AZ holds the lock (`LockHeld`), until the gate is re-armed it is
open exactly when the first watcher is done (`FirstRelease`), and a file that a watcher sees or will see is one of the current stage (`FreshFile`), because the
observer closes the gate and takes the old file away before it starts the second watcher.

*PositionController.* Time, motion and counting are tied together by `Tracked`: the trusted position is as old as the invalid replies and
the one set aside since (`Open`), and the axis is ahead of it by at most what the stage makes in that time. So two replies that are compared are less than
half a revolution apart, and `signed_delta` of the readings is the true motion (`MotionIsCounted`), which is what keeps `TrustedIsTrue` and `ShortWay`.
`NeverBlind` follows from the same conjunct. `Outliers` says that an opposite reply to a true position is a lie; `Following` that the stage is the one `choose_stage` gives
the distance, so that `Decelerates` is about the distance alone; `OwnHistory` that what MEDIUM looks back on is younger than its command; `InLimit` carries the checked limit
through the two readings before the motion, with a coast for each.

*Esp32Mount.* `OnTheWay` gives the position of a moving axis in closed form, by the time since the GoTo began modulo the clock, from which follows that
a tick never leads away. `Agrees` says that the runtime's copy is the core's job whenever at most one frame came since the last tick, and `Kept` that
an answer is true until the next frame. The theorems on coordinates are integer arithmetic with a product of two unknowns, which the provers
do not do by themselves: their lemmas replace each rounded quotient by its bounds, divisor times quotient plus remainder.

*The servers.* In both, `Stream` says where the pieces that were taken from the client's stream are: answered, in `events`, or the odd one in the
parser; `ChunkParsed` (a lemma of the same name in `Esp32Frontend_proofs`) keeps it when a chunk arrives. `Sessions` (or `Session`) says that the server is with at most one client and that nothing of it is there before. For the
Python server `Quiet` equates `last_rx` with the silence of the client unless something is still unread.

The firmware's timers compare a clock that wraps. `Since` is the clock's own difference, and the invariant says how it relates to real time: `Silent` bounds the silence
measured so that it never reaches half the range, `Lap` bounds how long a lap has taken by the pieces and answers in it, and `Advertised` says where the next advertisement lies: a
period after the last one, or, before the first, at once. This is also where the exception of `AdvertisesPromptly` comes from: with a client for half the range, the comparison turns round, and the
bridge is silent afterwards.

*J1Line.* A query is answered by bytes that know theirs (the program cannot see it). `Clean` is the heart: until something has gone wrong, what was read, received
and is still on the line belongs to the query under way, in order, and without a query there is nothing. `Counted` says that a query under way is none of those that timed out,
`LatchHolds` that the firmware is out of step after every timeout. `Exclusive` and `StopHeld` say who is in a transaction; from them follows that a STOP's two writes stay together.

*AuxParser.* The parsers' loops, the checksum and the reference definition are recursive functions, of which TLA+ says only that they are chosen
if there is one: that there is one, and what it computes, has to be proved. Instead of induction the proofs take a minimal counterexample: numbers have a least one (`LeastNumber`, from the library's
well-foundedness), so a set of buffers has a shortest (`ShortestBuffer`). `Turns(limit)` is a loop with any limit, glued together from loops for buffers up to a
length (`LoopExists`, `LoopUnique`); each turn shortens the buffer, so it is the only function that satisfies the equation (`TurnsOnly`), and therefore is
`Parsed` for `max_buffer` and `Candidates` for a limit no length reaches (`ParsedIsTurns`, `CandidatesIsTurns`). `TurnsConcat` is the heart: fed the second part of a stream with what it kept of the first, a loop has told and keeps
what it would of both at once, so cutting a stream makes no difference. `OneTurnIsEnough` does it for the firmware, which makes one turn for a
byte: when nothing could be taken before a byte came, at most one byte is left after the turn it allows. `FoundIsTurns` equates the positions of the reference with what is dropped from a buffer. `IInv` says then that
each parser has told and keeps what its loop makes of all its bytes. No overflow ever adds an event because a loop waits only for a frame
shorter than its limit (`SettledShort`). For `AllCanonical` and `WrittenIsRead` the checksum byte is the one solution of its congruence (`ChecksumByte`, `ChecksumZero`).
What the servers' models say of the parser (`Chunks`) is `WrittenIsRead` and `TurnsConcat` with the bytes left out.

### What is assumed

The assumptions are the `ASSUME`s of the modules, which TLC evaluates in every run:

- The special values (`Still`, `NoDir`, `NoAxis`, `NoThread`, `NoClient`) are none of those they are told from; bounds are naturals.
- `StageAssumption`: the thresholds of the stages fall, as in the tables of `nxw436_position_controller.py`. `OPPOSITE_COUNTS` is at least 2 (it is 2 in the code).
- `HalfTurnAssumption`: an axis makes less than half a revolution between two replies that are compared, however many are unusable. In the
  code the fastest rate taken for possible is 10 000 counts a second, and half a revolution is 529 664 counts.
- `ScaleAssumption`: an axis has fewer counts than a turn has AUX units (1 059 328 and 2^24).
- `ByteAssumption` and `BufferAssumption` of AuxParser: `SOM` and `MIN_LENGTH` are bytes, the length is not zero, and a bridge's buffer holds at least the shortest frame
  (59, 3, 256 and 4096 or 512 in the code).
- `ClockAssumption` of Esp32Mount: the clock's range is longer than a GoTo and a tick; of Esp32Frontend: half the range is longer than the advertisement period, than the idle timeout with a
  client's stream answered and every write blocked, and than a lap. Half the range is 24.8 days.
- Nothing is assumed of the environment that its actions do not say: `Speed`, `Coast`, `MaxDelay` and `MaxBlock` bound what motor, loop and writes may do.

### What is only model-checked

- Liveness: `EverythingEnds`, `StagesFollow`, `GotoEnds`, `ServesAndStops`, `NewClientServed`, `MotionEnds`. The prover knows neither fairness nor ENABLED.
- BenchRun (`NeverLeftRunning`, `NotDrivenBlind`). The programs of the scripts are a finite table, and the run executes all of them in both directions: a proof
  would go through the same table, and add only the bounds on exceptions, laps and rounds.
- That a run or a frontend meets its time limits in seconds: time is counted in laps and samples.

## What is not modelled

- Formats and logs; identity, version and configuration replies. The servers know of the parser only that an incomplete frame is kept; AuxParser has the rest.
- The autoguide rate and the backlash settings, which nothing reads but the query for them.
- The network probe's sessions: it neither answers nor moves anything, and its select loop is one thread.
- What the fake Python backend integrates: TwoStageGate knows of a position only whether it is the target.
- What the bench scripts compute, print and save, and the scripts that move no motor (loopback checks, recorders, summaries).
- What happens on the line while the port is being opened or closed, apart from the exception a closed port raises.
- Electrical and mechanical behaviour, apart from the bounds on speed and coasting.

`PROJECT.json` has the list by component with the reason for each.

## Plan

The order is that of what a mistake would cost: first the threads that move motors, then the control of one motion,
then the parts around them.

1. Done: GotoBridge with its proofs, GotoService and the proof of the refinement, PositionController, TwoStageGate, Coordinates, Esp32Mount,
   TcpServer, J1Line, Esp32Frontend, AuxParser, BenchScripts and BenchRun.
2. Done: the proofs of the safety properties of TwoStageGate, PositionController, Esp32Mount, TcpServer, Esp32Frontend, J1Line and AuxParser.
3. Open: an invariant of BenchRun for an arbitrary program in the language of BenchScripts, with the condition on its blocks that makes
   `NeverLeftRunning` true.
