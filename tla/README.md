# TLA+ models and proofs for the plant-care car

The repository holds three programs that work together:

* the **firmware** of an STM32F407 car (`stm32F407vet6主要程序/`: C, RT-Thread),
  which drives the wheels, looks for a lamp, avoids obstacles, inspects leaves
  with a camera gimbal, waters, and reports its sensors;
* the **vision** program on a MaixCam (`MaixCam视觉/green.py`), which finds the
  lamp or classifies leaves and reports over uart4;
* the **host** program on a PC (`软件助手/`: PyQt), which sends commands and shows
  telemetry over uart5.

There are no tests in the repository, so what the code does under the
interleavings of its threads and interrupts has never been exercised on purpose.
That is what these modules are about.

## Inventory

How the firmware runs: interrupt handlers above everything; `main` (priority 10,
display only); one receive thread per serial port (`u1rx` .. `u6rx`, 15);
`sched10ms` (18), which runs the whole control chain of `rt_schedule_entry` every
10 ms; `buzzer` (20). A lower number preempts a higher one, so a receive thread
may write a flag between any two accesses of `sched10ms`, and is never
interrupted by it. There are no locks: threads share global variables.

| Component | State | Operations | Meets | What makes it correct | Modelled in |
|---|---|---|---|---|---|
| Wheels: `Finding_light`, `Finding_obs` (`SportMode.c`) | `MaixMode_flag`, `Motor_flag`, `starttime_cnt`, `Modestate_light`, `Modestate`, `time_cntobs`, odometers | one call per tick; mode, stop, lamp and distance frames | command dispatch, ranging, encoders, motors | a stop holds and is looked at in time; a finder that ends stops its wheels; a search gives up after a full turn; a leg has its length | `MotionControl` |
| Leaf inspection: `Plantleaf_ins` | `Plantleaf_insflag`, `time_cnt` | one call per tick of mode 1 | command dispatch, gimbal | the gimbal is never wound twice and comes home; a request ends | `LeafInspection` |
| Receive port: `serial.c`, `ipc.c`, `uart5_port.c` | ring, indices, semaphore | interrupt, indication, read loop | line, parser | order, newest bytes kept, no lost wakeup | `SerialRx`, `LossyFifo` |
| Command link: `serial_panel.py`, `uart5_port.c` | port, `parse_buf` | send, read, parse | host, dispatcher | no frame lost, held back or repeated by parsing; bounded deafness after a loss | `CommandLink` |
| Dispatch: `PlantSoft_DataProc`, `Maixcam_DataProc` | flags above, `Water_flag`, `lightONOFF_flag`, `Soil_PlantType`, clock | one frame | everything | each frame is applied whole | actions of the modules that read the flags |
| DHT11 driver (`DH11.c`) | two state machines, frame, flags | tick, pin interrupt | sensor, display, telemetry | only whole frames are used; the sensor rests; sampling goes on | `DhtSensor` |
| Irrigation (`Soil.c`, `water.c`) and pump automation (`ui_main.py`) | alarm flag, relay, permission; button, `_pump_enabled`, override, selected type | tick, frames; clicks, reports, timer, connection | link, plant type | host and device agree; the relay closes in time; a dry plant gets water | `Irrigation` |
| Mode, light and stop buttons (`serial_panel.py`, `ui_main.py`) | the buttons, the page | clicks, typed frames, connection, page changes | link, wheels, camera | the device does what the panel shows | `PanelSync` |
| Alarms and buzzer (`MQ*.c`, `buzzer.c`) | four flags, pin | tick, buzzer thread | voice | a lasting alarm is heard, silence follows in time | `Buzzer` |
| Voice (`usart6.c`) | one-shot flags, waiting time | tick | alarms, ranging | an obstacle is not repeated; no other alarm is starved | `Voice` |
| Telemetry (`usart5.c`, `serial_panel.py`) | packet counter, receive buffer | one packet every fourth tick; resynchronising parser | host page | packets recovered in order; a lost byte costs little | `Telemetry` |
| Vision protocol (`green.py`, `usart4.c`, `uart4_port.c`) | mode, mode buffer, vote history, parse buffer | periodic mode frame, pictures, reports | dispatch, fill-light | both sides reach the same mode; a verdict rests on several pictures; reports recovered | `VisionMode`, `LeafVote`, `CameraLink` |
| Fill-light (`PWM.c`) | brightness | tick | host, camera | the light reaches its brightness in time | `FillLight` |
| Heading (`CarTurn.c`, `Mypid.c`, `Usart2DMA_IMU.c`) | target, heading | tick | IMU, motors | a turn ends where it was meant to, the short way | `Heading` |
| Ranging (`usart1_port.c`, `VL53_DMA.c`) and the shell on the same port | parse buffer; ring, indication, open flag | bytes, opening, reads | wheels, shell | whole readings used; the shell does not take them | `RangingLink`, `Uart1Sharing` |
| Host accounts (`auth_state.py`) | account file, copy in memory | register, login, logout, start | pages | what the user was told survives a restart | `Accounts` |
| Display, ADC sampling, stepper byte builder, unused `fifo.c`, pages and widgets of the host | – | formatting, register access | – | – | not modelled: no decision depends on them |
| RT-Thread, HAL, CMSIS | – | – | – | – | vendored; only the receive path, the semaphore, the opening of a device and the shell's reads |

Hard behaviours, each with its line in `PROJECT.json` "hazards": non-atomic
increments against command writes; a stop that is looked at only inside functions
that are not always called; counters that wrap after 655 s; an odometer shared by
two state machines; a wakeup between an empty read and a wait; a ring that moves
the reader's index from the interrupt; frames cut anywhere or missing a byte; a
timeout racing the interrupt that completes a frame; a panel that shows what it asked
for and hears nothing back; reports that were under way when the user chose; a restart
of one side only; a file that is emptied before it is written.

## The modules

### MotionControl
One action per frame that a receive thread applies (they preempt `sched10ms`, so a
frame is atomic), and one step of `sched10ms` for each read of a variable that
those threads write, following `MaixCam_Sport`: `Tick`, `LoadStart`/`StoreStart`
(the two halves of `starttime_cnt++`), `TestStart`, `TestMotor`, the cases of the
two switches, `CloseFinder`. `pc` is the position in that function. `drive` is
what the motors were last told. Headings are not modelled: `Turn` may find its
heading at any call, or never. The states of `Finding_obs` are numbered from the
number of headings, as in the code (0, 1 .. 10, 11, 12 for five headings). The two
odometers are always reset together and driven together and are one variable.
The ranges left in the wake of code behaviour are part of `TypeOK`:
`time_cntobs` really reaches `LookTicks + NearTicks`, because the last look goes
back to watching without clearing it.

`estop`, `blind`, `spun` and `gone` are history variables: how far a stop frame has
got, ticks since anything could have noticed it, and distances since the search
and the leg began.

### LeafInspection
The same thread seen from `Plantleaf_ins`, with `circle` the circles the gimbal is
wound. The two modules share `MaixMode_flag` and `starttime_cnt` and nothing else,
which is why they are separate: the product would add states and no interaction.

### LossyFifo, SerialRx
`LossyFifo` is what a port promises: bytes in order, oldest dropped when the reader
is late by more than its capacity. `SerialRx` is the code: `OpenDevice`,
`SetIndicate`, `StartThread` in the order of `uart5_port_open`; `StoreByte` and
`Indicate` are `rt_hw_serial_isr`; `TakeSem`, `PopByte`, `ReadReturns`, `Parse` are
the thread, one action per section that runs with interrupts disabled. It
implements `LossyFifo` with `queue <- Contents` (the ring read from `get_index`)
and `Capacity <- BufSz - 1`. The flag `is_full` is raised by a full ring although
its index has moved: the property `NeverAmbiguous` says why nobody mistakes it.

### CommandLink
The host's frames, `LossyFifo` as the port (`Port!Receive`, `Port!Read`,
`Port!HandOver`), and `uart5_try_parse` with one action for each way through its
loop. `due` is the history of frames sent and not dispatched; a loss empties it and
starts `deaf`, the number of bytes heard since without a frame dispatched.

### DhtSensor
The 10 ms state machine and the pin interrupt of the DHT11, with a sensor that
makes its next edge whenever it likes or never. A captured bit is the pair of edges
between which it was measured, so a shifted or stitched frame is visible. The
interrupt is two steps, clearing the request and reading the level, since edges may
come in between; the task has one step per access the interrupt can tell apart.

### Irrigation, PanelSync
The host against the device. A host action is one Qt event handler, a device action
one frame or one half of a tick; frames wait in `down`, reports in `up`, and faults
(a refused write, a lost frame, a restart of the device, a frame typed by hand) are
bounded by `MaxFaults`. The two modules split the settings: the pump and the plant
type, which come back in reports and drive an automation on each side, are in
`Irrigation`; mode, light and stop, which never come back, in `PanelSync`. The history
`clean`, or `trusted`, says when the panel may claim to know the device: every frame
since it last sent the setting got through and nobody else wrote it. `PumpAgrees` and
`PanelAgrees` say that then the claim is true once the frames on their way are
applied. A refused or lost frame, a restart and a new session end the claim, they do not
break it: what becomes of the settings then is the subject of `pump_refused` and
`panel_restart`. Moisture is counted so that the host's truncated tenths and the device's
own value can differ on either side of a threshold.

### Voice, Buzzer, FillLight
Three small consumers of the flags. `Voice` is one call of `Check_vioce`, which reads
`Distance` three times while `u1rx` may write it: a call finds the obstacle `near`,
`gone`, neither or both. `air_held` counts calls in which the air alarm waited and
`races` those among them in which the obstacle was both. `Buzzer` tests four flags one
by one and then beeps without looking, while `Sample` sets them anew. `FillLight`
splits `LightContral` between its two reads.

### VisionMode, LeafVote, CameraLink
The two directions of uart4 and what lies between. `VisionMode` sends each mode three
times per frame, loses bytes, and reads with `recv_mode_packet`, buffer cut included.
`LeafVote` is `run_plant_mode` from the classified picture to `blade_state`; a picture
is any set of detected classes. `CameraLink` is the byte level of the reports: frames
of three lengths, a parser that waits at a head, and a dispatcher that scans its frame
again.

### Telemetry, RangingLink
The byte level of the other two links, with the same history: every byte carries the
number of its frame, so that a frame made of parts of others shows. `Telemetry` fills
the packets as `SendData_to_PlantSoft` does, in its order of 28 calls. `RangingLink`
also decodes the digits.

### Uart1Sharing
`uart1` is opened by the console, by the ranging port and by the shell, each through
`rt_serial_open`, whose first effect (`ClearFlags`) is to make the port look closed.
One action per step that another thread or the interrupt can come between, with the
priorities of the code (`U1Blocked`). Bytes are numbered.

### Heading
`Finding_obs` as a turning machine with integer angles, `Half` for 180 degrees. The car
turns by at most `MaxStep` per tick in the direction of the controller's sign. With
`ImuOpen = FALSE` the heading the program sees stays at its initial value.

### Accounts
The file as it is (absent, cut, or data), the copy in memory, and a program that may
die between any two of: change the copy, empty the file, write it, return.

### MCStreams, MCParts, MCSched
The modules in which TLC runs several components. `MCStreams` takes the four byte
streams (`CommandLink`, `CameraLink`, `Telemetry`, `RangingLink`), `MCParts` the gimbal,
the buzzer, the announcements, the camera's vote and its mode, the shared port, the
fill-light, the heading, the panel and the accounts, `MCSched` the sensor, and the liveness of the
watering. A variable, `link` or `part`, is
chosen at the start and never changes; only the component it names takes steps and the
others rest in their first states. That loses nothing: as modelled the components share
no variable (what one of them reads of another is an arbitrary input), so a reachable
state of all of them together is any combination of reachable states of each, and every
property is about one of them. A liveness property is stated for the behaviours that
look at its component, `LookedAt(p) => ...`. A property of these modules is the
conjunction of the named properties of one component, its type invariant among them,
and there is a faulty variant for each conjunct that is not a type.

The proof modules (`*Proofs`) extend the module they are about: `PartsProofs` and
`CameraProofs` extend `MCParts`, `StreamsProofs` extends `MCStreams` and `RangingProofs`
extends `StreamsProofs`, so that what they prove is about the specification that TLC runs.

In every model an operator named `<Definition>_<Variant>` just before a definition
is a plausible bug in that definition; no specification uses it. It documents which
mistake each property catches.

## What the runs check

| Run | Question | Bounds |
|---|---|---|
| `motion` | `StopHolds`, `BlindWindowBounded`, `EndedFinderStopped`, `FullTurnBeforeGivingUp`, `LegCoversDistance`; `EStopTakesEffect`, `SearchEnds` | delay 1, counter 0..2 so that it wraps while the gate is open, one heading, full turn 1, leg 1, one unit of distance per tick: a million states. All but the last two are theorems, where the constants are no bounds |
| `estop_response`, `seek_off` | *violated*: see below | delay 3, counter 0..5; as `motion`, with a full turn of 0 |
| `serial` | `NeverAmbiguous`, `NoLostWakeup`, `ImplementsFifo`; `IndicatedBytesAreParsed` | ring of 4 slots, so that it wraps and overflows; semaphore that saturates at 2 |
| `irrigation_safety` | `PumpAgrees`, `WaterStopsInTime` | two types, 2 frames and 1 report in flight, 1 choice of type, 1 fault; readings in half tenths, so that the formatting truncates |
| `sensor_and_water` | `WholeFrame`, `OneVerdict`, `SensorRests`; `SensorSampled` (`SamplingGoesOn`) | frames of 4 bits, delays of 2 ticks |
| | `DryGetsWater`, `TypesConverge` | as `irrigation_safety`, with whole tenths and no fault |
| `streams` | `CommandsInOrder` (`NothingLostInParsing`, `NothingHeldBack`); `RecoveryBounded` in `LossesContained` | one command and a clock frame of 2 bytes, 2 frames in flight, 2 dropped bytes, port of 3 bytes, buffer of 9 |
| | `ReportsInOrder` (`AllInOrder`); `NothingInvented` in `LossesContained` | 4 frames whose coordinates may equal heads and tails, 1 lost byte |
| | `PacketsInOrder` (`LessThanAFrame`, `AllInOrder`); `DamageBounded` in `LossesContained` | 3 packets, payload bytes 7 and the values of a header and a tail byte, a burst of up to 7 lost bytes |
| | `ReadingsUsed` (`WholeReadingsUsed`, `DistanceIsRead`, `NothingInvented`) | 2 readings of one and four digits with 2 lost and 2 foreign bytes, those of a head and a tail |
| | `LossesContained` with constants of its own: fewer than four lost bytes never make a command (`Forge`) | two commands and the clock frame of 6 bytes, 3 losses (with 4 it fails, the bound is exact) |
| | `LossesContained`: the reports a loss costs fit into the parse buffer (`Stall`); up to six lost bytes make no distance (`Cuts`) | 9 frames, which fill the buffer, 1 lost byte; 2 readings, 7 losses, one reading's worth |
| `parts_safety` | gimbal: `NeverOverwound`, `HomeWhenDone` | delay 2, turns at ticks 2 and 4, counters 0..9, which wrap |
| | `AlarmsHeard` (`SilenceBounded`, `SteadyAlarmHeard`) | the code's 10 beeps per alarm |
| | `AnnouncedInTurn` (`ObstacleSpaced`, `AirHeldBounded`) | waiting time of 4 calls, 2 races |
| | `VerdictsVoted` (`NoVerdictOfOnePicture`, `FourAgree`) | the code's window of 5 and 3 stable pictures |
| | `ModeUpToDate` (`LagBounded`, `ReadIsLatest`) | buffer of 14 bytes, which cuts inside a frame; 1 lost byte |
| | `PortHandedOver` (`ShellTakesOnlyEarly`, `NothingStranded`) | ring of 3, 6 bytes |
| | `TurnsAsMeant` (`LooksWhereMeant`, `TurnsShortWay`) | all 360 degrees, tolerance 5, up to 4 degrees per tick |
| | `PanelAgrees` | 3 frames in flight (one connection's worth), 1 fault |
| | `AccountsDurable` (`SessionHasAccount`, `AnswerIsDurable`, `AccountsKept`) | 2 phones, 2 passwords, any number of deaths |
| `parts_liveness` | `InspectionEnds` (with `CompletionBounded`), `CameraFollowed` (`BladeFollows`, `ModeConverges`), `RangingReceives`, `OutputsFollow` (`BuzzerFollows`, `OthersGetThrough`, `SettlesInTime`, `TurnsEnd`), `StopTakesEffect` | counters 0..7; vote of 3 and 2 pictures with 1 fault; buffer of 10 bytes; ring of 2, 4 bytes; 3 beeps; waiting time 2, 1 race; light levels 6, 9, 12; a circle of 48 degrees, tolerance 3; no panel fault |
| `pump_refused` | *violated*: see below | as `sensor_and_water`, with 1 fault and no choice of type |
| `panel_restart`, `heading_imu` | *violated*: see below | as `parts_safety`; 72 degrees, the port closed |

The bounds are the smallest at which the interesting cases happen: each counter
can wrap, each limit is reached, each delay is long enough for a message to fall
before, inside and after it. The code tests its counters only against constants,
so a longer delay repeats the states in the middle of a shorter one. Some
constants matter by their relation, which is kept: a start delay that does not
exceed the counter's range (`MotionAssumption`) or, for `CompletionBounded`, half of it,
and a parse buffer that can hold two partial frames (`RecoveryBounded` needs
`MaxLen >= 2 * Len(TimeFrame) - 1`; the code has 400 against 17). Where a theorem is listed below, the bound is no longer
part of the argument.

`MaxDue`, `MaxDrops` (CommandLink) bound the environment only. `FarEnough`,
`LongestBlind`, `LongestWait`, `LongestDeaf` and the range of `idle` are where
history variables saturate, one above the value a property tests.

### The violated runs
`StopWithinTwoTicks` states what the host's button says (`serial_panel.py:187`,
"急停中", the stop is in force, as soon as it is clicked): after a full tick with the
stop on, and two ticks since any mode command, the wheels stand. The code only
looks at `Motor_flag` inside the two finders (`SportMode.c:40,92,105,233`). In mode 2
neither is called for the 300 ticks after a mode command unless a search is over
(`SportMode.c:256,261`), so wheels that were turning go on turning for up to three
seconds, longer if another mode command follows. The run uses the safety
specification: a state, not a liveness failure, is the evidence. What does hold is
stated by `BlindWindowBounded` (the window is one start delay and no longer, the
wrap of the counter included), `StopHolds` and `EStopTakesEffect`.

`SeekOffStopsSpin`: the host logs "自动寻光：关闭" (automatic light search: off) for the frame
that selects mode 1 (`ui_main.py:567-568`). In the middle of a search the wheels go on
spinning: `Finding_light` is called no more (`SportMode.c:244-251`), the handler touches no
motor, and `Finding_obs` writes none as long as nothing is near (`SportMode.c:109-124`).
What does hold is `EndedFinderStopped`: a finder that comes to its end has stopped the
wheels it set turning. With `SearchEnds` it says that a search left alone in mode 2 ends
its spin; of one that is interrupted it says nothing.

`ShownPumpWaters`: the automation shows "水泵运行中" (`serial_panel.py:185`) and logs "已开启水泵"
(`ui_main.py:664-668`) although the frame was refused, and does not send it again. With one
fault, a plant that stays dry gets no water. What does hold without a fault is
`DryGetsWater`; the exemption of `PumpAgrees` (`clean`) is exactly this case.

`StopIsNotLifted`: a device that restarts comes up with `Motor_flag = 1`
(`usart5.c:16`) under a panel that shows "急停中". What does hold is `PanelAgrees`, whose
claim a restart ends, and `StopTakesEffect`, from the next click or connection on.

`TurnReachesTarget`: no caller opens uart2, so `Yaw` stays 0 and the first turn of a
scan, to 180 degrees, has no end ("原地转向到目标航向", `CarTurn.c:33`). `TurnsAsMeant` and the
turns of `OutputsFollow` are therefore about a configuration that this commit does not
reach: `MCParts` opens the port.

### Observations without a run
A light search that a mode 1 interrupts is resumed where it was (`usart5.c:85` begins a new
one only after state 5). The odometer has gone on meanwhile: what a scan drove counts as
part of the full turn, and the search may give up early. `FullTurnBeforeGivingUp` says what
is left: the wheels have covered the distance since the search began, whoever drove them.
A lamp seen before a search began ends it at once, for nothing but a report of the camera
clears `finding_flag` (`SportMode.c:69`).

A plant-type report that the device sent before it saw a selection arrives after it and
turns the selection back (`ui_main.py:751`), although the panel has reported
"植物类型已同步为" (`ui_main.py:618`); the next connection sends the old type. `TypesConverge`
says what is left: both sides end with one type, perhaps not the user's.

`CarTurn.c:56` says that the heading difference is limited to a half turn. The target
is; the difference that ends a turn (`SportMode.c:128`) is not. A car that is near its
target on the other side of the seam does not know it and goes on until it has crossed.
That is why `TurnsEnd` excepts targets within the tolerance of the seam; off the seam
turns end, and `TurnsAsMeant` says that they end where they should.

## Fairness

* `sched10ms`: `WF_vars(Sched)`, `WF_vars(Task)`. `rt_thread_mdelay(10)` returns and
  no thread above it runs for ever.
* Wheels: `SF_vars(Rolls)`, a driven wheel is seen to move again and again; the
  encoders are outside the program. `SearchEnds` needs it, the safety properties do
  not.
* Receive port: `WF` for the interrupt handler, `SF` for the thread's steps, each of
  which a handler may precede. A byte takes 87 µs on the line and the handler a
  fraction of that.
* The device's threads and the host's event loop in the links: `WF` or `SF` on applying
  a frame, on sending the next report and on handling one. A line that loses a report
  every time is not assumed away: losses are bounded by `MaxFaults` or by the loss
  being a step of its own, and `SF` says that a report gets through again and again.
* `Buzzer`, `Voice`, `Heading`: `WF` of the thread that runs them. `Uart1Sharing`: `WF` of
  the receive thread and of `sched10ms`, `SF` of the shell, which only runs when both
  sleep, as they do again and again.
* The camera takes pictures (`WF`) and its loop reads everything that has arrived (`WF`);
  the device repeats its mode (`WF`).
* `PartsFairSpec` (`MCParts`) and `SchedFairSpec` (`MCSched`) are conjunctions of these, each
  for the steps in which its component is looked at.
* The user, and what the camera sees: none. They owe nothing. (`ModeConverges` alone
  assumes that a user who is asked for a plant selects one: `Selected`, on the camera's
  screen, is what ends that mode.)

## What is proved

TLAPS checks these for every value of the constants allowed by the `ASSUME` of the
module (which state only signs and orderings that the code's numbers have). Every
safety property of the passing runs is a theorem, except `LossesContained`, which says
what a loss costs (see the end).

### One component to a module

* **MotionControlProofs**: `TypeCorrect`, `StopHeld`, `EndedFinderStops`, `StopLookedAt`,
  `FullTurnFirst`, `LegCovered`. `StopHolds` is not inductive by itself: while a
  finder is between its test of the flag and its end it may write the motors, so
  the strengthening follows `pc` through the finder and says where a write can
  still come. `EndedFinderStopped` is inductive: every case that sets wheels turning
  leaves its finder in a state before its end, and every way to the end goes through a
  case that stops them. `StopLookedAt` bounds `blind` by `starttime_cnt`: while the gate is
  closed both have counted the same ticks, up to the one in progress, and a lost
  reset only makes the counter larger. `FullTurnFirst` and `LegCovered` compare the
  odometer, with a reset that may be pending, to the distance really covered, whoever
  drove it.
* **SerialRxProofs**: `TypeCorrect`, `RingNeverAmbiguous`, `WakeupNeverLost` (a token
  exists, or the reader is awake, or the handler still runs), and `PortImplementsFifo`,
  the refinement, by the lemmas that a stored byte appends to the mapped queue, or
  drops its head and appends, and a popped byte is its head. It covers every ring
  size.
* **DhtSensorProofs**: `TypeCorrect`, `FramesAreWhole`, `VerdictIsOne`, `SensorHasRest`.
  The invariant `Counting` compares the edges the handler has accepted with those
  the sensor has made: the sensor is never behind, and as long as it is at most one
  ahead every captured bit is exact. A lost pair of edges puts it two ahead for
  good, and then its answer has too few edges left for a last bit.
* **IrrigationProofs**: `PumpFollowsButton`, `WaterStops`, for any thresholds, levels and
  number of frames in flight. `PumpAgrees` speaks of the permission to pump and of nothing
  else, and only while `clean`; the invariant (`Agreement`) says of every place of the line that if
  the word there is the last one about the pump, it is the button's, with the device's
  flag in place 0, and the lemmas say what appending a frame and removing the head do
  to the last word. `WaterStopsInTime` is about two threads that take turns: the alarm
  goes first and the relay follows, so `StopsInTime` says for each of the two points
  of a tick how much has already been done.

### The byte streams of MCStreams (StreamsProofs, RangingProofs)

The theorems hold for every capacity, buffer size, payload, number of frames and way in
which the reads cut the bytes.

* `TypeCorrect`, in particular that no `memcpy` passes the end of the commands' parse buffer,
  and `CommandsArriveInOrder`. `NothingLostInParsing` is an identity of
  concatenations (the frames due are the parse buffer, the chunk, the port and the
  wire in a row) and not inductive: to dispatch what stands at the head of the buffer
  preserves it only if that is the first frame due. The invariant `LinkInv` adds that
  the parser is at the beginning of the buffer (without a loss it never skips a byte,
  for the first frame due begins there) and that a parser that waits has less than a
  frame. `FirstDue` and `FrameShape` show what the tests of `uart5_try_parse` then
  answer: `HasTime` for a clock frame as soon as it is whole (no command's code is 60),
  `HasCommand` for a command frame as soon as it is whole and never for a clock frame (no
  byte of the time is 55). `FlattenSeq` is recursive, so `FlattenAppend` and `FlattenHead`
  are proved first, by induction.
* `PacketsArriveInOrder`, `ReportsArriveInOrder`. The two parsers are loops over a buffer, and
  both go through the same lemmas. A turn of such a loop keeps the rest and ends, skips
  ahead, or takes a frame (`Keeps`, `Skips`, `Takes`); since it only goes forward it has a
  run (`WalkRuns`), and what it returns is a rest of the buffer and frames of its kind
  (`WalkReturns`), losses or not. `AllInOrder` is about a line that has lost nothing. Its
  invariant is that the buffer and the line in a row are the frames not yet taken, one
  behind the other (`InARow`), the buffer beginning with the first. `RowParses` is the
  step: a parser that takes a whole frame at a place and waits for one that is not whole
  (`WholeTurns`) takes the frames of the row that have arrived, in order, and keeps the
  part of the next one. `PacketTaken` and `ReportTaken` show that the tests of the code do
  that, whatever the payload: at the beginning of a frame they are never misled by the
  values of a header or a tail inside it.
* `ReadingsAreUsed`, which covers losses and noise. A lost byte leaves no frames in a row, so the
  invariant is about the numbered bytes on the way (`Held`): the readings come in order
  and none reaches over more than seven bytes; each is damaged, used, or still whole on
  the way; those used are past. A step of the parser cannot break that because a whole
  reading has its "m" only at its end and its "e" only at its beginning: no frame that the
  parser finds before a whole reading reaches into it (`NotInside`), so the search arrives
  at its head. `NothingInvented` is an argument about distance: without noise every byte
  stands in a slot of the sensor's seven-byte grid, and between any two bytes on the way
  at most as many are missing as were lost (`InSlots`). A frame of parts of two readings
  would have its "e" and its "m" a full reading further apart than they are, which takes
  seven losses (`SlotsFrame`); TLC shows that seven are enough. `Decoded` is the inverse
  of the sensor's formatting for all distances up to 9999, spaces included, and
  `DistanceFits` the width of `Distance`.

### The parts of MCParts (PartsProofs, CameraProofs)

`PartsRun` shows that `PartsSpec` implements the specification of each part; each part has
an inductive invariant under its own.

* `GimbalNeverOverwound`, `GimbalHomeWhenDone`: `WindingInv` ties `circle` to the place of
  `time_cnt` between the two turns, not to the request flag, which commands overwrite.
* `RequestIsFinished` (`CompletionBounded`): a request has waited for no more ticks than the
  calls of `Plantleaf_ins` since the last unwinding and the ticks with a closed gate
  between them, and both are functions of the two counters (`Budget`); each tick adds one
  (`BudgetGrows`), the wraps of both counters included. The theorem assumes that a start
  delay is at most half a turn of `starttime_cnt` (300 of 65536): TLC shows that with a
  longer one the gate may close a third time and the bound fails.
* `AccountsAreDurable`: what the three statements of `Accounts` say, no more: a crash between
  emptying and writing the file loses every account, which `AccountsKept` excepts. A session may only be of a registered account in memory *and* in
  any file that a restart could load; between two operations file, memory and the last
  answer are the same (`AccountsInv`). Which of the two the file holds while a save is in
  progress depends on the step, so the invariant has the set of both.
* `PortIsHandedOver`: `PortInv` counts wakeups against bytes, `HandedOver` says that after
  the second opening every byte is indicated to the range finder and that a byte that
  came later has its wakeup pending: without it the shell could be woken for it. Both threads
  may go on reading; the theorem says that the shell finds nothing that came after.
* `PanelIsRight`, for the settings in `trusted`: what is shown about a setting is what the last frame on the line says
  about it or, when there is none, what the device holds. The lemmas remove the head of
  the queue and a due frame, for one setting at a time (`Mentions`, `SaysOnly`).
* `AlarmsAreHeard`: `SteadyAlarmHeard` needs that a flag set since the test began is among
  those that the test has not looked at yet (`Untested`); `SilenceBounded` that the late
  beeps are no more than those of the round.
* `AirIsAnnounced`: `AirHeldBounded` is not inductive. `VoiceInv` adds, for an armed obstacle,
  that the calls for which the air was held back are one whole waiting time for each
  race and what the present wait has used. An obstacle that is armed again without an
  announcement is the race that the bound counts.
* `CarTurnsAsMeant`: headings are proved equal modulo the circle (`Same`), by lemmas on what
  the normalisation of an angle and of a difference return; that a tick goes towards the
  target is then arithmetic on one turn (`TurnsTowards`).
* `LightSettles`, which is about `Full` calls after the last change, one unit of brightness
  each: a call that has found the light on still finds it on unless the setting
  changed since (`LightInv`).
* `ModeIsUpToDate`: the camera's parser is a recursive function over the bytes in its
  buffer. `ParserFindsFrames` says what it returns for a stream of frames cut anywhere at
  both ends. `ModeInv` then says that the stream that is left (the buffer and the line)
  consists of whole frames whose last is the mode announced last or, if nothing is
  left, that the camera has that mode, in its queue or in force.
* `VerdictsAreVoted`: the history has five pictures, but the verdict depends on the two
  before them as well, for three votes must agree. `VoteInv` says which state won each of
  the last three votes, each over its own window of what was seen. `WeightIs` gives the sum
  that the weighting loop computes, `TwoNewestWin` that two new pictures outweigh at most
  three older ones, from which `FourWin`; `LowerOfTwo` and `WonAgain` are the argument
  that one picture never wins three votes. The theorem assumes a window of 2 to 5
  pictures and 3 votes (the code's 5 and 3): with a longer window two new pictures no
  longer outweigh the rest, and the property is false.

Induction: the library's induction theorems take an operator as a parameter, which
none of the provers instantiates. `StreamsProofs` and `CameraProofs` state induction for a *set* of numbers
and proves it from the least element of its complement (`WFMin` of the library, which
takes sets). That a recursive function over a sequence exists and satisfies its equation
is shown in the same way for each (`ParserRuns`, `WeightRuns`, `JoinRuns`).

The type invariants of `SerialRx`, `DhtSensor` and `MotionControl` are proved and not among
the runs' properties, except as conjuncts; those of the smaller components are
conjuncts of their properties and of the theorems.

### Only model-checked

* All liveness properties (fairness and `ENABLED` are outside the prover).
* `LossesContained`. `RecoveryBounded` is about a deafness that begins in any of the
  places a dropped byte may come from, `NothingForged` about every way to lose up to
  three bytes of a stream, `DamageBounded` about the packet that a burst makes of the
  ends of two, and `NothingInvented` and `StallBounded` of the camera about a head that
  no tail fits: each would need an invariant that describes the damage.
* `Forge`, `Stall` and `Cuts` are instances with fixed constants, which is all that
  TLC's verdict covers. (What `Cuts` says with seven losses, `ReadingsAreUsed` says for
  any number of them.)

## Not modelled

The implementation is some 900 000 lines, nearly all of them RT-Thread, the HAL and
CMSIS, vendored and mostly not linked into anything the car does. Modelled are the
parts of them the firmware's own behaviour rests on; a model of the rest would say
nothing about this program. The map therefore covers a small share of the
repository's lines, and those of the project's own code that decide something.

Left out of the project's own code: the OLED driver and the main loop (output of values
read once), the stepper's byte strings (`LeafInspection` has the commands), ADC access
and the conversions to ppm and percent (any value may be read), PID gains and motor
output (floating point; `Heading` uses the sign), image processing (any picture), the
clock frame's effect (six displayed numbers), `fifo.c` (nobody calls it), debug text,
and the layout of the host's pages. The inertial parser is left out because its port is
never opened. Two copies of the host program on one account file are not considered.

## Plan

1. *Done*: the wheels, the leaf inspection, the receive port, the command link, the
   DHT11 driver, their invariants and the refinement of the port.
2. *Done*: irrigation with the host's automation, the panel, alarms, voice, fill-light,
   the vision protocol and its links, telemetry, ranging and its shared port, the
   heading, the accounts.
3. *Done*: a proof of every safety property of the firmware's and the host's parts, of
   the camera's parser, mode and vote, of the order of commands, telemetry and camera
   reports, and of the readings of the range finder.
4. Next proofs: what a loss costs (`LossesContained`). `RecoveryBounded` from an invariant
   that says where the head that no tail fits stands in the parse buffer; `DamageBounded`
   with the slots of `RangingProofs`, for packets of three lengths.
