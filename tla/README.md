# Verification of PetCargo

PetCargo is a small omnidirectional robot with a pet's moods.  An STC15 board
reads sensors, keys, voice and infrared commands and talks over a 9600-baud line
to a ROS computer, which drives the chassis with odometry and a lidar; a Windows
program forwards a second remote control over HTTP.  This directory holds TLA+
models of the parts of it that move the robot, stop it, remember for it, or carry
the messages that do, the TLC configurations that check them, and proofs for TLAPS.

Paths below are relative to `src/`.  `ros/` stands for
`ros/petcargo_ros/`, `stc/` for `firmware/stc/`.

## 1. The system

| Part | State it keeps | Operations | Talks to |
|---|---|---|---|
| STC application, `stc/src/petcargo.c` | emergency, sleeping, motion_active with its id and deadline, moods, debounced keys, light and shake triggers | `run_once` polls keys, frames, voice, infrared, sensors and deadlines in turn | UART1 to ROS, UART2 to the voice module, EEPROM |
| STC transmit path, `runtime.c` `tx_*`, `hal.c` | per port: a ring of 4 slots, an urgent slot, the frame being sent, `tx_done`; one `tx_lock` | send functions of the main loop, two transmit interrupts | the serial lines |
| STC receive path, `hal.c`, `protocol.c` | rings of received bytes, parser state, one infrared slot | interrupts and polls | the application |
| STC settings, `devices.c` | 8 slots of 12 bytes in EEPROM, a pending record | load, save, a byte per service call | the feeding counter |
| Serial bridge, `ros/scripts/serial_bridge.py`, `protocol.py` | port, `connected`, `safety_latched`, results waiting for the port, source tracker, parse buffer | frames in, topics out, and back; reconnection, heartbeat | board, all ROS nodes |
| Safety gateway, `safety_gateway.py` | last command and its time, `latched`, `serial_connected`, `reason` | 50 Hz timer, three callbacks | the only publisher of `/cmd_vel` |
| Motion executor, `motion_executor.py` with `obstacle.py`, `motion.py` | active motion, jog, detour, barred key, completed ids, latest scan and odometry | 20 Hz loop, eight callbacks | gateway, bridge, dashboard |
| Dashboard, `dashboard_server.py`, `state_store.py` | latest message of each topic, 80 events | HTTP GET and POST | publishes stops and jogs |
| USB remote, `firmware/stc_remote` | debounced key, frames left to send | sample, send every 100 ms | the PC |
| Windows bridge, `tools/remote_bridge.py` | one-slot mailbox, serial lease | serial reader, HTTP worker | dashboard |
| Keil port, SDK, tools, tests | | | |

**How the parts interact.**  A request to move travels board → bridge → executor
and its result back.  Velocities travel executor → gateway → chassis, under a
lease of 0.25 s.  The emergency stop travels both ways: STOP frames between
board and bridge, `/petcargo/safety_set` from the bridge and the dashboard to
everyone, `/petcargo/safety_state` from the gateway back to the bridge.  A jog
travels remote → Windows → dashboard → executor, or infrared → board → bridge →
executor, and must be renewed under a lease of at most 0.5 s.

**What is hard.**  Interrupts and a main loop share the transmit rings.  Three
Python nodes have threads and no locks.  Four parties keep a latch each and no
message between them is acknowledged or repeated.  Frames are lost or spoiled
while a port is open and vanish while it is closed, boards reboot, power fails in
the middle of a byte of the EEPROM, motions run into timeouts while results are on
their way, and a motion can end in a dozen places.  `PROJECT.json` lists the
hazards at their lines, with the properties that watch each one, or why none does.

**What makes the parts correct.**

* executor: one thing drives at a time; a detour belongs to what runs; a stop
  leaves nothing to resume; every request is answered once; no pass of the loop
  drives blindly or beyond a limit; everything that begins ends;
* gateway: a stop lets at most one more move through, no command outlives its
  lease, silence stops the robot;
* transmit path: no frame torn, lost without notice or stuck, no overrun;
* receive paths: a disturbance costs the frames it hits and soon no others;
* emergency stop: all latches end up as the user last pressed;
* board and robot together: they agree on the motion under way; an escape from
  bright light is known as one; a locked board waits for nothing;
* remote: the newest state wins, and a released key stops the robot in bounded time;
* settings: a power failure never loses more than the saves under way.

## 2. Modules

| Module | Models | Used by |
|---|---|---|
| `MotionExecutor` | `motion_executor.py` and `motion.py`, with the decisions of `obstacle.py` over zones | `MCMotionExecutor`, `RemoteHold`, `ExecutorThreads`, `ObstacleGeometry`, `MotionExecutorProofs` |
| `RemoteHold` | an observer of the executor: detours while one key is held | `MCRemoteHold` |
| `ExecutorThreads` | callbacks between the two halves of `begin_avoidance` | `MCExecutorThreads` |
| `ObstacleGeometry` | `obstacle.py` over points in millimetres; implements the zones of the executor | `MCObstacleGeometry`, `MotionExecutorProofs` |
| `SafetyGateway` | `safety_gateway.py`, statement by statement in five threads | `SafetyGatewayProofs` |
| `TxLink` | abstract: what a transmit port promises | `UartTx` (refinement) |
| `UartTx` | `tx_enqueue`, `tx_next`, both send functions, both transmit interrupts | `MCUartTx`, `UartTxProofs` |
| `FrameLink` | both parsers, with the receive ring and a line that loses, changes and adds bytes | `MCFrameLink`, `FrameLinkProofs` |
| `EmergencyLatch` | composition of board, bridge, gateway, executor and web page as far as the stop goes | `MCEmergencyLatch`, `EmergencyLatchProofs` |
| `StcApp` | `petcargo.c`: stop, sleep, motions, jogs, keys, light, shake, voice and infrared | `MotionDialogue` |
| `MotionDialogue` | composition of `StcApp`, the line, the bridge and the executor as far as a motion goes | `MCMotionDialogue`, `MotionDialogueProofs` |
| `SettingsLog` | abstract: what the settings log promises | `SettingsStore` (refinement) |
| `SettingsStore` | `persistence_*` in `devices.c`, byte by byte | `MCSettingsStore`, `SettingsStoreProofs` |
| `RemoteKeys` | `remote.c` of the USB remote: debouncing and repetition | `RemoteChain` |
| `RemoteChain` | composition of the remote, the two threads of the PC, the dashboard and the lease | `MCRemoteChain`, `RemoteChainProofs` |

The `MC` modules hold the small sets TLC gives to the constants, and `MCFrameLink` the
hypothesis about frames of one theorem, for TLC to evaluate.

### MotionExecutor

State: `active`, `jog`, `avoidance`, `jog_blocked_key`, `completed_ids` and
`safety_latched` are the fields of the class; `scan` and `odom_age` stand for the
lidar and odometry fields with their ages; `command` is the last Twist on the
internal topic.  `result` is what the step published, `owed` counts per id the
accepted requests without an answer.

Actions: one per callback, split where the code branches early
(`OnRequestRefused` / `OnRequestAccepted`; `OnJogRelease` / `OnJogRenew` /
`OnJogStart`), and one per branch of a pass of the loop (`TimerLatched`,
`TimerOdomLost`, `TimerIdle`, `RunAvoidance`, `RunJog`, `RunRotation`,
`RunTranslation`).  `due` says that `rate.sleep()` is over: time and callbacks go
on between passes.  `Tick` ages everything.

Abstractions: a clearance is one of four zones, cut at the thresholds the code
compares with; a scan is a choice of zones for four directions plus whether a
rotation is blocked; speeds are zero or a direction; the error of a motion is short,
reached or beyond.  A callback is one step.

That is coarser than the code: rospy runs callbacks in threads of their own, beside the
loop and without a lock.  `ExecutorThreads` opens one such place, the one whose outcome
contradicts a document: `begin_avoidance` reads the jog first and assigns the detour
last, and callbacks run in between.  The other places (two threads in `finish`, a
callback between two statements of another) are not split.  `turning` is what the main thread
holds in its locals; `StoreDetour` is the assignment.

### ObstacleGeometry

Points are pairs of integers in the frame of the robot, `Clearances` are the
distances `corridor_clearance` compares, `ViewOf` makes zones of them, and
`OnPoints` is the scan callback on top of the executor's.  `PathHasRoom` is
`choose_detour_path` and its swept area, which the code has, tests, and does not
call; `Selected` is `choose_detour_side`, which it calls.

### UartTx and TxLink

A step of the main loop is one access to state that an interrupt can see; an
interrupt handler is one step, which is exact: both handlers have the same
priority, and only the display interrupt preempts them.  `ti` is the interrupt
request of a port, `busy` its shift register, `sbuf` the byte last given to it.
`tx_lock` and the two "kick" tests after it are as in `hal.c`: a send on either
port silences both handlers and therefore looks at both.

`TxLink` has no ring, no bytes in slots and no lock: a queue of accepted frames,
one urgent place, and a line on which frames appear whole.  The refinement
mapping reads the queue out of the slots from tail to head, and counts an urgent
frame as accepted when it empties the ring.

### FrameLink

A behaviour is about one direction (`receiver`).  On the board `Poll` takes one
byte through the states of `protocol_poll`, which gives up a broken frame with all
it has read; at the bridge `Feed` is `FrameParser.feed` on whatever has come in,
which looks for the next header inside a broken frame.  `ByteIn` fills the ring
and drops what does not fit.  The check is taken to know the frames that were sent
from everything else: that a damaged frame passes its CRC is not modelled.

### EmergencyLatch

A handler is one step.  Of the board's transmit path only the urgent slot is
kept, because that is where STOP frames are: `SlotAfter` writes over what is
there, as `UartTx` says.  `Reboot` may happen at any moment: it clears the latch and the slot, and
of the frames on the line the newest may be cut short, if it is a STOP frame still being
sent (`AfterReset`).  `up` and `down` are frames on the line, `set` one
queue per publisher and subscriber of `/petcargo/safety_set` (ROS keeps the order
of one publisher only), `states` the gateway's messages to the bridge.  A member of
`Scenarios` says what may happen besides K3 (`cancel`, a voice or remote stop;
`web`; `unplug`; `reboot` of the board; `restart` of the ROS side), and how often
anything may; a behaviour is about one of them.  `locked` remembers what the user
pressed last, `unsaid` that since K3 was last pressed a reboot took an unsent STOP frame
along.

### StcApp and MotionDialogue

`StcApp` has one action per handler of the main loop, run to its end: what waits
for a deadline may happen at any time.  The ring holds whole frames; other traffic
(telemetry, heartbeats, acknowledgements) is there only as the flag `crowded`,
under which any frame may find the ring full.  `engaging` and `jogging` are
histories: this press engaged the stop; the board has asked for a jog it has not
ended.

`MotionDialogue` adds the line, the port, the bridge (topics it publishes, the tag
of `MotionSourceTracker`, the results kept for a closed port) and the executor
reduced to what `MotionExecutor` promises: one motion at a time, every request
answered once, refusals whenever it likes.  `given_up` remembers the motions whose
time limit the board has seen first.  Two times of the code become guards,
`OnItsWay`: K3 is held for 1.2 s and a motion lasts up to its limit of 16 s or
more, so what was sent before has arrived by then.  The timeout of the link
(`last_rx`) and `/petcargo/safety_state` are left to `EmergencyLatch`.

### SettingsStore and SettingsLog

The EEPROM holds bytes.  `Feed` begins a save, over one that is under way;
`WriteByte` is a call of `persistence_service` that finds the EEPROM ready;
`PowerFailure` is possible before and after every byte and leads through
`persistence_load`, with its loop over the slots (`Newest`), the comparison of sequence
numbers in 16 bits and the CRC of the code.  `kept` is what a restart at this moment
would load.  `SettingsLog` says what is lost at most: the saves begun since the last
completed one, as long as not all the slots were started over.

### RemoteKeys and RemoteChain

Time passes in ticks of about 50 ms; between two of them the remote board, the
reader of the PC and the network have their turn in this order.  `RemoteLoop` is a
pass of the remote's loop; `Read` and `NoRead` return from the serial port with
the newest frame or without one, `Submit` writes into the mailbox; `Take`,
`Serve`, `Answer` and `Fail` are the worker and the dashboard.  `stray` is a
request given up by the worker that the server may still serve.  `PostTimeout` is the
longest request; it is not `--http-timeout`, which `urlopen` applies to each connect, send
and receive.  `LastPost` is the release of the `finally` clause; when `close()` gives up
joining the worker (`remote_bridge.py:98`), its request is a stray from then on, `Fail` and
then `LastPost`.  Frames, requests
and answers may be lost at each of these steps.

### SafetyGateway

Five threads: the timer, the executor's command callback, the link callback, and
one per publisher of the stop (rospy gives each connection a thread).  `pc` holds
the next statement of each.  The callbacks share `publish_state`, three statements
long (`Mark`, `Dump`, `Send`).  A velocity is zero or a move.  The clock ticks only
when no thread is inside a callback: callbacks take milliseconds, the lease is
250 ms.

## 3. Runs

| Run | Checks | Bounds, and why they are enough |
|---|---|---|
| `executor` | `TypeOK`, `ModesAgree`, `DetourOwned`, `CommandFollowsMode`, `AnsweredOnce`, `NoBlindDrive`, `NothingOverdue`, `RunsEnd` | two ids (one running, one asking or repeated), two remotes (renewal and change of source), scans that reach every branch, limits of 0 to 3 ticks: fresh, at the limit and over it, and three for a translation so that a detour goes through its three phases to its end; `CompletedLimit` 1 so that the set overflows |
| `remote_hold` | `OneDetourPerHold`, violated | one remote, one direction is enough |
| `threads_detour` | `DetourFollowsKey`, violated | one remote, a free room and a box ahead |
| `detour_path` | `WholePathChecked`, violated | the distances of `petcargo.yaml`, a box ahead and one beside it |
| `uart` | `TypeOK`, `NoLostWakeup`, `NoOverrun`, `PortsAreLinks`, `KeepsSending` | both ports, frames of one byte, of two and of one more than a slot holds, two different STOP frames. Rings of three slots, in which two frames wait and the indices wrap; the four slots of the code were tried once (1.8 million states) and show nothing else |
| `latch` | `TypeOK`, `LatchOutlivesBoard`, `LatchesAgree`, `BoardFollows`, `LockReaches` | four events with a board that reboots; three with everything that loses a message; three with the web page and K3. Three are the least for a disturbance between a press and a release; one gateway state waits besides those the stop causes |
| `latch_cancel` | `LockHolds`, violated | two events: the stop and the cancel |
| `gateway_stops` | `TypeOK`, `OneLateMove`, `NoStaleDrive`, `SilenceStops` | three messages in any mix (link up, a move, a stop, is the least for a late move), a lease of one tick: fresh, at the limit, over it |
| `dialogue` | `TypeOK`, `NothingLingers`, `NoRunaway`, `NoPhantom`, `EscapesAreTagged`, `PressNeverReleases`, `OwnResult` | three or four events of user and faults, with one kind of disturbance each; a ring of three frames as in the code, two results kept, two ids remembered, so that both overflow |
| `rx` | `TypeOK`, `BackInStep`, `NothingLost`, `InOrder` | four frames (empty, one byte, a payload that looks like a header), two bytes lost, changed or added, a ring of four bytes. The type byte of the frames is one the parser can take for the greatest length, so that the bound of `BackInStep` is met exactly: with one byte less TLC finds a violation |
| `settings` | `TypeOK`, `NoMixture`, `CheckDiscerns`, `KeepsItsLog` | four slots and five feedings: every slot is started over; a new EEPROM, numbers about to wrap, and the older format |
| `remote` | `TypeOK`, `LatestWins`, `DeadMan` | two directions, interchangeable; every wait of the chain in ticks, the long ones scaled down in their order. No bound on the number of keys |

In `executor` and `remote` the check for deadlock also says that what has to act
before the next tick is never stuck.  It is switched off for `latch`, `latch_cancel`,
`dialogue` and `rx`: those stop when their bounded events are used up,
and with everything delivered nothing is left to happen.

### What the passing runs show

The executor never has two movers or a detour without its owner, commands only
what the running mode calls for, answers every accepted request once, and never
completes a pass with the robot driving on stale sensors, towards a near
obstacle or beyond a limit.  All that runs ends, also without a release.

The transmit path is correct although `tx_lock` makes a handler that finds it set
go idle with work left: the test of `tx_done` for *both* ports after *every* send
restarts it.  That the interrupt is requested without a finished byte is
harmless, because the flag is only seen set when nothing is being shifted out.
The comment of `runtime.h` on the queue is what `TxLink` says.

The board's parser can be thrown out of step by a wrong length and may then lose
frames that were not disturbed, but whatever it takes for a frame ends within the
bytes of the longest one; the bridge's parser loses only the disturbed frames, at the price of holding a good
one back behind a header that promises more, and returns the others once each and in
order.

The stop works as intended as long as frames arrive: a board that reboots at any moment
ends up with the latch of the gateway and the executor, by the answer to its HELLO.  It
is the latch the user set last, except when the reboot took the STOP frame of that press
along before it had left the board (`unsaid`): then the press is undone everywhere (see
the limits below).  Whatever is lost, gateway
and executor agree; and with the web page in play the board ends up with the latch of the
bridge.

Board and robot agree on the motion under way once everything has arrived: what is
withdrawn from the ring by a STOP was never asked for, a cancel overtakes nothing
it should not, a kept result ends the motion it is for.  The escape's tag survives
everything but a full ring, a spoiled line and a closed port.

The settings survive a power failure between any two bytes, with the sequence
number at its wrap and records of the older format below the new ones; only a whole
round of interrupted saves can lose more than those saves.  In these runs no
half-written record passes the check (`CheckDiscerns`), on which the rest depends.

A released key of the USB remote stops the robot after at most a debouncing, a
read, two requests and a lease, however many frames are lost, unless a request that was
given up is served late (see the limits below).

The gateway needs no lock for its main purpose: one late move at most, never an
old command, although `on_command` stores command and time in two statements
(swapping them breaks `NoStaleDrive`).

### Disagreements found

* **`latch_cancel`.**  STOP(2), the cancel, takes the urgent slot from STOP(1).
  The board shows the stop; ROS has heard a cancel and accepts motions.  The
  window is the time one frame needs on the line, some 30 ms.
* **`threads_detour`.**  A key pressed while the main thread is inside
  `begin_avoidance` finds no detour to cancel; the detour of the old key is stored
  afterwards and runs under the new one.
* **`remote_hold`.**  "At most one detour per hold" is kept per jog, and a hold
  may consist of several jogs.
* **`detour_path`.**  A detour begins when its first segment is free; the document
  wants the three of them checked.

### Other known limits

They were met while modelling and proving, and no run is kept for them; the first seven follow from the models, the
others from reading.

* A board that resets after K3 was pressed and before its one STOP frame has left forgets
  both the lock (`petcargo_init`) and the frame.  The bridge, asked by HELLO, knows of no
  stop, and nobody is locked; a release pressed at that moment is undone likewise.
  `LatchOutlivesBoard` and `LockReaches` exclude this press by `unsaid`, and nothing else:
  without it TLC finds the stop, the reboot and the HELLO.  The bridge means to keep a
  rebooted board locked (`serial_bridge.py:201`), which it can only do for a stop ROS has
  heard of, and the checklist's "stays locked" (`latch_cancel`) fails here, too.  The
  window is the frame being sent at the press, and the STOP frame itself.
* If the web page and K3 are used within the same moment, the gateway and the
  executor, or the gateway and the bridge, may hear the two publishers in different
  orders and stay different (`LatchesAgree` is claimed without `web`).
* A stop pressed while the bridge has no port is not told again, and if ROS is
  launched again while the stop is engaged, the nodes start unlatched
  (`LatchOutlivesBoard` is claimed for the board's buttons and reboots).
* `docs/windows-stc-remote.md:48` lets no old direction pass a release.  A request the
  PC has given up, or whose worker `close()` has stopped waiting for, may still be served
  by another thread of the dashboard, after the release (`ServeStray`); the robot then
  moves for one lease more.  `LatestWins` and `DeadMan` are claimed without such requests.
* Eight bits of check cannot tell every half-written settings record from a whole one.
  A save interrupted in a slot that earlier saves had been interrupted in can leave bytes
  of three numbers that pass the check: with the 8 slots of the board that takes some 15
  rounds of feedings in which the power fails within a save of the same slot.
  `No_mixture` and `Keeps_its_log` therefore have `CheckDiscerns` as a hypothesis.
* A slot whose saves are never completed keeps its record; 32768 feedings later it would
  count as newer than the rest.  `FeedsAssumption` stays below that.
* A frame whose last byte is AA, the first of a header, is not apart from the next one
  (`Apart`): should the line lose just that byte, the next frame's first byte completes
  the frame, and the next frame, though undisturbed, is gone.  Enough noise can also make
  up a frame of its own, so `InOrder` holds only for few disturbances.
* Two threads in the gateway's `publish_state` may publish the older state last
  (`Mark`, `Dump`, `Send` of `SafetyGateway`), and `published_reason` keeps anyone
  from repairing it.
* `completed_ids` outlives a reboot of the board, whose ids begin again at 1: its
  next requests are taken for repetitions and not answered (`NoPhantom` is claimed
  without reboots).
* When the board announces an escape and then refuses the motion, a voice request
  within the tracker's window takes the tag.
* A refused request publishes its status over that of the motion that runs.
* A deadline of the board that falls on 0 when the 32-bit clock wraps is taken for
  none (`override_deadline`).
* The results kept for a closed port are swapped and sent in `handle_frame` while
  `on_motion_result` may append; a failing send keeps one and drops those behind it.

## 4. Fairness

* `MotionExecutor`: the clock advances and the main thread runs its loop
  (`rospy.Rate` in `run`).  No message has to arrive.
* `UartTx`: a send that has begun goes on (nothing in it waits), a requested
  interrupt is taken, a byte leaves the shift register.  The program need not send.
* `EmergencyLatch`: frames and messages are delivered, heartbeats come, the bridge
  reopens its port (the loop of `run` retries every 0.5 s).  No user does anything.
* `SafetyGateway`: the timer thread and begun callbacks are scheduled.  Strong
  fairness of the clock: it ticks between callbacks, and there are such moments
  again and again since callbacks end.

The other modules claim safety only and state no fairness.

## 5. Proofs

The proof modules hold for every value of the constants under the named
assumptions of the modules (sizes are naturals, requests and scans are
well-formed, `None` is not a value, `Zero` is not `Move`).  TLC evaluates these
assumptions in the runs.  Before a theorem was proved, TLC had checked the property, and
of most modules the inductive invariant as well.

* `MotionExecutorProofs`.  `Invariance` proves an inductive invariant of three
  parts: `TypeOK` with "a translation has a direction", the modes, and the balance
  of answers.  The modes are needed together: that a detour is owned needs the
  exclusion of motion and jog to know that ending a motion does not strand the
  detour of a jog, and `CommandFollowsMode` needs both.  `Typing`, `ModesHold`,
  `DetoursHold`, `CommandsHold` and `Answers` follow.  `Guards` (`NoBlindDrive`) and
  `Deadlines` (`NothingOverdue`) are action properties; the second needs one more
  invariant, that a motion's detour has the motion's clock.
  The module ends with the points behind the zones.  `Views_are_consistent`: what
  stands in a stop corridor stands in the rectangle of a rotation, for all dimensions
  in the order `Distances` states.  `Points_implement_zones`: every step among points
  is a step among zones, so all of the above holds for it.
* `SafetyGatewayProofs`.  `LateInv`: after a late move no other is in hand, that is,
  the timer has not passed the test for what stops it.  It is stated per cause,
  stop or lost link: with the causes alternating fast enough a pass could slip
  between them, so one counter for both would be wrong.
  `FreshInv`: the command is never older than the time stored for it.
  `One_late_move`, `Commands_are_fresh` and `Typing` follow.
* `UartTxProofs`.  `Invariance` joins types, what the lock is set for, what the
  flags mean (`Handshake`: a port marked done shifts nothing out), which kicks are
  still to come, `Awake` (a port with work is sending, requested, or about to be
  kicked) and what the buffers hold.  Neither `NoLostWakeup` nor `NoOverrun` is
  inductive: both need the places between the unlock and the second kick.
  `Typing`, `Wakeups`, `Overruns` and `Frames_are_whole` follow.
  `Ports_are_links` is the refinement of `TxLink`, one step at a time: the queue of the
  link is read out of the ring from tail to head, so that publishing the head appends
  a frame, `tx_next` takes one from the front, emptying the ring for a STOP accepts
  the urgent frame, and everything else changes neither.
* `EmergencyLatchProofs`.  `Latches_agree` follows the last message to each node:
  what a node will hold is the last of its queue, or its latch.
  `Latch_outlives_board` says two things.  That board, gateway and executor end up with
  the same latch, whatever a reboot takes along, rests on `Latches_agree`, on what the
  bridge is told and knows (`Knowledge`), and on what it has told the board (`Answered`);
  before the bridge has heard the board for the first time it knows nothing that has to
  be told (`Unheard`).  That it is the user's latch, unless `unsaid`, follows the last word
  of the user from the slot over the line to the nodes (`Word`).
  `Board_follows` is about two latches that answer each other: the board tells the
  bridge, and the bridge, once it has been connected, tells the board every change
  (`Mirrored`).  Before that it publishes nothing, so there is nothing to follow but
  the web page, whose last word is what the gateway, the bridge and the board will
  have (`Alone`).  Neither half alone is inductive: the first HELLO leads from the
  second to the first.
* `MotionDialogueProofs`.  Every step of the dialogue is a step of the application
  or leaves it alone (`DialogueStepsApp`), so the invariant is about the application:
  a jog is only followed awake and unlocked, and the press that locked found nothing
  to release.  `Nothing_lingers`, `Press_never_releases` and `Typing`.
  `Paired` adds the order of frames: on each leg, the ring, the line and the topics, an
  escape is right behind its event, or the event has been taken and the tag is set.
  Hence `Escapes_are_tagged`.
  That board and robot agree takes three invariants, each resting
  on the one before.  `Ordered`: ids grow from the robot over the topics and the line
  back to the ring, and none is answered while it runs; hence `Own_result`, an answer
  ends only the motion it is for.  `Traced`: on a line that loses nothing, the request
  the board waits for, or its answer, is in one of these places; hence `No_phantom`.
  `Accounted`: every motion that runs, or is on its way to run, and that the board does
  not wait for, has a stop behind it, a lock before it, or a time limit the board has
  seen; hence `No_runaway`.  All three need `Unwrapped`, fewer than 65535 events, so
  that `petcargo.c` does not count past the end of its ids.  It is a hypothesis of the
  theorems and not of the model: with the 16 bits used up an old id returns while the
  executor may still have it among its completed ones.
* `RemoteChainProofs`.  `Wanted`: what is in the mailbox or being posted is what is
  wanted; hence `Latest_wins`.  `Fresh` gives each stage (key, read, mailbox, request,
  lease) the age that a direction may have there, the waits before it added up; hence
  `Dead_man`, for every choice of the waits.

* `FrameLinkProofs`.  `Board_typing`: the ring never overflows and the parser never
  holds more than its buffer, for every frame, noise and size.  `Back_in_step` needs
  to know where in the line the parser is.  Places are counted from the end of the
  line, so that reading moves none of them: `CutsOf` are the places between undisturbed
  frames, and the parser is between frames, inside one in step (`InSync`), skipping
  the rest of one (`Skipping`), or in something it takes for a frame (`Stray`), which
  ends before `MAX_PAYLOAD + 6` undisturbed bytes have passed.  The proof needs every
  one of these bytes: with a type byte that reads as the greatest length the parser
  stays out of step that long, four bytes more than with small type bytes.
  The second half is the bridge.  `Fed` is a recursion over the buffer: `FedIs` shows
  that its equation has a solution, because each pass leaves less (`Shorter`), and what
  holds of it is shown on the shortest buffer for which it might fail (`Shortest`).
  `FeedTypes` bounds what is left; with it `Receivers_typing` is `TypeOK` for both
  receivers.  `FeedSafe` is the heart: where the bytes of a frame fit, as far as the
  buffer goes (`Fits`), the frame comes out or stays at the same distance from the end.
  One statement covers whole frames and frames half arrived, and the invariant needs
  both: `Coming` says that the begun part of an undisturbed frame is at the very end of
  what the bridge has.  Hence `Nothing_lost`, for frames that are `Apart`.
* `SettingsStoreProofs`.  `Store_typing` holds without further hypotheses.  The other
  theorems say, for executions in which no half-written record passes the check
  (`CheckDiscerns`), what the slots hold.  `Dated` gives each whole record an age, the
  number of saves between it and the settings in memory: its count is as many feedings
  behind, its slot is the one of its number, and the age is small against the 65536
  numbers.  `NewestIsYoungest` then shows that the loop of `persistence_load`, although
  its comparison goes around, ends at the least age: nothing of the sort holds of
  records without `Dated`, because the comparison is not transitive.  `Writing` is the
  save under way, and `Promise` what it may cost.  `No_mixture`, `Completed_saves_last`
  and the refinement `Keeps_its_log` follow.  The proof showed that an earlier form
  of `SettingsLog` was wrong, which a run had not: after a whole round of interrupted saves
  the distance of the numbers may wrap when one more is begun.

The inductions over data (the loops of `feed`, `persistence_load` and the CRC) cannot
use the induction theorems of the library, which take an operator as a parameter.  They
go over the least counterexample instead, which `WFMin` of `WellFoundedInduction`
provides for a set of numbers.

Only model-checked: liveness (`RunsEnd`, `KeepsSending`, `SilenceStops`, `LockReaches`),
which is outside the prover's reach; `InOrder`, which is not true of every set of frames
and any noise; and `CheckDiscerns`, which is a hypothesis of the theorems about the
settings and not true of all numbers.

## 6. Assumptions of the models

* A byte of the EEPROM is written or it is not, when the power fails.
* A request of the PC takes at most `PostTimeout`, whatever the time-outs of its socket
  operations add up to.
* The PC's scheduler is prompt: a read returns when its time is up, and the worker
  takes what it finds.
* K3 is held for 1.2 s and a motion has 16 s or more, so frames sent before have
  arrived by then; the line is quick against both.
* A damaged frame does not pass its CRC.
* No frame begins inside another one, for `Nothing_lost` only (`Apart`); no half-written
  settings record passes its check, for the theorems about what the settings hold
  (`CheckDiscerns`); the pet is fed fewer than 32767 times between two records of a slot
  (`FeedsAssumption`).
* `None`, the absence of a frame or a message, is none of the frames and messages
  (`NoneAssumption`, `NothingAssumption`).
* A topic keeps the order of one publisher; different topics may overtake each other
  where a run says so.
* Callbacks of the gateway take less than a tick of its clock.

## 7. Not modelled

Moods, music, the OLED and the seven-segment digits (output only), ADC, sensor and
clock drivers, the voice module and its SDK (third party; reaches the board as
single bytes) with its five-byte parser, telemetry, the dashboard page and its state
store (copies of the latest message behind a lock), the Keil port (the same program
for another compiler), bench tools and deployment scripts, HEX backups.

Almost all lines of the repository belong to the vendored SDK of the voice module
(`mars-sdk/`, above 180,000 of 196,000 lines, most of them register and instruction
headers), to tables of tones and fonts, and to the Keil port.  The share of lines the
models stand for is therefore small by nature; of the program itself, the application
of the board, the ROS nodes, the remote and the PC's bridge, every part that keeps
protocol state is modelled, as listed in `PROJECT.json`.
