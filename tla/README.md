# pico-io-bridge: TLA+ models and proofs

The firmware under `src/` turns an RP2040 or RP2350 board into a USB network
adapter with services behind it: SCPI, HTTP and WebSocket servers, a raw serial
port over TCP, I2C, CAN, audio, and a USB *host* port, bit-banged by PIO, for
serial adapters, BleuIO dongles, P8055 boards, Wi-Spy analysers, microphones and
USBTMC instruments. The interesting part is not any one protocol. It is that
two cores, a dozen cooperative tasks and a port on which devices come and go
share a few words of state, two channels and two signals, while callers give up
and connections break. This directory models that part, checks it with TLC, and
proves its safety properties with TLAPS.

Line numbers without a file name are those of `src/src/usb_host.rs`.

## Inventory

Core 0 runs one cooperative embassy executor with all the network tasks and
peripherals; core 1 runs `usb_host_task`, which joins two futures,
`root_port_monitor` and the application loop of `run`. The `HOST_*`, `BRIDGE_*`
and audio statics are shared between the cores; every `.await` is a point where
another task may run.

| Component | State | Operations | Talks to | What is hard | What makes it correct |
|---|---|---|---|---|---|
| USB host commands (873-1058, 1442-1474, command loops in `run`) | `HOST_COMMAND_LOCK`, `HOST_COMMAND_SEQUENCE`, `HOST_COMMANDS`, `HOST_REPLIES` | `send_command`, `reject_command`, `send_reply`, one command loop per driver | all servers, core 1 | callers give up; replies come late; devices change under a queued command; the sequence number wraps | a call is performed at most once, by the device it was meant for; an answer is its caller's own; nobody waits for ever |
| Device session (158-213, 410-530, 1060-1360) | `HOST_STATE`: `generation`, `phase`, `bridge_connected`, ... | `set_resetting`, `clear_device`, `begin_enumeration`, the `..._if_current` helpers | monitor, drivers, `send_command` | compare-and-set by generation and phase, with the lock released between | a ready phase is that of the device on the port and of the driver that serves it |
| Root port monitor (2240-2338) | detector, `connected` | attach, detach, SE1, reset of the port | host stack events, `HOST_STATE` | races with the application's own resets | no device is forgotten, no reset is left hanging |
| Application loop (2340-4113) | `session_generation`, retries, class driver | wait, enumerate, retry, set up, serve, release | events, `HOST_STATE`, `HOST_COMMANDS` | errors at every step; retries; drivers that end in different ways | as above |
| Raw serial bridge (1527-1864, 2146-2205, 4120-4253) | `BRIDGE_TO_USB`, `USB_TO_BRIDGE`, `BRIDGE_EVENT`, `BRIDGE_OUT_ACK`, the TCP socket | open, close, the two directions, EOF drain | TCP client, command loops | futures are dropped in the middle; latest-value signals; late opens | byte streams in order and of their own session; a closed connection releases the stream, a detached device closes the connection |
| BleuIO manager (1866-2144, `bleuio.rs`) | `active_session`, `parser_epoch`, line parser, catalog | scan, open, quiesce, restart | bridge, `HOST_STATE` | two futures share two atomics; open and close take seconds, and the dongle may go in between | scan and raw stream never mix; both sides give a session up |
| Class drivers (2475-4103, `p8055.rs`, `wispy.rs`) | output state, sweeps, baud rate, receive buffer | transfers | devices | stale sessions, partial failure | state follows the device |
| USBTMC TCP server (4255-4349) | command buffer, `usbtmc_connected` | read a line, write or exchange | commands | detach during a connection | flag follows connection |
| SCPI server (`scpi.rs`) | parser state | hundreds of commands | everything | error queue | - |
| HTTP and WebSockets (`http.rs`, `websocket.rs`, `json.rs`) | per connection | REST, app upload, event loops | everything | check-then-act of flash maintenance | flash is written only by requests admitted while no device was attached |
| App storage (`local_apps.rs`) | files in flash | format, upload, delete | HTTP | uploads block by block, several browsers | an upload reported as installed is whole |
| I2C (`i2c.rs`) and sensors (`bme688.rs`, `bno08x.rs`, ...) | lock, command and reply channels | request/reply | SCPI, HTTP | replies have no sequence number; a stuck bus | an answer is its caller's own |
| CAN (`can.rs`) | same, and `CAN_EVENTS` | request/reply, publish/subscribe | SCPI, WebSocket | lagging subscribers | frames in order |
| Audio (`audio_stream.rs`) | slots, `SNAPSHOT_PHASE`, one client | publish, reset, next block | core 1, WebSocket | two cores without a lock, stale blocks | blocks in order, whole, and none overlooked |
| Link supervision (`main.rs`, `network.rs`) | watchdog counters, reset markers in the watchdog scratch registers | link watchdog, silence probe, resets, readiness | USB device stack, DHCP, mDNS | counters that survive resets; the link changes at any await | resets are bounded; a deaf host is healed; the indicator tells the truth |
| CDC-NCM (`cdc_ncm/`) | transfer blocks, link state | read and write packets | USB device stack | zero-length packets, boundaries | frames in = frames out |
| DHCP, mDNS (`dhcp.rs`, `mdns.rs`) | lease, registration | reply, announce | network | - | - |
| Device registry (`devices.rs`) | slots with kind, address, calibration, battery capacity | add, remove, clear, measure | I2C, sensor drivers | a bus error in the middle of a command | the list agrees with the sensors; settings belong to the sensor in the slot |
| Board profiles (`board/`), `build.rs` | none | constants | - | - | - |

External, and not under `src/`: the PIO host stack (`embassy_rp_pio_usb_host`,
`embassy_usb_host`), the network stack and the executor. They appear as the
events and results their users in `src/` see.

## Modules

| Module | What it models |
|---|---|
| `Rpc` | *Abstract.* What a caller of `send_command` is promised. |
| `DeviceSession` | *Abstract.* What commands may assume of `HOST_STATE` and of the application; four phases instead of 21. Also the lower half of `HostRpc`, which extends it. |
| `HostRpc` | `send_command` on core 0 and the command loops on core 1, over `DeviceSession`. |
| `HostRpcProofs`, `ModularArithmetic` | Theorems about `HostRpc`, its refinement of `Rpc` among them; facts about `%` that these and others rest on. |
| `HostSession` | The monitor and the application loop with all class drivers; implements `DeviceSession`. |
| `HostSessionProofs` | Theorems about `HostSession`, its refinement of `DeviceSession` among them. |
| `SerialBridge` | `usb_serial_task` and `run_bridge`. |
| `SerialBridgeProofs` | Theorems about both streams and the ownership of the bridge. |
| `LinkSupervisor` | The main loop of core 0: link watchdog, silence probe, resets that are counted across reboots, mDNS registration, readiness. |
| `LinkSupervisorProofs` | Theorems about `LinkSupervisor`. |
| `BleuioManager` | `manage_bleuio` with its scan and its bridge, and the serial task beside it. |
| `AudioStream` | The audio slots, `publish` and `reset` on core 1, the client on core 0. |
| `DeviceRegistry` | What each command of the I2C worker may do to the registry and the sensors. |
| `I2cService` | The callers, queues and worker of the sensor bus, over `DeviceRegistry`. |
| `CanService` | The CAN task, its commands, and the frames its WebSocket clients get. |
| `AppStore` | Uploads, deletions, formatting and serving of web apps. |
| `AppStoreProofs` | Theorems about uploads and late writes. |
| `MCServices` | The last three services, which share nothing: `I2cService`, `CanService`, `AppStore`. |
| `ServicesProofs` | Theorems about the sensor bus, the registry and the CAN bus, and about the three together. |
| `MCDevices` | The two drivers `AudioStream` and `BleuioManager`. |
| `DevicesProofs` | Theorems about the two drivers. |
| `MC...` | Otherwise one per component, instantiated by the `.cfg` files of the same name. |

The composition is by refinement in both directions of `DeviceSession`:
`HostRpc` runs commands on top of it and implements `Rpc`; `HostSession`
implements it. Thus what `HostRpc` relies on is what the monitor and the
application loop do. `SerialBridge` in turn keeps of a command what `HostRpc`
shows: an answer reaches its own call or nobody, and a command of an earlier
session is rejected. `BleuioManager` does likewise.

`MCServices` and `MCDevices` hold components that share no state, no lock and no
channel. A variable chosen in the initial state says which of them takes the
steps, so that a run checks each as if it were alone, without the product of
their states.

Definitions marked "Mutant" are what the definition after them would be with a
plausible mistake. No specification uses them; they are there to show that each
property can fail.

### HostRpc

Callers go through `idle`, `lock`, `check`, `drain`, `send` and `wait`, one per
`.await` of `send_command`. `StartCall` to `Expire` are its steps; `Abandon` is
the `select3` of `usb_serial_task` that drops `bridge_close` at whatever await it
has reached. Messages carry a history field `call`, the number of the call,
that no action looks at; `admitted`, `performed`, `rejected` and `answer` are
history too. They say what a sequence number should stand for.

The manager receives (`Receive`), checks (`command_is_current`, in `Transfer`,
`CheckBridgeCommand` and `RejectReceived`), performs and answers. The lock of
`HOST_STATE` is released between `command_is_current` and the compare-and-set of
the bridge flag, so that these are two steps. A transfer may end well, fail, or
fail and take the session with it; in the meantime the device may go, and another
may come. `send_reply` drops a reply that finds the channel full. `EndBridge` may
lose a command: the `select3` of `bridge_usb_io` drops `bridge_commands` with
it.

### HostSession

`line` is what is on the port, `detected` what the debouncing detector has last
reported. The monitor's and the application's steps are interleaved at every
helper that locks `HOST_STATE`, which is finer than the executor does it: the two
futures give way only at a contended lock, a transfer, a timer and an event.
Devices are numbered, those in `SlowDevices` are low-speed. The speed matters,
because `begin_enumeration` refuses a port whose speed is not that of the event.
A helper `..._if_current` is `IfCurrent`: it updates the state and the driver goes
on, or it does nothing and the driver is released. Counters and diagnostics are
left out. So is `UnsupportedSpeed`: the detector of this port reports low and full
speed only.

Two properties need an assumption on time, the constant `Prompt`. What the
detector reports takes 100 samples at 1 ms and a reset of the port tens of
milliseconds; the application is polled in the same task every millisecond and
its transfers end when a disconnect is reported. `Prompt` says that the
application has gone on before the next event of the port. Without it, TLC finds
that a device attached while the application is stalled for longer than the
debounce may be left idle until it is replugged; that needs a stall the code does
not have, so that it is listed as a hazard and not as a finding.

### SerialBridge

A frame stands for up to 64 bytes and a packet for what the device sends in one
transfer. The client may send, shut its sending half (`eof`) or vanish (`gone`)
at any time. `reader` is where `tcp_to_bridge` is; it sends a frame, then waits
for the acknowledgement. Bulk-IN runs only after the first OUT frame
(`started`), and until then commands are received only between transfers
(`Listening`). `SendInitial` is what `CdcRxBuffer` still holds when the bridge
opens. The end of a bridge drops both directions and what they hold (`StopIo`).

`timely`, chosen in the initial state, says that no call of the task expires while
the manager can still answer it: the time-out is 4 s, and everything the manager
does between two receives has a deadline of 2 s. Without it an open may be performed
after its caller has given up; nobody then owns the bridge. The streams are checked
with such orphans; `NoOrphan` and `ClosingReleases` speak of timely behaviours.

### LinkSupervisor

An action is what the main task does between two awaits. `stored_count` and
`marker` are the two scratch registers; every other variable is lost in a reset
(`Restart`). A boot consumes the marker (`Boot`). The probe looks at the packet
counter once per poll and then sleeps; what matters of the counter is whether it
has moved since it was last read (`seen`). The host may miss the one notification
of an enumeration (`hearing` is false): that is what the resets are for. The
responder's updates wait in a queue per service until the monitor polls them.
Whether the scratch registers outlive a press of the reset button is up to the
hardware (`network.rs` speaks of a system reset), so that `ButtonReset` keeps them or
clears them. `streak` is history: resets for silence in a row, as an observer counts
them who sees the host being heard, the link going down while it is in use, and the
button.

### BleuioManager

The two futures of `manage_bleuio` are joined in one task, so that an action is what
one of them does between two awaits: in particular `bleuio_usb_in` looks at the epoch
and at the session in one step after its packet has come (`ReadUnit`). A report of
the dongle is two packets, since a line may be split anywhere; `parser` and
`published` say of which scan or session the parts of a line are. `manager` is
where `bleuio_commands_and_out` is within an open (`stop`, `openQuiet`) or a close
(`restart`, `closeQuiet`). Two facts about time are assumed. At the end of the 300 ms
of a quiesce the dongle has handed over what it had buffered, if somebody reads it
(`Drained`; `Stuck` is the case that nobody does, and the proofs show that it does
not arise). And a call that gives up after 4 s is not still in the queue of a running
manager, nor is it an open in hand (`MayGiveUp`): between two receives lie at most 2 s,
and an open takes 2.3 s.

### AudioStream

An action is one atomic access of one core, since the two cores run truly in
parallel. The sequence number is compared as the code does it, modulo
`SequenceLimit`. Two facts about time: a block is 10 ms of sound and a scan of the
three slots microseconds, so that core 1 starts at most one publication or reset
while core 0 takes a block (`Paced`), and a client does not sit on a block until half
of the 2^32 numbers are used (`Attentive`).

### DeviceRegistry and I2cService

A command is executed by one task from its beginning to its end, so that
`DeviceRegistry` describes it as the set of boards and replies it may end with,
every bus error included: an operator such as `DeviceAdd` lists them. The state of a
sensor (`power`) is what the driver has made of it. `I2cService` is about the
callers and the replies they take, which carry nothing that says whose they are.

`age` is history: by how many calls a command or a reply is older than the call sent
last. `i2cMisses` counts the calls given up whose replies have not been thrown away
since. A caller that gives up sets the next one back by one reply, and that one leaves
its own reply to the caller after it, and so on: one time-out goes on through all
callers that follow each other without a pause, until a late reply is there when
`send_command` empties the replies. `I2cKeepsStep` says how far this can go: what a
caller takes is never older than the misses, and once nothing is on its way there are
none. With no time-out, every caller gets its own answer. The same goes for CAN
(`CanKeepsStep`).

### CanService

`CAN_EVENTS` is modelled by what the publish/subscribe channel of embassy-sync does:
a frame is kept until all subscribers at its time have taken it, and a full channel
drops its oldest. A client that has fallen behind learns that it lagged.

### AppStore

A block of a file is known by the upload it belongs to and its place. A `PUT`
asks `apps_write_allowed` once and then waits for its body; `admitted` and `late`
count, while a device is attached, the requests that had been let in before and the
writes that came after. `disturbed` is history, set when another client touches
the file an upload is for.

## Runs

| Run | Checks | Bounds |
|---|---|---|
| `host_rpc` | `TypeOK`, `PerformedInOwnSession`, `ReadySessionIsOwned`, `BridgeFlagIsHonest`, `ImplementsRpc`, `HolderReturns` | one client and the serial task, channels of 1, 3 calls, 3 generations |
| `host_rpc_wrap` | `RepliesMatchCalls`, `Window` | sequence numbers modulo 5, the least `RpcAssumption` admits, and 5 calls: the number wraps; 2 generations |
| `host_session` | `TypeOK`, `ReadyDeviceIsPresent`, `ImplementsSession`, `ResetIsAdopted`, `ResetEnds` | all classes, 3 devices (two full-speed, one low-speed), 1 glitch, 2 failures |
| `host_session_prompt` | `NoForgottenDevice`, `FlashLockedWhileAttached` | the same with `Prompt`, without BleuIO, 3 failures: all retries are spent |
| `host_session_flash` | `FlashLockedWhileAttached`, **violated** | one BleuIO dongle |
| `serial_bridge` | `TypeOK`, `WrittenInOrder`, `ReceivedInOrder`, `EofIsWritten`, `NoOrphan`, `ClosingReleases`, `DetachCloses` | 2 clients in turn, 2 frames each, 3 packets, channels of 2, 2 detaches; time-outs at any point, and `timely` |
| `serial_bridge_forward` | `CloseForwardsAccepted`, **violated** | 1 client, 1 frame, 1 packet |
| `link_supervisor` | `TypeOK`, `SilenceResetsBounded`, `ReadyIsEstablished`, `LinkLossShows` | 2 services, a limit of 2 resets, 3 deaf enumerations, 2 drops, 1 press of the button, 1 mDNS or DHCP trouble |
| `link_supervisor_live` | `DeafHostHeals` | as many deaf enumerations as resets, no drops, `Timely` |
| `link_supervisor_fresh` | `SequenceStartsFresh`, **violated** | a limit of 2 resets, 1 drop, the button not pressed |
| `services` | `ServicesTypeOK`, `AnswersKeepStep`, `RegisteredIsAwake`, `SettingsBelongToDevice` (I2C), `FramesReachClients` (CAN), `UploadIsWhole`, `LateWritesBounded` (apps) | I2C: SCPI and a WebSocket, 2 slots, 2 sensors, a queue of 1, 1 time-out; CAN: 2 clients, 3 frames, a channel of 2, 2 time-outs; apps: 2 browsers, 1 name, 2 uploads of up to 2 blocks each, 1 attach |
| `devices` | `DevicesTypeOK`, `SlotAccessIsExclusive`, `StreamIsHonest`, `BlockWakesListener` (audio), `StreamsAreSeparate`, `SessionEndsOnBothSides` (BleuIO) | audio: 2 slots, snapshots of 2 blocks in periods of 3, 7 sequence numbers and 7 blocks, so that they wrap, 2 devices, 2 listeners; BleuIO: 2 dongles, 2 clients, channels of 1, 2 buffered packets |

Why the bounds are enough: a channel of one is full after one message and makes
every full-channel path happen at once; two callers are needed for a late reply
to be somebody else's, and three calls for one of them to be late twice; two time-outs
of CAN commands set a caller back by two replies; three
devices for the replacement of a device that has itself been replaced. One of two slots
is read while the other is written, and a third adds nothing that two do not
show; two browsers, two sensors and two dongles are the least that can be mixed up. What
depends on the bounds (the capacity, the modulus, the number of clients) is
proved for every value. Deadlock is not checked where the bounds themselves stop
the system (`CHECK_DEADLOCK FALSE`: all devices have been plugged in, all clients
have come and gone).

### Findings

* `host_session_flash`: README 1012-1016 says that flash maintenance is locked
  while a device is attached. When `initialize_bleuio` fails, `manage_bleuio`
  returns without waiting for the removal of the dongle (2097-2104), and
  `set_waiting_if_current` (4106) makes the host report `Waiting`, which is what
  `apps_write_allowed` asks for. All other drivers wait for the removal, and
  `host_session_prompt` shows the property without BleuIO.
* `serial_bridge_forward`: the comment at 4229-4232 says that an accepted packet
  is forwarded before the close is acknowledged. The `select3` of
  `bridge_usb_io` drops `bridge_usb_in`, and the packet with it, as soon as
  `bridge_commands` has the close.
* `link_supervisor_fresh`: README 208-209 says that a real link-down starts a fresh
  sequence of resets. A link that goes down during the silence probe takes the
  `continue` of `main.rs` 431, past the lines that clear the count (628-629), so that
  the next sequence starts with what is left of the last. (What the README says there
  of the reset button is not checked: in the 350 ms to 5 s in which the board has
  armed a recovery reset and waits with its pull-up off, it depends on whether the
  hardware keeps the scratch registers.)

Some things that TLC or the models showed and no document contradicts: the
generation that the `..._if_current` helpers compare never differs where the phase
does not (dropping that test from `Expected` breaks no property, so that it is a
second line of defence); a packet that comes in the last 250 ms of the silence
probe is overlooked; a DHCP lease outlives a link that drops during the probe; and a
link that flaps while the main task is not looking is not probed again, so that a
host that missed its notification is not healed (`link_supervisor_live` therefore has
no drops).

Some more from the newer models. *BleuIO*: an open or a close that is in hand when the
dongle goes is dropped without an answer, and the session signalled as closed in a
quiesce is `QUIESCING`, which no client has; the client then waits out its 4 s, and no
longer (`SessionEndsOnBothSides`). Each of the three changes of `parser_epoch` would do
without the others, because a packet of the session already resets the parser.
*Audio*: the look at a slot's sequence number (`take_oldest`) precedes its
compare-and-exchange, and would be a concurrent access without `Paced`; the phase a new
client has reset may be overwritten by a publication under way, so that its first
snapshot is cut; a block published as a client leaves may be left for the next one; and a
block of a device that is gone, copied while the reset of the next clears the slots, may
follow the last one by number with cleared blocks between them (lines 60-61 of
`audio_stream.rs` speak of gaps by a full queue only).
*Apps*: two browsers may write to one file at once, and a deletion or a formatting between
two blocks leaves a file with a hole that was acknowledged block by block
(`UploadIsWhole` excludes these by `disturbed`); a file that changes while it is served
may disagree with its `Content-Length`; a request that had been admitted may write
once after a device has come (`LateWritesBounded`). *I2C and CAN*: after one time-out,
each of several callers without a pause takes the reply of the one before it, and
nothing in the code notices unless the two commands have replies of different kinds
(`I2cKeepsStep`, `CanKeepsStep`). *I2C*: a bus that hangs for ever
leaves one command in hand and a full queue, and the next caller waits in `send` with
the lock; nothing bounds that, so that no liveness is claimed.

### Fairness

Core 0 polls every woken task, so that a step of `send_command` that can be taken
is taken, the timer included; acquiring the lock gets no fairness, because the
property does not need it. The manager: a transfer and an enumeration have
deadlines, so that a command in hand is finished. Receiving gets *strong*
fairness: an enumeration may disable it again and again, but each time the
manager is back in a loop its `select` polls `HOST_COMMANDS` before any timer.
In `HostSession` the monitor, the enumeration and those steps of drivers that
wait neither for a command nor for a report are fair. In `SerialBridge` the task
and the manager are, each activity for itself; the client need not send, read or
leave, and the device need not send or stay. In `LinkSupervisor` the main task is
fair, and nothing else is when the indicator is to go back to busy. For
`DeafHostHeals` the host has to be there: it enumerates the board each time it
reappears (strong fairness, since a reset takes the chance away), talks on a link it
knows of, within the probe if `Timely`, and the responder completes its probing.
In `AudioStream` each core goes on with what it has begun, and the client with its
scans; no device need send. In `BleuioManager` the futures of the manager, its end and
the serial task are fair, each for itself: every transfer has a time limit, after
which the model lets it fail.

## Proofs

Every invariant and every action property of the passing runs, and both refinements,
are proved for every value of the constants; the modules with `Proofs` in their name
hold them. What is left to TLC is liveness. The bounds (`MaxCalls`, `MaxAttach`, ...)
are constants without an upper limit, so that the proofs hold for any number of
calls, devices, clients, blocks and time-outs.

| Module | Theorem | Property |
|---|---|---|
| `HostRpcProofs` | `TypeCorrect` | `TypeOK` |
| | `Exclusion` | `OneCaller` (follows from the lock; proved and not checked) |
| | `ReadyIsOwned` | `ReadySessionIsOwned` |
| | `OwnDevice` | `PerformedInOwnSession` |
| | `NoStaleBridgeFlag` | `BridgeFlagIsHonest` |
| | `InFlightWindow` | `Window` |
| | `Correlation` | `RepliesMatchCalls` |
| | `CallsAreAnswered` | `ImplementsRpc` |
| `HostSessionProofs` | `SessionTypes` | `TypeOK` |
| | `AnnouncedIsAdopted` | `ResetIsAdopted` |
| | `SessionImplemented` | `ImplementsSession` |
| | `ReadyIsPresent` | `ReadyDeviceIsPresent` |
| | `NoneForgotten`, `FlashIsLocked` | `NoForgottenDevice`, `FlashLockedWhileAttached`, if `Prompt` and `"bleuio" \notin Classes` |
| `SerialBridgeProofs` | `BridgeTypes` | `TypeOK` |
| | `WritesInOrder`, `ReceivesInOrder` | `WrittenInOrder`, `ReceivedInOrder` |
| | `NothingUnwrittenAtEof` | `EofIsWritten` |
| | `BridgeIsOwned` | `NoOrphan` |
| `LinkSupervisorProofs` | `LinkTypeCorrect` | `TypeOK` |
| | `LinkRecoveryBounded` | `SilenceResetsBounded` |
| | `ReadyMeansEstablished` | `ReadyIsEstablished` |
| `AppStoreProofs` | `UploadsAreWhole` | `UploadIsWhole` |
| | `LateWrites` | `LateWritesBounded` |
| `ServicesProofs` | `ServicesTypes` | `ServicesTypeOK` |
| | `AnswersStayInStep` | `AnswersKeepStep` |
| | `RegisteredStaysAwake` | `RegisteredIsAwake` |
| | `SettingsStayWithDevice` | `SettingsBelongToDevice` |
| | `FramesReach` | `FramesReachClients` |
| `DevicesProofs` | `DevicesTypes` | `DevicesTypeOK` |
| | `SlotsAreExclusive` | `SlotAccessIsExclusive` |
| | `StreamsAreHonest` | `StreamIsHonest` |
| | `SeparateStreams` | `StreamsAreSeparate` |

`ModularArithmetic` holds what the prover does not know of `%`: what the remainder
of an incremented count is, that counts closer than the modulus have the same
remainder only if they are the same, and that the difference of two remainders tells
the earlier of two counts that lie less than half the modulus apart.

### HostRpc

Two inductive invariants carry the safety properties. `SessionInv` joins the
ownership of the ready phase to what the manager does: a bridge runs only while it
serves, a command past its check belongs to the session the manager holds, and no
generation in a command or held by the application is younger than `HOST_STATE`'s.
`PerformedInOwnSession` alone is not inductive: the check and the compare-and-set are
two steps, and only the ownership of the ready phase keeps the session in between.
`Window` is the other: the code drains `HOST_REPLIES` before it sends, but a command
given up may be answered after the drain. How many such calls can there be? Each place
that can hold one (queue, hand, reply queue) is counted; between two commands that
were sent at most one call can have been dropped unsent, since only a close of the
serial task is dropped and it takes an open in between. So a call in flight is at most
`2 * Capacity + 2` old, and numbers closer than the modulus are equal only if the
calls are. That is `Correlation`; the code has a capacity of 4 and a modulus of 2^32.

The refinement `ImplementsRpc` needs a third, `Accounted`: a command in the queue or
in hand has been neither performed nor rejected, no two of them are of one call, and
each reply says truthfully what became of its call. Then a step of the manager maps to
`Perform` or `Reject` of a call that is still open, a matching reply to the answer of
that call, and everything else to a stutter.

### HostSession

`StateInv` ties the phase to where the application is in its loop: a phase past
`Resetting` is of the session it has adopted (`PhaseFits`), a session is adopted only
after its announcement (`OwnIsPast`), and the bridge flag stands only while the phase
is ready (`BridgeIsReady`). It shows that each step of the monitor and of the drivers
is a step of `DeviceSession` or a stutter, so that what is proved of `HostRpc`
rests on what the two loops do. `ReadyDeviceIsPresent` is not inductive, since a device
may be replaced while the application is still enumerating; `DeviceInv` says from when on
the session is that of the device on the port, and `PortInv` that device numbers are
not used again. For `NoForgottenDevice`, `Following` lists where an application that
keeps up may be while a device is attached (`Attended`), and that it has dropped the last
one before the next is announced.

### SerialBridge

One invariant, `Inv`, with four parts. `SessionsOK`: which session each side and each
signal can name. `ToDevice`: of each client, what has been written, what is in hand
and what is queued are together the first frames it sent, and the reader's count is
where they end; an acknowledgement is of a frame that has been written. `ToClient`: the
packets in every place are ascending from what the client has got to what the device
sends next, and of its own session. `InTime`, for timely behaviours: the
task still waits for the answer to any open that is on its way, a close names the
session of the bridge that runs, and once it has been taken no bridge runs. `EofIsWritten` follows
from the first two; `NoOrphan` needs the last.

### LinkSupervisor

`Bounded` says where the streak of resets is kept: in memory while the board runs, in the
scratch registers, if they are marked, from the decision to reset until the next boot
has taken the count over. `Told` is for the indicator: what the main task holds of a
service, or would after polling its updates, is established only if the responder has
it so; and from the end of a probe until the services are registered anew it holds
nothing, so that an establishment of the last link does not count.

### AppStore and the services

`AppInv` says of every client, whatever the others do, that the file of its upload
holds the blocks up to the next one it is to send, unless somebody has touched the
file. `LateWritesBounded` is not inductive: `InTime` counts the requests that may still
write (`Writers`) as well as the writes made.

`I2cAges` and `I2cCount` (`CanAges`, `CanCount`) are why callers stay in step. What is on
its way, in the command queue, with the worker and in the reply queue, answers calls that
follow each other without a gap, up to the one sent last; and there are as many of them
as calls have been given up and not thrown away, plus one if somebody waits. So the
oldest reply is no older than the misses.
`BoardOK` describes a board the commands can leave, slot by slot: the device is wired,
awake and alone at its address, and a capacity or a calibration belongs to a device of
the right kind. Each of the many outcomes of a command keeps it, those of a bus error in
the middle included. `FramesInv` says that the channel holds the last frames in order and
that what waits for a subscriber is exactly what came after the last one it got. The
services share no variable, so that a behaviour of `ServicesSpec` is one of each
specification, which carries the theorems over; so it is for `DevicesSpec`.

### AudioStream

`SlotInv`: a copy is protected by the marks that the exchanges leave (`Marked`). The
look at a sequence number comes before any mark, so that `Peeked` is needed: the slot
core 0 looks at is still ready, or core 1 has restarted the stream since the scan
began and has nothing to write until the scan ends. That is where the theorem needs the
pace of core 1 (`Paced`).

`StreamIsHonest` needs the invariant `Stream`. The blocks that can still be got lie less
than half of the sequence numbers apart, so that the comparison of their remainders is
that of their numbers (`NearOK`). Of the slots it has passed a scan knows that what is
ready there is younger than the oldest it has found, or that it was published behind
its back and is younger than whatever the scan will find (`ScanKnows`,
`ScanKnowsNone`); at most one block is, which is `Paced` again. What is copied comes after
what was copied before and before all that is ready (`CopyOK`, `LastOK`), across a
change of the device too, as the blocks of the last one are gone when the first of the
next is published (`CopyOfPast`). And the first block of a new device that a client
gets is the start of a snapshot (`FirstOK`): no block of the old device can look like
its neighbour.

### BleuioManager

`ControlOK` says whose the session is: the session of a dongle that is there has its
client, which has at most asked to close it; no frame waits for a client that is not
there, so that `Stuck` does not arise. `StreamOK` says what the dongle has buffered: in
a session its answers, in a scan reports of that scan, and anything only during the
quiesce that drains it; that what the parser holds, or will hold once it has noticed the
new epoch, is of the scan that runs; and that every frame on its way is an answer of
its own session. `ScansOK` counts the scans started, which bounds them for the type
invariant.

### What the proofs rest on

The named assumptions of the modules, which TLC evaluates in every run: capacities,
lengths and limits are positive, bounds are natural numbers, inputs are drawn from the
types of the commands; `RpcAssumption`: the modulus is greater than
`2 * Capacity + 2` and `Bridge` is not among `Clients`; `AudioAssumption`: there are
more than two sequence numbers, and a snapshot is no longer than its period;
`BleuioAssumption`: there is a session number besides 0 and `QUIESCING`; `CanAssumption`
and `I2cAssumption`: no client has the name that stands for nobody; `AppAssumption`:
the browsers are finite in number; `RegistryAssumption`: sensors have addresses and
kinds that the firmware knows. And on the facts about time named with the modules
above: `Prompt`, `timely`, `Paced`, `Attentive`, `Drained` and `MayGiveUp`.

Only model-checked, because liveness and `ENABLED` are out of reach of the prover:
`HolderReturns`, `ResetEnds`, `ClosingReleases`, `DetachCloses`, `LinkLossShows`,
`DeafHostHeals`, `BlockWakesListener` and `SessionEndsOnBothSides`.

Proving changed the models in a few places. Some operators had `CASE` arms that
overlap, of which the prover may take either; they are conditionals now. `DeviceClear`
was a fold over the slots, which the prover cannot unfold, and is stated by the slot
it stops at. The gap clause of `StreamIsHonest` was vacuous with snapshots of one
block, and with snapshots of two TLC found the exception it now names: a block of a
device that is gone, copied while the reset empties the slots, can have the number
that follows the last one although blocks between them were cleared. The locals of
`publish` and `take_oldest` are reset when the calls return, as they go out of scope.

## Not modelled, and the plan

Not modelled, because it is a function of one input or the layout of data: the
register protocols of the sensors, the parsing and formatting of SCPI, HTTP, JSON and
WebSocket frames, NTB framing, the decoding of advertisements, Wi-Spy sweeps, board
pin assignments. External: the USB device and host stacks, the network stack, the
file system and the executor. `usbtmc_task` reads a line and calls as a client of
`HostRpc` does. Counters and diagnostics are left out everywhere.

Still to come, in order:

1. The catalog of BleuIO sensors with its filter and eviction, the receive buffer of
   CDC-ACM (`CdcRxBuffer`) and NTB framing, as pure algorithms against a reference
   definition.
2. The bytes of a frame in `bridge_to_tcp`, which an orderly EOF cuts in the middle.
