# A TLA+ verification of openrb-pico

openrb-pico is firmware for an RP2040 board that plays the part of a Rock Band
Wired Legacy Adapter: it stands between a game console (USB device side) and a
real Xbox One controller plus one or more MIDI drum kits (USB host side and a
serial MIDI input). The console authenticates the real controller through the
board; after that the board announces instruments and sends drum reports.

This directory holds TLA+ modules of that firmware, the TLC configurations that
model-check them, and proofs checked by TLAPS. Paths below are relative to the
repository (`src/main.c` is the C file `src/main.c` of it).

Contents: 1 the system, 2 the modules and the code, 3 the runs, 4 fairness,
5 the proofs, 6 disagreements found, 7 what is not modelled, 8 the plan,
9 how to run.

## 1. The system

### 1.1 Who executes what

Nothing runs under an operating system. There are three contexts:

| context | what it executes |
|---|---|
| core 0, thread | `main()`: for ever `tud_task(); announce_task(); xboxd_send_task(); drum_task();` |
| core 0, interrupt | `on_disconnect_timeout_cb` (`midi.c`), the hardware alarm. It freezes the thread, not core 1 |
| core 1 | `tuh_task()` for ever: the controller driver's callbacks and the USB-MIDI callbacks |

They share plain variables, some `volatile`, none under a lock. The one lock is
the write mutex of the packet queue (`tu_fifo_write`); there is no read mutex,
only core 0 reads. The RP2040's cores are in-order and have no data caches, so
the models interleave single accesses to shared memory in program order.

### 1.2 Components

**Instrument roster** (`instrument_manager.c`). *State:* `connected_instruments[]`,
and one static packet `out_packet` in which every notice is built. *Operations:*
`connect_instrument`, `disconnect_instrument` (set the flag, then, if the adapter
runs, build and queue a notice), `notify_xbox_of_all_instruments`,
`notify_xbox_of_single_instrumenty`. *Called* by all three contexts. *Hard:*
flag and state are read and written in opposite orders by two cores; the packet
is shared. *Correct when:* every connected instrument is announced; the console's
roster ends up the adapter's.

**Serial kit presence** (`midi.c`). *State:* `drums_connected`, the alarm.
*Operations:* every status byte connects the kit if needed and restarts the alarm;
the interrupt disconnects it. *Hard:* the interrupt falls between any two steps and
takes the queue's mutex. *Correct when:* a kit that is taken to be connected has
a timer, and a silent kit is dropped.

**Serial MIDI parser** (`midi.c`). *State:* `count`, `note_on_message`,
`serial_timeout_ms`. *Operation:* `serial_midi_read`. *Hard:* running status,
messages split over calls, an index that must stay in a 3-byte array. *Correct when:*
it returns exactly the note-on messages of the stream.

**USB-MIDI callbacks** (`drums.c`). *State:* `midi_dev_addr`. *Operations:*
`tuh_midi_mount_cb`, `tuh_midi_umount_cb` on core 1. *Correct when:* the address is
that of a device on the bus.

**Drum pads** (`drums.c`). *State:* for each output `triggered` and
`triggered_at`, the report under construction, `changed_flag`, the time of the last
report. *Operations:* `note_on`, `drum_task`. *Hard:* a 32-bit millisecond
counter that wraps, debounce against pacing of reports, a full queue. *Correct when:*
a hit on a pad that the console shows released is reported while the pad is held, so that the
console sees an edge; a release is reported soon; pads are held 40 ms and not much longer.

**Packet queue** (`generic_fifo.h`, `packet_queue.c`). *State:* 16 packets.
*Operations used:* write (refuses when full; nobody looks at the result), read.
*Hard:* waiting for the mutex in an interrupt; refused packets.

**Adapter state machine** (`main.c`). *State:* `adapter_state`,
`identify_sequence`, `xbox_controller_idx/addr`, a second static `out_packet`.
*Operations:* `announce_task`; `xboxd_packet_received_cb` → `handle_init`,
`handle_identify`, `handle_auth`, `handle_running` on core 0;
`xboxh_mount_cb`, `xboxh_umount_cb`, `xboxh_packet_received_cb` on core 1.
*Hard:* core 1 decides on one read of `adapter_state` and acts later; both cores
fill `out_packet`. *Correct when:* packets reach the queue in the order of the
phases, the identify list is complete, `out_packet` is not torn.

**Device driver** (`xbox_device_driver.c`). *State:* the endpoint `ep_in`, the
slot `epin_buf` with its mark `handled`; the endpoint `ep_out` and `epout_buf`; the
interface's number. *Operations:* `xboxd_send_task`, `xboxd_xfer_cb` for either
endpoint, `xboxd_reset`, `xboxd_open`, `xboxd_control_xfer_cb`. *Hard:* bus resets
at any moment, an endpoint that is closed or busy, the send delay with a wrapping
counter; one place for three interfaces; an OUT endpoint that listens only as long as each
callback gives it its next transfer. *Correct when:* packets arrive in order, at most
once, in both directions, and a reset costs at most one (the first transfer of a
configuration may cost one more, section 6); each configuration succeeds.

**USB descriptors** (`usb_descriptors.c`). *State:* none. *Operations:* the
configuration descriptor; the strings are data. *Hard:* the driver walks along what this file
says, descriptor by descriptor. *Correct when:* the walk ends where the descriptor does
and every interface is bound.

**Identify data** (`wla_identifiers.c`). *State:* none. *Operations:*
`identifiers_get`, `identifiers_get_size`; seven fragments, each with its offset in the
whole and its length. *Hard:* nobody keeps the fragment that is sent and the one the
console waits for in step. *Correct when:* the console can put them together.

**Controller driver** (`xbox_controller_driver.c`). *State:* the one interface
`_xbox_itf[0]`. *Operations:* `xboxh_open`, `xboxh_set_config` (which waits by
executing `tuh_task` again), `xboxh_send_report`, `xboxh_receive_report`,
`xboxh_xfer_cb`, `xboxh_close`. *Hard:* callbacks nested in callbacks, one OUT
buffer filled by both cores. *Correct when:* the buffer is intact while in flight,
`main.c`'s controller is the driver's and is being polled.

**Data and external parts:** packet layout (`xbox_one_protocol.c`), the host driver
table, board headers; the console and the controller; TinyUSB, usb_midi_host and the Pico SDK (submodules, not part of the repository).

### 1.3 How they interact

```
  console  <--IN--  device driver  <--read--  packet queue  <--write--  roster        <-- alarm (core 0 irq)
     |                                             ^  ^ ^                  ^  ^--------- USB-MIDI (core 1)
     |                                             |  | '--- drum pads <-- serial parser (core 0)
     '--OUT--> adapter state machine --------------'  '----- controller packets (core 1)
                      |  xboxh_send
                      '------------------------------------> controller driver --> controller
```

## 2. The modules and the code

| module | lines | models |
|---|---|---|
| `InstrumentManager` | 503 | roster, serial kit presence, USB-MIDI callbacks, the queue's write side, on three contexts |
| `InstrumentManagerProofs` | 1561 | its proofs |
| `Adapter` | 374 | `main.c` on both cores with the queue's contents; drum reports and notices as their producers' effect on the queue |
| `AdapterProofs` | 838 | its proofs |
| `Drums` | 195 | `drum_task` and `note_on` under a wrapping clock |
| `DrumsProofs` | 520 | its proofs |
| `SerialMidi` | 120 | `serial_midi_read` over every stream |
| `SerialMidiProofs` | 574 | its proofs |
| `PacketChannel` | 45 | abstract: an in-order, at-most-once channel |
| `DeviceDriver` | 253 | the IN side of the device driver; implements `PacketChannel` |
| `DeviceDriverProofs` | 643 | its proofs, with the refinement |
| `UsbDevice` | 333 | the descriptors; of the device driver the configuration, the control requests and the OUT side |
| `UsbDeviceProofs` | 996 | its proofs |
| `Handshake` | 264 | extends `Adapter` by the fragments, the slot, a console and a controller |
| `HandshakeProofs` | 2294 | its proofs; extends `AdapterProofs` |
| `ControllerDriver` | 344 | the controller driver on both cores, with the nested `tuh_task` |
| `ControllerDriverProofs` | 595 | its proofs |

Conventions. Actions carry the name of the function or of the step of it they
translate. Variables have the source's names; those marked *history* in the
declarations are not in the program: they record what happened so that a property
can relate it to what is. They are never read by a guard, with the one exception
of bounds (below). An operator whose comment begins with *Mutant:* is not
part of the model: it is a plausible mistake in the definition that follows it,
used to confirm that the property it belongs to can fail.

**InstrumentManager.** `frame[c]` is the control state of context `c`: a label,
the instrument and the direction of the call, and where the call returns to. A
step is one access to shared memory: `Check` (the early return), `Set` (the flag),
`State` (read `adapter_state`), `Copy` and `Tail` (the two halves of the shared
packet, so that two contexts can tear it), `Lock` and `Push` (`tu_fifo_write`).
The other packets that go through the queue are `BeginWrite`, `LockOther` and `PushOther`:
core 0 writes announcements, identification and drum reports (`main.c:124`, `main.c:204`,
`drums.c:172`), core 1 what it relays from the controller (`main.c:62`, `67`, `80`), any time the
context is not busy with the roster. They take the mutex and the room in the queue.
`Scan` is a turn of the loop in `notify_xbox_of_all_instruments`. `At("main", ..)`
holds only while the interrupt is not executing, which is all there is to a
preemption. The queue's contents are abstracted to its length and `told`, the
roster that the console will have once everything queued has arrived; `DeviceDriver`
justifies "arrived in order".

**Adapter.** The roster is abstracted to the number of notices it may queue
(`Notify`, `Notice`). Each core has a label; a packet is its kind and, for an
identify chunk, its number. `Send` is `xboxh_send`. A transition of `handle_init`
and the chunk it answers with are separate steps, as `adapter_state` is read by
core 1 in between. The console is free: in each state it may send any packet the
handler tells apart.

**Drums.** `NoteOn(p)` is `note_on` for a note mapped to `p` and loud enough; a
softer or unmapped note changes nothing and is not a step. `Pass` is the rest of
`drum_task`. `console` is what the last report in the queue shows; `unseen` are the hits that came
while it showed their pad released and that no report has shown yet. A hit on a pad that `Lingers`,
released but not yet shown so, makes no edge: the pad's bit never goes back to 0. `ReleaseShown`
bounds how long a pad lingers. Elapsed times are `(now + Wrap - t) % Wrap`, as C computes them in
`uint32_t`. The queue is a choice: it takes the report or is full.

**SerialMidi.** A byte is its class (`get_type_from_status`) and a value.
`Spoken` reads the whole stream at once, without a counter: a message ends at every
second data byte after a note-on status that nothing but data has followed. That
is the definition of running status the parser is held against.

**DeviceDriver.** `ep_in` has four values: closed, idle, busy (given to the
hardware), done (sent, callback to come). `Offer` is the tail of `xboxd_send_task`;
a claim of an endpoint that is closed (`ep_in` is 0 then, which is the control
endpoint) and its release are left out, because no other line of the program looks at them. `Pending`, the refinement mapping, is what is in the
queue and, unless it is handled or sent, in the slot.

**UsbDevice.** The configuration descriptor is a sequence of interfaces and
endpoints. TinyUSB's walk is `at`: `xboxd_open` says how many descriptors it has taken
(`Take`), and 0, or a number that is bound already, stalls the configuration.
`OpenFirst` is the branch for subclass 0x47, `OpenOther` the loop over the settings
of the other two interfaces. That loop reads a pointer one behind the one it
advances; `Compared` says which descriptor it looks at. The console's frames are numbered and
sent in three sizes: shorter than a header, the shortest frame, full; `epout_buf` has the
bytes a transfer has taken and the frames that began in it. `XferCb` is
`xboxd_xfer_cb` for `ep_out` with the early return of `xboxd_packet_received_cb`.
`main.c` handles the frame the buffer begins with (`First`); a frame `Behind` it, for which only the first
transfer after a configuration has room, is `Overlooked`. A frame that came and is neither of these is `Lost`.
`Answer` is the answer to a control request: data, status, stall, or silence for the
vendor request (`wIndex` 5) that is accepted and never answered.

**Handshake.** Each action joins one of `Adapter` with what it does to its
partners: `SlotTask` moves the packet that `SendTask` takes from the queue into the slot,
`HandlePacket` consumes the console's packet. `Reaction` is the console: it waits for
an announcement, asks for the fragments one by one, takes a fragment only if its
offset continues what it has, exchanges `Rounds` packets with the controller and
accepts. It asks again when nothing is on the way, and `MaxEarly` times when
something is. `Offsets` and `Lengths` are the headers of `wla_identify1` to `7`.
Console and controller are not in the repository; they do what `main.c` expects,
and their mistakes are the ones listed at the head of the module.

**ControllerDriver.** `xboxh_set_config` is the path power report → wait →
(`xboxone_s_init`) → mount → poll on core 1; in "wait" core 1 executes other
callbacks (`InTask`), which is the nested `tuh_task`. On core 0 `xboxh_send`
reads the index and the address in either order, because C leaves the order of
evaluation of arguments open. It relays one of three packets: two that fit, so that one relayed
over the other would show, and one longer than `XBOX_ONE_EP_MAXPKTSIZE`, which `xboxh_send_report` turns
down (`Fits`).

**How they compose.** Three modules share the queue: `InstrumentManager` has its
mutex and length, `Adapter` its contents, `DeviceDriver` its reader. Each models
the others' effect on what it keeps as an action any time it can happen
(`Drain` and the other writers, `Notice`, `Write`), so it holds with any behaviour of the others.
`adapter_state` is `running` in `InstrumentManager`: written once, by
`Authenticated`, in both. `Handshake` is the composition proper: the state machine with
the slot behind its queue and both its partners, over the whole way from power-up
to RUNNING. There the packets that `Adapter` takes as free are those a console sends.

## 3. The runs

Every passing run ends without error and explores all reachable states of its
instance. States are distinct states.

| run | configuration | states | what it shows |
|---|---|---|---|
| roster | `InstrumentManager.cfg` | 548,549 | `NoSilentInstrument`, `RosterAgreement`, `TimerCoversSerial`, `NoGhostKit`, `MutexReleased`, `SilentKitDropped` |
| second_device | `InstrumentManagerSecondDevice.cfg` | – | violation, see 6 |
| handshake | `Adapter.cfg` | 1,677,454 | `OutPacketIntact`, `PhaseOrder`, `AtMostOneLateRaw`, `ChunkOrder` |
| send_without_controller | `HandshakeSend.cfg` | – | violation, see 6 |
| console_handshake | `Handshake.cfg` | 87,440 | `InStep`, `AnswerFits`, `GetsThrough` |
| drums | `Drums.cfg` | 207,081 | `NoSwallowedHit`, `ReleaseShown`, `ReportLatency`, `HoldBounded`, `HeldLongEnough`, `ConsoleInStep` |
| serial_midi | `SerialMidi.cfg` | 1,111,111 | `HearsWhatIsSpoken` |
| device | `DeviceDriver.cfg` | 529,315 | `HeldBounded`, `Delivery` (refinement), `DelayKept`, `Flushes` |
| usb_device | `UsbDevice.cfg` | 18,354 | `ConfiguredWhole`, `InterfacesServed`, `Listening`, `OutInOrder` |
| first_transfer | `UsbDeviceFirst.cfg` | – | violation, see 6 |
| controller | `ControllerDriver.cfg` | 174,300 | `EpoutIntact`, `MountedIsPolled`, `StaysUsable` |
| controller_removed | `ControllerDriverPoll.cfg` | – | violation, see 6 |

### Bounds, and why they are enough

* *InstrumentManager:* 2 instruments, 2 MIDI addresses, 1 queue slot. The scan
  needs one instrument besides `DRUMS` to pass over another before and after it;
  only `DRUMS` is ever connected by this code. Two addresses give "another
  device". One slot makes the queue full and empty, and the waiting for its mutex
  is the same for any size. The safety is proved for every value of all three (section 5), as
  is that of each of the modules below for every value its assumption allows; the bounds
  matter for liveness, and for the traces that a violation gives.
* *Adapter:* 3 chunks (the program has more): first, middle, last. Queue of 4:
  holds a full round of chunks and packets of two phases. 2 instruments: one
  notice and more than one.
* *Drums:* 2 pads (one released while the other is struck), hold 5, interval 1,
  gap 2, wrap 9. What the proportions keep of the program (hold 40, interval 4,
  2^32): an interval and two passes fit in a hold, and a hold does not fit in a wrap
  twice. `DrumsAssumption` states the first; for the real constants it says that a
  turn of the main loop takes at most 18 ms. The loop has no waits except the
  queue's mutex and the debug output; a build whose debug output makes a turn longer
  is outside the assumption, and there a hit can be released before any report shows it.
  Time starts anywhere (`now \in Times`), so that "the last report was long ago"
  covers every distance modulo the wrap.
* *SerialMidi:* all streams of up to 6 bytes of 5 classes and 2 values. The
  parser's state is a counter of 3 values and a message; six bytes are a status, two
  running-status messages and an interruption. `MaxBytes` bounds the history.
* *DeviceDriver:* 4 packets, 2 slots, 1 reset, wrap 4: a packet in the slot, two
  in the queue and one refused; a reset before, during and after a transfer. A reset
  leaves nothing behind but the queue, so that a second one meets no state that
  the first, which falls anywhere, did not. `MaxPackets` and `MaxResets` are
  the bounds. `age` and `held` stop counting just above the value their property
  compares them with.
* *UsbDevice:* the real descriptor, the real sizes. 3 frames: one that does not end the
  first transfer, one that does, one for the next. 2 resets, so that one falls before
  the device is configured again after the other.
* *Handshake:* the real list of 7 fragments; 3 rounds, a first, a middle and a last;
  1 early request; 2 resets; 4 queue slots. `HandshakeAssumption` wants
  `MaxEarly + MaxResets < FifoSize`: what the console asks for without waiting must not by
  itself fill the queue up to the authentication (the program has 16 slots).
* *ControllerDriver:* 2 addresses, so that a second controller is refused and an
  address differs from the one in use. `Relays` are two packets that fit and one that does not.

### Deadlock

TLC checks deadlock everywhere except in the two `InstrumentManager`
configurations (the alarm interrupt can stop core 0 for good, and core 1 at its
next write: the state `Wedged`, which `MutexReleased` and `SilentKitDropped` name as
their exception), that of `SerialMidi` (the stream ends at `MaxBytes`) and that of
`Handshake`'s two (once the adapter runs there is nothing more to do).

### What the exceptions in the properties mean

`RosterAgreement` holds for *orderly* histories. `orderly` becomes false when one of
these happened: two contexts were building the shared packet at the same
time; an instrument changed while another context was about to send a notice of
its earlier state; the queue refused a notice; the console asked for an
instrument that is not connected. Each of them really happens in this code and
really can leave a wrong roster on the console; the property says that there is no fifth
way. `NoSwallowedHit` and `ReleaseShown` are about reports the queue takes, `ConsoleInStep`
has the refused report, until the next one, `ChunkOrder` the refused chunk, and
`MutexReleased` the wedge: the interrupt in the middle of any of core 0's writes.

`GetsThrough` has two. `Deaf`: a bus reset after the adapter left INIT; it announces
in INIT only, and no packet takes it back there. `lost`: a packet of the
authentication was dropped, because the controller's endpoint was busy, the controller
was gone, or the queue was full (`AnswerFits` excludes the last); `main.c` repeats
nothing. `InStep` is about handshakes without a refused chunk and without a
reset; what happens with them is `GetsThrough`. In `StaysUsable` a controller may be
`TurnedAway`: a second one is not opened and not looked at again. Those are properties of the code as it is, not of
a better one.

## 4. Fairness

| module | assumed | why |
|---|---|---|
| InstrumentManager | WF of each context's next step, WF `AlarmFires` | both cores run endless loops, an interrupt runs to its end, a set alarm expires |
| | SF `Lock("alarm")` | while the interrupt waits core 0 executes nothing, so core 1 is its only rival: to miss every moment the mutex is free, core 1 would have to write a packet each time just then, and a write is short against the bus frames between a controller's packets |
| DeviceDriver | WF `Tick`, `SendTask`, `XferCb`, `xboxd_reset` | time passes and the main loop turns; `tud_task` executes callbacks for queued events |
| | WF `ConsoleTakes`, `xboxd_open` | a host polls the endpoints of a configured device and configures a device it has reset; nothing is assumed of a device without a host, resets being bounded |
| Handshake | SF `HandlePacket`, `SlotTask`, `Announce` | each turn of the main loop executes `tud_task`, `xboxd_send_task` and `announce_task`; between them core 0 is at another label, so WF would let the loop miss one for ever |
| | WF `Proceed`, `SendToController`, `Interval`, `RelayAnswer` | both cores go on, time passes |
| | WF `Plug`, `ControllerAnswers`, `ConsoleOn`, `ConsoleTakes`, `ConsoleSends`, `AskAgain` | a patient user, controller and console; `Unplug`, `AskEarly` and `BusReset` have none |
| ControllerDriver | WF `Core0`, `Core1` | both cores go on |
| | WF `OutDone(d)`, `Remove(d)` | TinyUSB ends every transfer, with an error if need be, and processes a removal |
| | SF `Enumerate(d)` | a device that stays on the bus is enumerated; it is not enabled while core 0 is in `xboxh_send` (below), which it is again and again |

`Enumerate` happens only while core 0 is not inside `xboxh_send`: an enumeration
takes many bus frames, a call of `xboxh_send` microseconds, so a call that
started before a removal is over before the next device is configured at the same
address. Without that assumption a stale address read by core 0 could be
used for a new device. A second assumption of that module: TinyUSB enumerates
one device at a time, so no enumeration begins inside `xboxh_set_config`.

## 5. The proofs

Eight modules have a proof module beside them. Each proves its theorems for every
value of the constants, from the assumptions the module states about them.

| module | assumption | theorems |
|---|---|---|
| `InstrumentManagerProofs` | `RosterAssumption` | `Typing`, `SerialTimer`, `NoInstrumentIsSilent`, `Agreement`, `NoKitIsGhost` |
| `AdapterProofs` | `AdapterAssumption` | `Typing`, `PacketIntact`, `OneLateRaw`, `InOrder`, `ChunksInSequence` |
| `HandshakeProofs` | those of `AdapterProofs`, `HandshakeAssumption`, `FragmentAssumption` | `IsAdapter`, `HandshakeTyping`, `AnswersFit`, `ChunksContinue` |
| `DrumsProofs` | `DrumsAssumption` | `Typing`, `HeldNoLonger`, `HeldNoShorter`, `ReportedInTime`, `EveryHitShown`, `ReleasesShown`, `ConsoleShows` |
| `DeviceDriverProofs` | `DriverAssumption` | `Typing`, `Implements`, `NotHeldBack`, `NotTooEarly` |
| `UsbDeviceProofs` | `DeviceAssumption` | `Typing`, `Configured`, `EveryInterfaceServed`, `AlwaysListening`, `HeardOnceInOrder` |
| `ControllerDriverProofs` | `ControllerAssumption` | `Typing`, `BufferIntact`, `Polled` |
| `SerialMidiProofs` | `StreamAssumption` | `Typing`, `HearsAll` |

With them every invariant, every action property and the refinement that a passing run
checks is also a theorem. TLC confirms the strengthenings named below on the instances of
section 3.

Every lemma `XStep` has one step per action; the frame lemmas (`GotoFrame`,
`ReturnFrame`, `WriteType`, ...) say once what an auxiliary operation does.

### InstrumentManagerProofs

For every number of instruments, USB-MIDI
addresses and queue slots (`RosterAssumption` says that all three are sets or
numbers of the right kind and that there is at least one instrument and one slot):

| theorem | statement |
|---|---|
| `Typing` | `Spec => []TypeOK` |
| `SerialTimer` | `Spec => []TimerCoversSerial` |
| `NoInstrumentIsSilent` | `Spec => []NoSilentInstrument` |
| `Agreement` | `Spec => []RosterAgreement` |
| `NoKitIsGhost` | `Spec => []NoGhostKit` |

None of the last four is inductive. The strengthenings, in the order in which they
are proved, each using those before it:

1. `TypeOK`. Inductive as it stands, because it bounds `frame[c].instrument`
   by the scan's range only while the scan is running.
2. `NestingInv` with `TimerCoversSerial`. How calls nest: only the thread scans and
   only to announce; a call by the interrupt ends in `Clear`. That last part is
   what makes the timer property inductive: the interrupt has consumed the
   alarm, so `drums_connected` is justified only by the interrupt being on its way to
   clear it.
3. `AnnounceInv`. While the adapter runs, a connected instrument that nobody has
   yet chosen to announce is either still ahead of the scan (`WillScan`), or a context has set
   its flag and has not yet read `adapter_state` (`WillRead`). `Authenticated`
   starts the scan at 0 in the step that sets `running`, which is why the
   argument works for a flag that was set any time before. When all contexts
   are out of the roster both disjuncts are false, and `NoSilentInstrument` follows.
4. `PacketInv`. In an orderly history at most one context is between `Copy` and
   `Push`, and what it has built so far belongs to its call.
5. `NoticeInv`. In an orderly history a context that has decided to send sends the
   truth: its direction is the instrument's flag.
6. `ToldInv`. In an orderly history, while running, for each instrument either
   a notice is on its way, or the scan will come to it, or the console is right.
   With nobody in the roster only the last is left: `RosterAgreement`.
7. `SourceInv`. The flag of the drums always has a reason: a serial kit, a USB kit, a
   serial kit about to be marked (`WillMark`), or a removal about to clear it (`WillDrop`).
   Once the interrupt has cleared the flag it has a reason other than the serial kit,
   which the interrupt is about to forget. `CallInv` says who calls with what before the
   flag is touched. When nobody is in the roster, `NoGhostKit` is what is left.

### AdapterProofs

Any number of chunks, instruments and queue slots.

1. `TypeOK`. Inductive with `ChunkType`: `identify_sequence` may stand one past
   the list, and starts over before it selects a chunk.
2. `StageInv` for `OutPacketIntact`. What a core is in the middle of fixes
   `adapter_state`: only core 0 writes it, so what core 0 has read stays true, and what
   core 1 has read stays true but for AUTHENTICATING becoming RUNNING. Core 0 has
   `out_packet` in hand only in INIT and IDENTIFYING, core 1 only in RUNNING: that is
   the whole of the mutual exclusion.
3. `LateInv` for `AtMostOneLateRaw`. A late packet is the one core 1 had in hand
   when the state changed, and once it is late core 1 can choose no other.
4. `OrderInv` for `PhaseOrder`. `RankInv`: nothing in the queue is of a phase
   that is still to come. What is appended is of the current phase (`StageInv`),
   or is the late raw packet, and what is removed is removed from the front.
5. `ChunkInv` for `ChunkOrder`. `SequenceInv` ties three things that are never equal
   at the same time: `identify_sequence`, the chunk in hand, the last chunk queued.
   Until a chunk is refused, the upcoming one follows the last one queued.

### HandshakeProofs

Any number of rounds, early requests, resets and queue slots such that
`MaxEarly + MaxResets < FifoSize`, for the program's list of fragments.

`IsAdapter` is the base: each action of the composition is, for the variables of
`Adapter`, one of its actions or a stutter. So the step lemmas of `AdapterProofs` hold for it
(`AdapterStep`), and with them `PhaseOrder`, `ChunkOrder` and the rest, for this
console and this controller. On top of that each action is first reduced to what it
does to the queue, the slot and the two partners (`ConsoleMoves`, `HandleMoves`, `Core0Steps`,
`ControllerMoves`, `SlotMoves`, `ChunkMoves`); the invariants' proofs use those lemmas.

1. `SlotInv`, `PartnerInv`. What is in the slot is of no phase to come; what the console
   and the controller are about to send fits what they are doing.
2. `AnnounceInv`. A packet in the slot other than an announcement means that the adapter
   has left INIT and that no announcement follows. So the console, which starts
   over at each announcement, never does after it has begun to authenticate.
3. `AuthInv`. There is only one packet of the authentication, wherever it is: with the console,
   in `epout_buf`, in core 0's hands, with the controller, in core 1's hands, in the
   slot or in the queue. Hence no second answer competes with it for a place in the queue.
4. `LoadInv`. Until the adapter runs, the packets behind the last announcement and
   the requests and answers not yet in the queue are at most one more than the early
   requests and the resets so far. When an answer is to be queued, announcements have
   gone (`AnnounceInv`), the answer itself is one of those counted, and the assumption on the
   constants leaves it a place: `AnswerFits`.
5. `FreshInv`, `FollowInv`, `StepInv` for `InStep`. A console that has not heard of the
   adapter has asked for nothing, and the list starts at 0; the chunk behind the one in the
   slot is its successor; and the next chunk on its way, be it in the slot, the
   first chunk in the queue, or the one `Upcoming`, begins where the console's bytes end.

### DrumsProofs

Any number of pads, hold, interval, gap between passes and wrap, within `DrumsAssumption`.
The true times (`age`, `waiting`) are history; the program only has a counter that wraps.

1. `Difference` and `SinceTick`: the difference in unsigned arithmetic grows by one with each tick
   until it would reach the wrap.
2. `AgeInv` for `HoldBounded` and `HeldLongEnough`. Of a pad that is held the computed
   time is the true one, and passes come often enough to keep it below the wrap.
3. `WaitInv` for `ReportLatency`. The last report may lie any number of wraps back, so
   the computed time since then says nothing at first. But once one pass has found it
   too early, it grows with the waiting, and the pass at which it is enough comes in time.
4. `UnseenInv` for `NoSwallowedHit`. A hit that makes an edge and that no report has shown is
   itself a change that waits, and no longer than the hold.
5. `LingerInv` for `ReleaseShown`. A released pad that the console still shows is itself a change
   that waits, at least as long as it has lingered; `ReportLatency` bounds that.
6. `ConsoleInStep` is inductive with `TypeOK`, because a pass rebuilds the report from
   `triggered` before it compares.

### DeviceDriverProofs

Any number of packets, resets and slots, any delay and wrap within `DriverAssumption`.

1. `Implements`, the refinement of `PacketChannel`: `ChannelStep` maps each action under
   `Pending`. A write is an `Accept`, or nothing when the queue refuses it;
   `xboxd_send_task` moves a packet from the queue into the slot and so changes nothing
   abstractly; the console taking the packet is the `Deliver`, and a callback
   that then marks it as handled is a stutter; a reset is a `Reset` that costs what the
   slot had, if the console has not got it.
2. `HeldInv` for `HeldBounded`, by the argument of `WaitInv`: a first pass can be too early
   for any stamp, and from then on the computed delay is bound to the true one.
3. `StampInv` for `DelayKept`. A packet is `Timed` if its computed age is the true one, or
   its delay is over anyway, or it has the stamp 0 and no delay to keep. Every packet in the
   queue and in the slot is `Timed`.

### UsbDeviceProofs

Any number of frames and of resets, for the program's descriptor.

1. `WalkInv` for `ConfiguredWhole`, `InterfacesServed` and `Listening`. The walk stands at the
   descriptors 1, 4 and 8, and binds one interface at each; a reset undoes all of it. Here
   `Compared`, the pointer one behind, turns out to be harmless for this descriptor: at 4 and at
   8 the loop takes exactly what belongs to the interface.
2. `BufferInv`. A transfer that goes on has taken nothing, or one full packet into
   the longer first transfer.
3. `FrameInv`. The frames in `epout_buf` come after all that were handed over: `HeardInOrder`.
4. `LostInv`. The frames that are neither handed over nor in the buffer are at most as many
   as the resets, as no buffer that a reset clears has more than one.
5. `OverlookedInv`. Only a first transfer goes on behind a frame. As long as it is `Fresh`, that is, to be
   given yet or without a second frame, no more frames are overlooked than there were
   resets; then one more, until the next reset. With the two before, that is `OutInOrder`.

### ControllerDriverProofs

Any set of USB addresses.

1. `PlaceInv`, with `TypeOK`: where the cores can be and for whom. From the
   lookup on, core 0's address is a real one and is the one in use, unless that was
   removed since.
2. `ClaimInv` for `EpoutIntact`. A core that fills the buffer of the controller in
   use has its claim, a claimed endpoint sends nothing, and an address with no device
   has neither. So two cores never fill the buffer for the same controller, and a
   core that fills it for one that has gone (whose claim is void) harms nothing: that
   is why both facts speak of the controller *in use* only.
3. `MountInv` for `MountedIsPolled`. Until a removal is processed inside
   `xboxh_set_config` (`interrupted`), the controller being configured keeps its
   place, and `main.c` has no controller before the mount callback.

### SerialMidiProofs

Streams of any length, over any set of values. `HearsWhatIsSpoken` compares a
program that keeps a counter with a definition that reads the whole stream.

1. `ParserInv` says what the counter means: 0 exactly if no note-on is open at
   the end of the stream, otherwise one more than the parity of the distance to the open
   one, whose bytes so far are in `note_on_message`.
2. `OneOpen`: at most one note-on is open at a place. `AppendSpoken`: one byte more
   adds to what the stream says the message that byte ends, or nothing.
3. Four lemmas, one for each way through the loop's body (`ReadNothing`,
   `ReadNoteOn`, `ReadFirst`, `ReadSecond`).

### Model-checked only

The five liveness properties: `MutexReleased`, `SilentKitDropped`, `Flushes`, `StaysUsable` and
`GetsThrough`. They need fairness and ENABLED, which are out of the prover's reach. The
violations of section 6 are traces, for TLC by nature.

## 6. Disagreements found

Each has a run that shows it with a shortest trace.

* `second_device`. `drums.c:190` says of `midi_dev_addr == 0` "then no MIDI device
  is currently connected". With two USB kits, unplugging the first leaves the address 0
  and the second kit on the bus; it is not adopted and not read until it is plugged
  in again.
* `send_without_controller`. `xbox_controller_driver.c:57` asserts
  `idx < XBOX_MAX_CONTROLLERS`. `xboxh_send` (`main.c:39`) passes
  `xbox_controller_idx` unchecked; without a controller it is `UINT8_MAX`. In the trace the
  controller is there when the adapter announces itself and is unplugged when the console
  has begun to identify it. The fragments need no controller; the first packet of the
  authentication is relayed to index 255.
* `controller_removed`. `xbox_controller_driver.c:272` asserts that the controller
  just mounted can be polled. When the nested `tuh_task` of `xboxh_set_config`
  has processed its removal the assertion fails, and, because unmount came
  before mount, `main.c` keeps a controller that is gone: `xbox_controller_idx` is
  then never `UINT8_MAX` again until a removal at that same address.

* `first_transfer`. `xbox_one_protocol.h:52` calls 64 bytes, the size of the buffer,
  "Max size for data via USB", and every later transfer asks for that. The first, in
  `xboxd_open` (`xbox_device_driver.c:168`), asks for `sizeof(p_xinput->epout_buf)`, the
  70 bytes of the whole structure. A full first packet therefore does not end it; the second
  packet's first bytes land in `length`, `triggered_time` and `handled` behind the
  buffer, and `xboxd_packet_received_cb` is called once for both. `handle_xboxd_packet`
  (`main.c:170-194`) handles the first frame; the second is overlooked. `OutInOrder` counts those:
  at most one for each configuration.

Not a disagreement with a statement of the repository, but what the models say of
the code: the alarm interrupt waiting for a mutex its own core holds (`Wedged`), and
the four ways a roster can go wrong named in section 3, the undefined MIDI status
bytes F4, F5 and FD, which the parser stores as note numbers or velocities
(`get_type_from_status` puts them together with the data bytes), and a reset of the
identification, which starts the list where it stood, and an adapter that a bus reset leaves `Deaf`.

Two things seen while reading, which no model here is about:
`fill_drum_input_from_controller` sets `frame.type` to the controller's `deviceId`
(`xbox_one_protocol.c:34`), and `drum_task` looks only at the first of the messages
that a read from the USB kit may return (`drums.c:142`).

## 7. What is not modelled

* The bytes of the device descriptor, the strings, the attributes, the
  fragments beyond their headers, the packet layouts, the note table, LED and debug
  output. No property here depends on them.
* The parsing of the controller's descriptors in `xboxh_open`: what a real
  controller says of itself is not in the repository.
* The claim of the control endpoint while the device is not configured
  (`xbox_device_driver.c:77`), and its release: what TinyUSB does with it is not in the repository.
* The sequence number of `init_packet`, incremented by all contexts with no lock
  (`xbox_one_protocol.c:10`); two packets can carry the same one, and nothing in the
  repository says what the console makes of that.
* TinyUSB, usb_midi_host and the Pico SDK: modelled only as the events they cause. So
  are the number of messages a read returns and the UART's receive queue with its
  overflow.
* Two kits as two sources of hits: `Drums` takes a hit from anywhere.
* The host driver table and the board headers: constants.

## 8. The plan

Order of work, most important behaviour first. Done: items 1 to 17.

1. `InstrumentManager`: the one component that three contexts execute.
2. `InstrumentManagerProofs`.
3. `Adapter`: the handshake on both cores.
4. `Drums`: time and its wrap.
5. `SerialMidi` against the stream read as a whole.
6. `PacketChannel`, `DeviceDriver`: the refinement.
7. `ControllerDriver`: nested callbacks.
8. `AdapterProofs`.
9. `ControllerDriverProofs`.
10. `SerialMidiProofs`.
11. `UsbDevice`: the rest of the device driver with the descriptors.
12. `Handshake`: the composition, with liveness.
13. `NoGhostKit` and its proof.
14. `DeviceDriverProofs`: `Spec => Channel!Spec` for any number of slots.
15. `DrumsProofs`: the six timing properties under `DrumsAssumption`.
16. `UsbDeviceProofs`: the walk and `OutInOrder` for any number of frames and resets.
17. `HandshakeProofs`: `AnswerFits` for any number of rounds and slots, `InStep`.
18. Next: the safety that the liveness properties stand on, as invariants to check and to
    prove (which states wait for whom); `Handshake` with an abstract description of
    its phases; more of the descriptors' and the drum table's code.

## 9. How to run

`tlc -config X.cfg M` with the module and configuration of the table in section 3
(`M` is the configuration's name without `SecondDevice`, `Send`, `Poll` or `First`), and `tlapm M.tla` for a proof module `M`
(`InstrumentManagerProofs` and `HandshakeProofs` take about a minute each, the others seconds). `PROJECT.json` has, in machine
readable form, the runs, for every definition the lines of code it models, for every
property a mutant that breaks it, and the list of hazards the properties are for.
