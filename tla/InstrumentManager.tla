------------------------- MODULE InstrumentManager -------------------------
(***************************************************************************)
(* The roster of connected instruments (instrument_manager.c), its callers *)
(* in drums.c, midi.c and main.c, and the write side of the packet queue   *)
(* (generic_fifo.h, packet_queue.c).                                       *)
(*                                                                         *)
(* Three contexts execute this code with no lock around it:                *)
(*   main   core 0: xboxd_packet_received_cb and drum_task                 *)
(*   alarm  core 0: the hardware-alarm interrupt; main is frozen under it  *)
(*   host   core 1: tuh_task, which calls the USB-MIDI callbacks           *)
(* They share connected_instruments, the file-static out_packet, and the   *)
(* queue's write mutex. A step below is one access to shared memory.       *)
(*                                                                         *)
(* The queue is kept as its length plus told, the instruments the Xbox     *)
(* will believe connected once everything queued has been delivered.       *)
(***************************************************************************)
EXTENDS Naturals

CONSTANTS
  NInstruments,  \* N_INSTRUMENTS; instruments are numbered from 0, DRUMS last
  MidiDevices,   \* the USB addresses a MIDI device can be given
  FifoSize       \* XBOX_FIFO_SIZE

ASSUME RosterAssumption ==
  /\ NInstruments \in Nat \ {0}
  /\ MidiDevices \subseteq Nat \ {0}
  /\ FifoSize \in Nat \ {0}

Instruments == 0 .. NInstruments - 1
DRUMS       == NInstruments - 1
Contexts    == {"main", "alarm", "host"}

CMD_ADD_PLAYER  == "add"
CMD_DROP_PLAYER == "drop"

VARIABLES
  running,                \* adapter_state = STATE_RUNNING
  connected_instruments,  \* the set of instruments whose flag is 1
  out_packet,             \* the one packet every notification is built in
  frame,                  \* per context: where it is, and its arguments
  wr_mutex,               \* holder of the queue's write mutex, or "free"
  queued,                 \* packets in the queue
  drums_connected,        \* midi.c: a serial kit has been heard
  alarm_armed,            \* the disconnect alarm is set
  midi_dev_addr,          \* drums.c: the USB-MIDI device in use, 0 if none
  mounted,                \* the MIDI devices on the bus (usbh's own state)
  told,                   \* history: what the Xbox believes after delivery
  announced,              \* history: connected instruments a context chose to announce
  orderly                 \* history: none of the hazards of Disturb has happened

queueVars  == <<wr_mutex, queued, told>>
serialVars == <<drums_connected, alarm_armed>>
usbVars    == <<midi_dev_addr, mounted>>
vars == <<running, connected_instruments, out_packet, frame, queueVars,
          serialVars, usbVars, announced, orderly>>

-----------------------------------------------------------------------------
(* Control state.  "check", "set", "state" are connect_instrument and      *)
(* disconnect_instrument up to the adapter_state test; "copy", "tail" are  *)
(* the memcpy of grab_packet (command first, then the bytes with the       *)
(* instrument); "lock", "push" are xbox_fifo_write; "scan" is the loop of  *)
(* notify_xbox_of_all_instruments; "wait", "write" are xbox_fifo_write of   *)
(* another packet; the rest belongs to the callers.                        *)

Labels == {"idle", "check", "set", "state", "copy", "tail", "lock", "push",
           "scan", "mark", "rearm", "clear", "wait", "write"}
Returns == {"idle", "mark", "clear", "scan"}

Enter(pc, i, on, then) == [pc |-> pc, instrument |-> i, connect |-> on, then |-> then]

\* A context that is in none of the roster's functions.
Outside(pc) == Enter(pc, DRUMS, FALSE, "idle")
Idle == Outside("idle")

\* Core 0 executes the alarm handler before it resumes the thread.
At(c, pc) == /\ frame[c].pc = pc
             /\ c = "main" => frame["alarm"].pc = "idle"

Goto(c, pc) == frame' = [frame EXCEPT ![c].pc = pc]

Leave(c, pc) == frame' = [frame EXCEPT ![c] = Outside(pc)]

\* Begin to connect (announce) or disconnect (drop) instrument i, then go on.
Connecting(c, pc, i, then) == frame' = [frame EXCEPT ![c] = Enter(pc, i, TRUE, then)]
Disconnecting(c, i, then)  == frame' = [frame EXCEPT ![c] = Enter("check", i, FALSE, then)]

\* What a context does once connect/disconnect/notify has returned to it.
ReturnTo(f) ==
  IF f.then = "scan"
  THEN Enter("scan", f.instrument + 1, f.connect, "scan")
  ELSE Outside(f.then)

Return(c) == frame' = [frame EXCEPT ![c] = ReturnTo(@)]

Committed == {"state", "copy", "tail", "lock", "push"}
Building  == {"tail", "lock", "push"}

Init ==
  /\ running = FALSE
  /\ connected_instruments = {}
  /\ out_packet = [command |-> "none", instrument |-> 0]
  /\ frame = [c \in Contexts |-> Idle]
  /\ wr_mutex = "free"
  /\ queued = 0
  /\ drums_connected = FALSE
  /\ alarm_armed = FALSE
  /\ midi_dev_addr = 0
  /\ mounted = {}
  /\ told = {}
  /\ announced = {}
  /\ orderly = TRUE

-----------------------------------------------------------------------------
(* connect_instrument(i) and disconnect_instrument(i): frame[c].connect     *)
(* tells which.                                                            *)

\* if (connected_instruments[instrument]) return;   (or its negation)
Check(c) ==
  /\ At(c, "check")
  /\ IF (frame[c].instrument \in connected_instruments) = frame[c].connect
     THEN Return(c)
     ELSE Goto(c, "set")
  /\ UNCHANGED <<running, connected_instruments, out_packet, queueVars,
                 serialVars, usbVars, announced, orderly>>

\* An instrument changes while another context has already decided to tell
\* the Xbox about it: their packets may be queued in the other order.
ChangesUnderNotice(c) ==
  \E d \in Contexts \ {c} :
    /\ frame[d].pc \in Committed
    /\ frame[d].instrument = frame[c].instrument
    /\ (frame[c].instrument \in connected_instruments) # frame[c].connect

\* connected_instruments[instrument] = 1;   (or 0)
Set(c) ==
  /\ At(c, "set")
  /\ connected_instruments' = IF frame[c].connect
                              THEN connected_instruments \union {frame[c].instrument}
                              ELSE connected_instruments \ {frame[c].instrument}
  /\ announced' = announced \ {frame[c].instrument}
  /\ orderly' = (orderly /\ ~ChangesUnderNotice(c))
  /\ Goto(c, "state")
  /\ UNCHANGED <<running, out_packet, queueVars, serialVars, usbVars>>

\* if (adapter_state != STATE_RUNNING) return;
State(c) ==
  /\ At(c, "state")
  /\ \/ /\ running
        /\ announced' = IF frame[c].connect
                        THEN announced \union {frame[c].instrument}
                        ELSE announced
        /\ Goto(c, "copy")
     \/ /\ ~running
        /\ Return(c)
        /\ UNCHANGED announced
  /\ UNCHANGED <<running, connected_instruments, out_packet, queueVars,
                 serialVars, usbVars, orderly>>

-----------------------------------------------------------------------------
(* grab_packet(&out_packet, instrument, connect), then                     *)
(* xbox_fifo_write(&out_packet).                                           *)

\* Mutant: disconnect_instrument sends the notice of a connect.
AlwaysAdds(f) == CMD_ADD_PLAYER

CommandOf(f) == IF f.connect THEN CMD_ADD_PLAYER ELSE CMD_DROP_PLAYER

\* Another context is between its grab_packet and its xbox_fifo_write.
SharesPacket(c) == \E d \in Contexts \ {c} : frame[d].pc \in Building

Copy(c) ==
  /\ At(c, "copy")
  /\ out_packet' = [out_packet EXCEPT !.command = CommandOf(frame[c])]
  /\ orderly' = (orderly /\ ~SharesPacket(c))
  /\ Goto(c, "tail")
  /\ UNCHANGED <<running, connected_instruments, queueVars, serialVars,
                 usbVars, announced>>

Tail(c) ==
  /\ At(c, "tail")
  /\ out_packet' = [out_packet EXCEPT !.instrument = frame[c].instrument]
  /\ orderly' = (orderly /\ ~SharesPacket(c))
  /\ Goto(c, "lock")
  /\ UNCHANGED <<running, connected_instruments, queueVars, serialVars,
                 usbVars, announced>>

\* tu_fifo_write takes the write mutex and waits for it without a timeout.
Lock(c) ==
  /\ At(c, "lock")
  /\ wr_mutex = "free"
  /\ wr_mutex' = c
  /\ Goto(c, "push")
  /\ UNCHANGED <<running, connected_instruments, out_packet, queued, told,
                 serialVars, usbVars, announced, orderly>>

\* What the Xbox makes of a packet.
Believe(S, p) == IF p.command = CMD_ADD_PLAYER
                 THEN S \union {p.instrument} ELSE S \ {p.instrument}

\* Mutant: the room left is counted one too high.
FullTooLate == queued > FifoSize

Full == queued >= FifoSize

\* Mutant: the early return of a refused write skips the unlock.
KeepsMutexWhenFull(c) == IF Full THEN c ELSE "free"

AfterWrite(c) == "free"

\* A full queue refuses the packet (overwritable is false) and every caller
\* ignores the result.
Push(c) ==
  /\ At(c, "push")
  /\ \/ /\ ~Full
        /\ queued' = queued + 1
        /\ told' = Believe(told, out_packet)
        /\ UNCHANGED orderly
     \/ /\ Full
        /\ orderly' = FALSE
        /\ UNCHANGED <<queued, told>>
  /\ wr_mutex' = AfterWrite(c)
  /\ Return(c)
  /\ UNCHANGED <<running, connected_instruments, out_packet, serialVars,
                 usbVars, announced>>

-----------------------------------------------------------------------------
(* notify_xbox_of_all_instruments: one iteration of its loop.              *)

\* Mutant: the loop stops before the last instrument.
StopsEarly(i) == i >= NInstruments - 1

ScanDone(i) == i >= NInstruments

Scan(c) ==
  LET i == frame[c].instrument IN
  /\ At(c, "scan")
  /\ \/ /\ ScanDone(i)
        /\ Leave(c, "idle")
        /\ UNCHANGED announced
     \/ /\ ~ScanDone(i)
        /\ i \notin connected_instruments
        /\ Return(c)
        /\ UNCHANGED announced
     \/ /\ ~ScanDone(i)
        /\ i \in connected_instruments
        /\ Goto(c, "copy")
        /\ announced' = announced \union {i}
  /\ UNCHANGED <<running, connected_instruments, out_packet, queueVars,
                 serialVars, usbVars, orderly>>

-----------------------------------------------------------------------------
(* The other writers: core 0 queues announcements, identification and drum *)
(* reports, core 1 what it relays from the controller.  Their packets say  *)
(* nothing of instruments, but take the mutex and the room in the queue.   *)

BeginWrite(c) ==
  /\ At(c, "idle")
  /\ Goto(c, "wait")
  /\ UNCHANGED <<running, connected_instruments, out_packet, queueVars,
                 serialVars, usbVars, announced, orderly>>

LockOther(c) ==
  /\ At(c, "wait")
  /\ wr_mutex = "free"
  /\ wr_mutex' = c
  /\ Goto(c, "write")
  /\ UNCHANGED <<running, connected_instruments, out_packet, queued, told,
                 serialVars, usbVars, announced, orderly>>

PushOther(c) ==
  /\ At(c, "write")
  /\ queued' = IF Full THEN queued ELSE queued + 1
  /\ wr_mutex' = AfterWrite(c)
  /\ Goto(c, "idle")
  /\ UNCHANGED <<running, connected_instruments, out_packet, told, serialVars,
                 usbVars, announced, orderly>>

-----------------------------------------------------------------------------
(* Core 0, thread.                                                         *)

\* handle_auth: the console accepts; the state changes, then the roster is sent.
Authenticated ==
  /\ At("main", "idle")
  /\ ~running
  /\ running' = TRUE
  /\ Connecting("main", "scan", 0, "scan")
  /\ UNCHANGED <<connected_instruments, out_packet, queueVars, serialVars,
                 usbVars, announced, orderly>>

\* handle_running: CMD_LIST_CONNECTED_INSTRUMENTS.
ListConnected ==
  /\ At("main", "idle")
  /\ running
  /\ Connecting("main", "scan", 0, "scan")
  /\ UNCHANGED <<running, connected_instruments, out_packet, queueVars,
                 serialVars, usbVars, announced, orderly>>

\* handle_running: CMD_LIST_INSTRUMENT.  The instrument is announced whether
\* or not it is connected; a number out of range is ignored.
ListInstrument(i) ==
  /\ At("main", "idle")
  /\ running
  /\ Connecting("main", "copy", i, "idle")
  /\ orderly' = (orderly /\ i \in connected_instruments)
  /\ UNCHANGED <<running, connected_instruments, out_packet, queueVars,
                 serialVars, usbVars, announced>>

\* serial_midi_read, called from drum_task when running, gets a status byte.
StatusByte ==
  /\ At("main", "idle")
  /\ running
  /\ IF drums_connected THEN Leave("main", "rearm")
                        ELSE Connecting("main", "check", DRUMS, "mark")
  /\ UNCHANGED <<running, connected_instruments, out_packet, queueVars,
                 serialVars, usbVars, announced, orderly>>

\* Mutant: only a kit that was connected before restarts the timer.
IdleAfterMark == "idle"

\* reset_disconnect_timer() runs for every status byte, the first included.
AfterMark == "rearm"

\* drums_connected = true;
Mark ==
  /\ At("main", "mark")
  /\ drums_connected' = TRUE
  /\ Goto("main", AfterMark)
  /\ UNCHANGED <<running, connected_instruments, out_packet, queueVars,
                 alarm_armed, usbVars, announced, orderly>>

\* reset_disconnect_timer()
Rearm ==
  /\ At("main", "rearm")
  /\ alarm_armed' = TRUE
  /\ Leave("main", "idle")
  /\ UNCHANGED <<running, connected_instruments, out_packet, queueVars,
                 drums_connected, usbVars, announced, orderly>>

\* xboxd_send_task takes a packet off the queue (the reader needs no mutex).
Drain ==
  /\ At("main", "idle")
  /\ queued > 0
  /\ queued' = queued - 1
  /\ UNCHANGED <<running, connected_instruments, out_packet, frame, wr_mutex,
                 told, serialVars, usbVars, announced, orderly>>

-----------------------------------------------------------------------------
(* Core 0, interrupt: on_disconnect_timeout_cb.  It can preempt the thread *)
(* between any two of its steps.                                           *)

\* Mutant: the interrupt forgets the kit but does not disconnect it.
OnlyForgets == Leave("alarm", "clear")

DisconnectSerial == Disconnecting("alarm", DRUMS, "clear")

AlarmFires ==
  /\ frame["alarm"].pc = "idle"
  /\ alarm_armed
  /\ alarm_armed' = FALSE
  /\ IF drums_connected THEN DisconnectSerial ELSE UNCHANGED frame
  /\ UNCHANGED <<running, connected_instruments, out_packet, queueVars,
                 drums_connected, usbVars, announced, orderly>>

\* drums_connected = false;
Clear ==
  /\ At("alarm", "clear")
  /\ drums_connected' = FALSE
  /\ Leave("alarm", "idle")
  /\ UNCHANGED <<running, connected_instruments, out_packet, queueVars,
                 alarm_armed, usbVars, announced, orderly>>

-----------------------------------------------------------------------------
(* Core 1: the USB-MIDI callbacks.                                         *)

\* tuh_midi_mount_cb.  A second device is left alone.
MidiMount(d) ==
  /\ At("host", "idle")
  /\ d \notin mounted
  /\ mounted' = mounted \union {d}
  /\ IF midi_dev_addr = 0
     THEN /\ midi_dev_addr' = d
          /\ Connecting("host", "check", DRUMS, "idle")
     ELSE UNCHANGED <<midi_dev_addr, frame>>
  /\ UNCHANGED <<running, connected_instruments, out_packet, queueVars,
                 serialVars, announced, orderly>>

\* tuh_midi_umount_cb
MidiUnmount(d) ==
  /\ At("host", "idle")
  /\ d \in mounted
  /\ mounted' = mounted \ {d}
  /\ IF d = midi_dev_addr
     THEN /\ midi_dev_addr' = 0
          /\ Disconnecting("host", DRUMS, "idle")
     ELSE UNCHANGED <<midi_dev_addr, frame>>
  /\ UNCHANGED <<running, connected_instruments, out_packet, queueVars,
                 serialVars, announced, orderly>>

-----------------------------------------------------------------------------
\* What a context that is inside a call does next.
Roster(c) == \/ Check(c) \/ Set(c) \/ State(c) \/ Copy(c) \/ Tail(c)
             \/ Lock(c) \/ Push(c) \/ Scan(c)

Writes(c) == LockOther(c) \/ PushOther(c)

Main == \/ Roster("main") \/ Writes("main") \/ Mark \/ Rearm
Alarm == \/ Roster("alarm") \/ Clear
Host == \/ Roster("host") \/ Writes("host")

\* What the console, the kits, the controller and the USB bus may start.
Environment == \/ Authenticated \/ ListConnected \/ StatusByte \/ Drain
               \/ BeginWrite("main") \/ BeginWrite("host")
               \/ \E i \in Instruments : ListInstrument(i)
               \/ \E d \in MidiDevices : MidiMount(d) \/ MidiUnmount(d)

Next == Main \/ Alarm \/ Host \/ AlarmFires \/ Environment

Spec == Init /\ [][Next]_vars

\* Both cores keep executing and an alarm that stays armed fires.  The interrupt,
\* when it spins on a mutex which is free again and again, gets it: core 1 holds
\* it for the copy of a packet and does much else before it writes once more.
FairSpec == Spec /\ WF_vars(Main) /\ WF_vars(Alarm) /\ WF_vars(Host)
                 /\ WF_vars(AlarmFires) /\ SF_vars(Lock("alarm"))

-----------------------------------------------------------------------------
Packets == [command : {"none", CMD_ADD_PLAYER, CMD_DROP_PLAYER}, instrument : Instruments]

Frames == [pc : Labels, instrument : 0 .. NInstruments, connect : BOOLEAN, then : Returns]

\* Every variable has its type; in particular the queue never holds more
\* packets than it has room for and the scan never runs past N_INSTRUMENTS.
TypeOK ==
  /\ running \in BOOLEAN
  /\ connected_instruments \in SUBSET Instruments
  /\ out_packet \in Packets
  /\ frame \in [Contexts -> Frames]
  /\ \A c \in Contexts : frame[c].pc # "scan" => frame[c].instrument \in Instruments
  /\ wr_mutex \in Contexts \union {"free"}
  /\ queued \in 0 .. FifoSize
  /\ drums_connected \in BOOLEAN
  /\ alarm_armed \in BOOLEAN
  /\ midi_dev_addr \in MidiDevices \union {0}
  /\ mounted \in SUBSET MidiDevices
  /\ told \in SUBSET Instruments
  /\ announced \in SUBSET Instruments
  /\ orderly \in BOOLEAN

InRoster(c) ==
  frame[c].pc \notin {"idle", "mark", "rearm", "clear", "wait", "write"}
Quiet == \A c \in Contexts : ~InRoster(c)

\* An instrument that connects on one core while the console is being
\* authenticated on the other is announced by one of them: connect_instrument
\* sets the flag before it reads adapter_state, handle_auth writes adapter_state
\* before it reads the flags, so they cannot both miss the other.
NoSilentInstrument ==
  running /\ Quiet => connected_instruments \subseteq announced

\* Unless two contexts shared the packet, an instrument changed under a notice
\* about it, a packet was refused, or the console asked about an instrument that
\* is not there, the console's idea of the roster is the adapter's: no sequence
\* of connects, drops, queries and timeouts, on any of the contexts, leaves a
\* stale player behind.
RosterAgreement ==
  orderly /\ running /\ Quiet => told = connected_instruments

\* A serial kit that is taken to be connected always has a running disconnect
\* timer, or the thread is about to start it, or the interrupt is about to
\* disconnect it: the interrupt can fall anywhere in serial_midi_read and the
\* kit is still dropped when it goes silent.
TimerCoversSerial ==
  drums_connected => \/ alarm_armed
                     \/ frame["main"].pc = "rearm"
                     \/ frame["alarm"].pc # "idle"

\* The flag of the drums is shared by the serial kit and the USB kit, and each
\* source connects and disconnects without looking at the other: the flag may be
\* missing while a kit is there, but it is never left behind without one.
NoGhostKit ==
  /\ Quiet /\ frame["main"].pc # "mark"
  /\ DRUMS \in connected_instruments
  => drums_connected \/ midi_dev_addr # 0

\* The alarm interrupt waits for the mutex that the thread it froze holds.
Wedged == wr_mutex = "main" /\ frame["alarm"].pc = "lock"

\* The write mutex is always given back, with one exception: the disconnect
\* alarm interrupting an xbox_fifo_write on core 0, of a notice or of any other
\* packet (Wedged).  No other nesting of the three contexts keeps the queue locked.
MutexReleased == (wr_mutex # "free") ~> (wr_mutex = "free" \/ Wedged)

\* A serial kit that falls silent is eventually taken to be disconnected,
\* unless the interrupt that does it is wedged.
SilentKitDropped ==
  <>[](frame["main"].pc # "rearm")
     => (drums_connected ~> (~drums_connected \/ Wedged))

\* drums.c:190 says of midi_dev_addr == 0: "then no MIDI device is currently
\* connected".
NoAddrMeansNoDevice == midi_dev_addr = 0 => mounted = {}

=============================================================================
