------------------------------ MODULE Adapter ------------------------------
(***************************************************************************)
(* The adapter's handshake with the console (main.c): announce, identify,  *)
(* authenticate by relaying between the console and a real controller,     *)
(* then run.                                                               *)
(*                                                                         *)
(* Core 0 executes the main loop: it receives the console's packets,       *)
(* announces, and empties the packet queue.  Core 1 executes tuh_task: it  *)
(* mounts the controller and receives its packets.  Both build packets in  *)
(* main.c's out_packet, both write the queue, and nothing orders them but  *)
(* adapter_state.  A step below is one access to a variable they share;    *)
(* xbox_fifo_write is one step, its mutex keeps two writes apart           *)
(* (InstrumentManager has the mutex).                                      *)
(*                                                                         *)
(* A packet is its kind and, for an identify chunk, which chunk it is.     *)
(***************************************************************************)
EXTENDS Naturals, Sequences

CONSTANTS
  NChunks,       \* identifiers_get_n(): the packets of the identify answer
  NInstruments,  \* N_INSTRUMENTS
  FifoSize       \* XBOX_FIFO_SIZE

ASSUME AdapterAssumption ==
  /\ NChunks \in Nat \ {0}
  /\ NInstruments \in Nat \ {0}
  /\ FifoSize \in Nat \ {0}

VARIABLES
  adapter_state,
  identify_sequence,
  xbox_controller_idx,  \* 0, or NoController for UINT8_MAX
  out_packet,
  fifo,                 \* the packet queue
  announce_due,         \* ANNOUNCE_INTERVAL_MS have passed
  core0, core1,         \* where each core is
  refused,              \* history: a full queue refused an identify chunk
  late                  \* history: raw controller packets queued while running

vars == <<adapter_state, identify_sequence, xbox_controller_idx, out_packet,
          fifo, announce_due, core0, core1, refused, late>>

States == {"NONE", "INIT", "IDENTIFYING", "AUTHENTICATING", "RUNNING"}

NoController == 255
XBOX_MAX_CONTROLLERS == 1

Packet(kind) == [kind |-> kind, n |-> 0]
Chunk(k)     == [kind |-> "chunk", n |-> k]

Labels0 == {"init", "loop", "identify", "write", "auth", "notify", "send"}
Labels1 == {"idle", "raw", "guide", "fill", "write"}

\* Core 0: where it is, the notices it may still queue, and where to go then.
At0(pc)               == core0.pc = pc
Goto0(pc)             == core0' = [core0 EXCEPT !.pc = pc]
NotifyThen(max, then) == core0' = [pc |-> "notify", left |-> max, then |-> then]

Init ==
  /\ adapter_state = "NONE"
  /\ identify_sequence = 0
  /\ xbox_controller_idx = NoController
  /\ out_packet = Packet("zero")
  /\ fifo = <<>>
  /\ announce_due = FALSE
  /\ core0 = [pc |-> "init", left |-> 0, then |-> "loop"]
  /\ core1 = "idle"
  /\ refused = FALSE
  /\ late = 0

-----------------------------------------------------------------------------
\* A full queue refuses the packet, and no caller looks at the result.
Written(p) == IF Len(fifo) < FifoSize THEN Append(fifo, p) ELSE fifo

xbox_fifo_write(p) ==
  /\ fifo' = Written(p)
  /\ refused' = (refused \/ (p.kind = "chunk" /\ Len(fifo) >= FifoSize))

-----------------------------------------------------------------------------
(* Core 0.                                                                 *)

\* The end of init(): core 1 is already running.
FinishInit ==
  /\ At0("init")
  /\ adapter_state' = "INIT"
  /\ Goto0("loop")
  /\ UNCHANGED <<identify_sequence, xbox_controller_idx, out_packet, fifo,
                 announce_due, core1, refused, late>>

\* ANNOUNCE_INTERVAL_MS pass.
AnnounceInterval ==
  /\ ~announce_due
  /\ announce_due' = TRUE
  /\ UNCHANGED <<adapter_state, identify_sequence, xbox_controller_idx,
                 out_packet, fifo, core0, core1, refused, late>>

\* Mutants: announce_task runs in every state; until the console authenticates.
AnnounceAlways == TRUE
AnnounceLonger == adapter_state \in {"INIT", "IDENTIFYING"}

AnnounceState == adapter_state = "INIT"

\* announce_task up to identifiers_get_announce.
AnnounceTask ==
  /\ At0("loop")
  /\ AnnounceState
  /\ announce_due
  /\ xbox_controller_idx < NoController
  /\ out_packet' = Packet("announce")
  /\ announce_due' = FALSE
  /\ Goto0("write")
  /\ UNCHANGED <<adapter_state, identify_sequence, xbox_controller_idx, fifo,
                 core1, refused, late>>

\* xbox_fifo_write(&out_packet) in announce_task and handle_identify.
WriteOutPacket ==
  /\ At0("write")
  /\ xbox_fifo_write(out_packet)
  /\ Goto0("loop")
  /\ UNCHANGED <<adapter_state, identify_sequence, xbox_controller_idx,
                 out_packet, announce_due, core1, late>>

\* handle_init: the console asks who this is.
HandleInit ==
  /\ At0("loop")
  /\ adapter_state = "INIT"
  /\ adapter_state' = "IDENTIFYING"
  /\ Goto0("identify")
  /\ UNCHANGED <<identify_sequence, xbox_controller_idx, out_packet, fifo,
                 announce_due, core1, refused, late>>

\* Mutants: the sequence starts over one chunk too late; it stays at the last;
\* it is not advanced.
StartsOverLate(k) == IF k > NChunks THEN 0 ELSE k
StaysAtLast(k)    == IF k >= NChunks THEN NChunks - 1 ELSE k
NotAdvanced(k)    == k

\* The chunk to send, and the one that follows it.
StartOver(k) == IF k >= NChunks THEN 0 ELSE k
Advance(k)   == k + 1

\* handle_identify: IDENTIFY or ACKNOWLEDGE asks for the next chunk.  The
\* index advances whether or not the queue takes the chunk.
NextChunk ==
  /\ \/ At0("identify")
     \/ At0("loop") /\ adapter_state = "IDENTIFYING"
  /\ LET k == StartOver(identify_sequence) IN
     /\ out_packet' = Chunk(k)
     /\ identify_sequence' = Advance(k)
  /\ Goto0("write")
  /\ UNCHANGED <<adapter_state, xbox_controller_idx, fifo, announce_due, core1,
                 refused, late>>

\* handle_identify: AUTHENTICATE ends the identification.
MoveToAuthenticate ==
  /\ At0("loop")
  /\ adapter_state = "IDENTIFYING"
  /\ adapter_state' = "AUTHENTICATING"
  /\ Goto0("auth")
  /\ UNCHANGED <<identify_sequence, xbox_controller_idx, out_packet, fifo,
                 announce_due, core1, refused, late>>

\* handle_auth: any packet but the console's acceptance is only passed on.
RelayAuth ==
  /\ \/ At0("auth")
     \/ At0("loop") /\ adapter_state = "AUTHENTICATING"
  /\ Goto0("send")
  /\ UNCHANGED <<adapter_state, identify_sequence, xbox_controller_idx,
                 out_packet, fifo, announce_due, core1, refused, late>>

\* handle_auth: the console accepts.  The state changes first.
Accepted == /\ adapter_state' = "RUNNING"
            /\ NotifyThen(NInstruments, "send")

Authenticated ==
  /\ \/ At0("auth")
     \/ At0("loop") /\ adapter_state = "AUTHENTICATING"
  /\ Accepted
  /\ UNCHANGED <<identify_sequence, xbox_controller_idx, out_packet, fifo,
                 announce_due, core1, refused, late>>

\* notify_xbox_of_all_instruments queues at most one notice per instrument,
\* notify_xbox_of_single_instrumenty at most one (InstrumentManager has which).
Notify ==
  /\ At0("notify")
  /\ \/ /\ core0.left > 0
        /\ xbox_fifo_write(Packet("notice"))
        /\ core0' = [core0 EXCEPT !.left = @ - 1]
     \/ /\ core0' = [core0 EXCEPT !.pc = core0.then, !.left = 0]
        /\ UNCHANGED <<fifo, refused>>
  /\ UNCHANGED <<adapter_state, identify_sequence, xbox_controller_idx,
                 out_packet, announce_due, core1, late>>

\* xboxh_send(packet): to the controller, if there is one.
Send ==
  /\ At0("send")
  /\ Goto0("loop")
  /\ UNCHANGED <<adapter_state, identify_sequence, xbox_controller_idx,
                 out_packet, fifo, announce_due, core1, refused, late>>

\* handle_running: ACKNOWLEDGE goes to the controller, a list command is
\* answered; every other command is ignored, IDENTIFY included.
HandleRunning ==
  /\ At0("loop")
  /\ adapter_state = "RUNNING"
  /\ \/ Goto0("send")
     \/ NotifyThen(NInstruments, "loop")
     \/ NotifyThen(1, "loop")
  /\ UNCHANGED <<adapter_state, identify_sequence, xbox_controller_idx,
                 out_packet, fifo, announce_due, core1, refused, late>>

\* drum_task: a drum report, built in a packet of its own.
DrumTask ==
  /\ At0("loop")
  /\ adapter_state = "RUNNING"
  /\ xbox_fifo_write(Packet("drum"))
  /\ UNCHANGED <<adapter_state, identify_sequence, xbox_controller_idx,
                 out_packet, announce_due, core0, core1, late>>

\* xboxd_send_task takes the next packet.
SendTask ==
  /\ At0("loop")
  /\ fifo # <<>>
  /\ fifo' = Tail(fifo)
  /\ UNCHANGED <<adapter_state, identify_sequence, xbox_controller_idx,
                 out_packet, announce_due, core0, core1, refused, late>>

-----------------------------------------------------------------------------
(* Core 1.                                                                 *)

\* xboxh_mount_cb
Mount ==
  /\ core1 = "idle"
  /\ xbox_controller_idx = NoController
  /\ xbox_controller_idx' = 0
  /\ UNCHANGED <<adapter_state, identify_sequence, out_packet, fifo,
                 announce_due, core0, core1, refused, late>>

\* xboxh_umount_cb
Unmount ==
  /\ core1 = "idle"
  /\ xbox_controller_idx # NoController
  /\ xbox_controller_idx' = NoController
  /\ UNCHANGED <<adapter_state, identify_sequence, out_packet, fifo,
                 announce_due, core0, core1, refused, late>>

\* Mutants: raw packets are relayed too early, or for too long.
RelayEarly   == {"IDENTIFYING", "AUTHENTICATING"}
RelayForever == {"AUTHENTICATING", "RUNNING"}

Relaying    == {"AUTHENTICATING"}
Translating == {"RUNNING"}

\* xboxh_packet_received_cb: what is done with the packet depends on a single
\* read of adapter_state.  While authenticating everything is passed on raw;
\* while running the guide button is, and input becomes drum input.
ControllerPacket ==
  /\ core1 = "idle"
  /\ xbox_controller_idx # NoController
  /\ \/ adapter_state \in Relaying /\ core1' = "raw"
     \/ adapter_state \in Translating /\ core1' \in {"guide", "fill"}
  /\ UNCHANGED <<adapter_state, identify_sequence, xbox_controller_idx,
                 out_packet, fifo, announce_due, core0, refused, late>>

\* xbox_fifo_write(data), chosen while the state was AUTHENTICATING.
WriteRaw ==
  /\ core1 = "raw"
  /\ xbox_fifo_write(Packet("raw"))
  /\ late' = IF adapter_state = "RUNNING" THEN late + 1 ELSE late
  /\ core1' = "idle"
  /\ UNCHANGED <<adapter_state, identify_sequence, xbox_controller_idx,
                 out_packet, announce_due, core0>>

\* handle_controller_packet_running: CMD_GUIDE_BTN
WriteGuide ==
  /\ core1 = "guide"
  /\ xbox_fifo_write(Packet("guide"))
  /\ core1' = "idle"
  /\ UNCHANGED <<adapter_state, identify_sequence, xbox_controller_idx,
                 out_packet, announce_due, core0, late>>

\* handle_controller_packet_running: CMD_INPUT, fill_drum_input_from_controller
FillInput ==
  /\ core1 = "fill"
  /\ out_packet' = Packet("input")
  /\ core1' = "write"
  /\ UNCHANGED <<adapter_state, identify_sequence, xbox_controller_idx, fifo,
                 announce_due, core0, refused, late>>

WriteInput ==
  /\ core1 = "write"
  /\ xbox_fifo_write(out_packet)
  /\ core1' = "idle"
  /\ UNCHANGED <<adapter_state, identify_sequence, xbox_controller_idx,
                 out_packet, announce_due, core0, late>>

\* connect_instrument, disconnect_instrument on core 1 or in the alarm
\* interrupt: once adapter_state is RUNNING it stays so, and the notice is
\* queued at any later time.
Notice ==
  /\ adapter_state = "RUNNING"
  /\ xbox_fifo_write(Packet("notice"))
  /\ UNCHANGED <<adapter_state, identify_sequence, xbox_controller_idx,
                 out_packet, announce_due, core0, core1, late>>

-----------------------------------------------------------------------------
Core0 == \/ FinishInit \/ AnnounceTask \/ WriteOutPacket \/ HandleInit
         \/ NextChunk \/ MoveToAuthenticate \/ RelayAuth \/ Authenticated
         \/ Notify \/ Send \/ HandleRunning \/ DrumTask \/ SendTask
Core1 == \/ Mount \/ Unmount \/ ControllerPacket \/ WriteRaw \/ WriteGuide
         \/ FillInput \/ WriteInput

Next == Core0 \/ Core1 \/ Notice \/ AnnounceInterval

Spec == Init /\ [][Next]_vars

-----------------------------------------------------------------------------
Packets == [kind : {"zero", "announce", "raw", "guide", "input", "notice", "drum"}, n : {0}]
             \union [kind : {"chunk"}, n : 0 .. NChunks - 1]

\* Every variable has its type.  In particular every identify chunk that is
\* built or queued exists: identifiers_get's own guard (sequence > n) would let
\* the index n through, one past the list.
TypeOK ==
  /\ adapter_state \in States
  /\ identify_sequence \in 0 .. NChunks
  /\ xbox_controller_idx \in {0, NoController}
  /\ out_packet \in Packets
  /\ fifo \in Seq(Packets)
  /\ Len(fifo) <= FifoSize
  /\ announce_due \in BOOLEAN
  /\ core0 \in [pc : Labels0, left : 0 .. NInstruments, then : {"loop", "send"}]
  /\ core1 \in Labels1
  /\ refused \in BOOLEAN
  /\ late \in Nat

\* main.c's out_packet is filled by both cores with no lock.  What a core is
\* about to queue is still what it built: the other core does not touch the
\* packet before it has been copied into the queue.
OutPacketIntact ==
  /\ At0("write") => out_packet.kind \in {"announce", "chunk"}
  /\ core1 = "write" => out_packet.kind = "input"

Phase(kind) == CASE kind = "announce" -> 1
                 [] kind = "chunk" -> 2
                 [] kind = "raw" -> 3
                 [] OTHER -> 4

\* The console receives the handshake's packets in the order of its phases:
\* announcements, identify chunks, the relayed authentication, and only then
\* notices, drum reports and translated input.  The one exception is a raw
\* packet that core 1 decided to relay just before the console accepted.
PhaseOrder ==
  \A j, k \in 1 .. Len(fifo) :
    j < k => \/ Phase(fifo[j].kind) <= Phase(fifo[k].kind)
             \/ fifo[k].kind = "raw"

\* At most one untranslated controller packet is queued after the adapter
\* has begun to run: core 1 reads adapter_state afresh for each packet.
AtMostOneLateRaw == late <= 1

\* Unless the queue refused a chunk, the chunks in it follow each other
\* without gap or repetition, starting over after the last, however the
\* console mixes IDENTIFY and ACKNOWLEDGE.
ChunkOrder ==
  ~refused => \A k \in 1 .. Len(fifo) - 1 :
                fifo[k].kind = "chunk" /\ fifo[k + 1].kind = "chunk"
                  => fifo[k + 1].n = (fifo[k].n + 1) % NChunks

\* xbox_controller_driver.c:57 asserts that the index it is given is one of a
\* controller; xboxh_send passes the index of the controller in use.
SendsToController == At0("send") => xbox_controller_idx < XBOX_MAX_CONTROLLERS

=============================================================================
