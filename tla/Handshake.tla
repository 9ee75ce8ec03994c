----------------------------- MODULE Handshake -----------------------------
(***************************************************************************)
(* The whole way from power-up to RUNNING: main.c (Adapter), the identify  *)
(* fragments (wla_identifiers.c), the device driver's slot, a controller   *)
(* and a console that cooperate.                                           *)
(*                                                                         *)
(* Console and controller are external, modelled from what main.c expects  *)
(* of them.  The console waits for an announcement, asks for a fragment at *)
(* a time with IDENTIFY or ACKNOWLEDGE, puts them together by the offset   *)
(* in their headers, asks again after a silence and now and then too early,*)
(* then exchanges Rounds authentication packets with the controller and    *)
(* accepts.  The controller answers each packet it is sent.                *)
(*                                                                         *)
(* Faults: the console resets the bus, the controller is unplugged, its    *)
(* endpoint is busy and the packet for it is dropped, the queue is full.   *)
(***************************************************************************)
EXTENDS Adapter

CONSTANTS
  Rounds,    \* the authentication packets the console sends
  MaxEarly,  \* bound: requests sent before the answer to the last
  MaxResets  \* bound: resets of the bus

ASSUME HandshakeAssumption ==
  /\ Rounds \in Nat \ {0} /\ MaxEarly \in Nat /\ MaxResets \in Nat
  /\ MaxEarly + MaxResets < FifoSize

\* Mutant: the header of the fifth fragment repeats the offset of the fourth.
SameOffset == <<0, 58, 116, 174, 174, 290, 293>>

\* wla_identify1 to 7: the offset and the length in the header of each.
Offsets == <<0, 58, 116, 174, 232, 290, 293>>
Lengths == <<58, 58, 58, 58, 58, 3, 0>>
Total   == 293

ASSUME FragmentAssumption == NChunks = Len(Lengths)

IDENTIFY == "IDENTIFY"
ACKNOWLEDGE == "ACKNOWLEDGE"
AUTHENTICATE == "AUTHENTICATE"
ACCEPT == "ACCEPT"      \* AUTHENTICATE with the bytes handle_auth looks for

VARIABLES
  console,     \* its state, the bytes put together, the rounds, what it will send
  request,     \* the packet in epout_buf, to be handled
  slot,        \* the packet in epin_buf
  answer_due,  \* the controller has an answer
  lost,        \* history: a packet of the authentication was dropped
  early,       \* history: requests sent too early
  resets       \* history: resets of the bus

hosts   == <<console, request, slot, answer_due, lost, early, resets>>
allVars == <<vars, hosts>>

HandshakeInit ==
  /\ Init
  /\ console = [state |-> "off", bytes |-> 0, round |-> 0, wants |-> "none"]
  /\ request = "none"
  /\ slot = <<>>
  /\ answer_due = FALSE
  /\ lost = FALSE
  /\ early = 0 /\ resets = 0

-----------------------------------------------------------------------------
(* The console.                                                            *)

\* It has configured the adapter, or does so again after a reset.
ConsoleOn ==
  /\ console.state = "off"
  /\ console' = [console EXCEPT !.state = "waiting"]
  /\ UNCHANGED <<vars, request, slot, answer_due, lost, early, resets>>

\* The bytes put together once fragment k has come: the first starts over, any
\* other counts only where it belongs.
Together(bytes, k) ==
  IF k = 0 THEN Lengths[1]
  ELSE IF Offsets[k + 1] = bytes THEN bytes + Lengths[k + 1] ELSE bytes

\* The last fragment is empty: it says that nothing is missing.
Complete(bytes, k) == k = NChunks - 1 /\ bytes = Total

Reaction(c, p) ==
  CASE c.state = "waiting" /\ p.kind = "announce" ->
         [c EXCEPT !.state = "identifying", !.bytes = 0, !.wants = IDENTIFY]
    [] c.state = "identifying" /\ p.kind = "chunk" ->
         IF Complete(c.bytes, p.n)
         THEN [c EXCEPT !.state = "authenticating", !.round = 1, !.wants = AUTHENTICATE]
         ELSE [c EXCEPT !.bytes = Together(c.bytes, p.n), !.wants = ACKNOWLEDGE]
    [] c.state = "authenticating" /\ p.kind = "raw" ->
         IF c.round = Rounds
         THEN [c EXCEPT !.state = "done", !.wants = ACCEPT]
         ELSE [c EXCEPT !.round = @ + 1, !.wants = AUTHENTICATE]
    [] OTHER -> c

ConsoleTakes ==
  /\ slot # <<>>
  /\ console.state # "off"
  /\ console' = Reaction(console, Head(slot))
  /\ slot' = <<>>
  /\ UNCHANGED <<vars, request, answer_due, lost, early, resets>>

\* The OUT endpoint has room for one packet.
ConsoleSends ==
  /\ console.wants # "none"
  /\ request = "none"
  /\ request' = console.wants
  /\ console' = [console EXCEPT !.wants = "none"]
  /\ UNCHANGED <<vars, slot, answer_due, lost, early, resets>>

\* What the console will get of what is queued or about to be.
OnTheWay == slot \o fifo \o (IF At0("write") THEN <<out_packet>> ELSE <<>>)

ChunkAt(k) == OnTheWay[k].kind = "chunk"
NoChunk    == \A k \in DOMAIN OnTheWay : ~ChunkAt(k)

Silence == request = "none" /\ NoChunk /\ ~At0("identify")

Asks == /\ console.state = "identifying" /\ console.wants = "none"
        /\ console' = [console EXCEPT !.wants = IDENTIFY]
        /\ UNCHANGED <<vars, request, slot, answer_due, lost, resets>>

AskAgain == Asks /\ Silence /\ UNCHANGED early
AskEarly == Asks /\ ~Silence /\ early < MaxEarly /\ early' = early + 1

\* What the adapter has received already it still handles.
BusReset ==
  /\ resets < MaxResets
  /\ resets' = resets + 1
  /\ console' = [state |-> "off", bytes |-> 0, round |-> 0, wants |-> "none"]
  /\ request' \in {request, "none"}
  /\ slot' = <<>>
  /\ UNCHANGED <<vars, answer_due, lost, early>>

-----------------------------------------------------------------------------
(* The adapter's steps, joined to those of its partners.                   *)

\* xboxd_packet_received_cb.  This console sends nothing a state would ignore.
HandlePacket ==
  /\ request # "none" /\ At0("loop")
  /\ request' = "none"
  /\ \/ request = IDENTIFY /\ HandleInit
     \/ request \in {IDENTIFY, ACKNOWLEDGE} /\ NextChunk
     \/ request = AUTHENTICATE /\ MoveToAuthenticate
     \/ request = AUTHENTICATE /\ RelayAuth
     \/ request = ACCEPT /\ Authenticated
  /\ UNCHANGED <<console, slot, answer_due, lost, early, resets>>

\* xboxd_send_task puts the next packet into epin_buf.
SlotTask ==
  /\ slot = <<>>
  /\ SendTask
  /\ slot' = <<Head(fifo)>>
  /\ UNCHANGED <<console, request, answer_due, lost, early, resets>>

\* The rest of core 0; at "auth" the packet in hand is the console's first.
Proceed ==
  /\ \/ FinishInit \/ WriteOutPacket \/ Notify
     \/ At0("identify") /\ NextChunk
     \/ At0("auth") /\ RelayAuth
  /\ UNCHANGED hosts

Announce == AnnounceTask /\ UNCHANGED hosts
Interval == AnnounceInterval /\ UNCHANGED hosts

\* xboxh_send: the controller gets the packet, unless there is none or its
\* endpoint is busy.
SendToController ==
  /\ Send
  /\ \/ /\ xbox_controller_idx # NoController
        /\ answer_due' = (adapter_state = "AUTHENTICATING")
        /\ UNCHANGED lost
     \/ /\ lost' = TRUE
        /\ UNCHANGED answer_due
  /\ UNCHANGED <<console, request, slot, early, resets>>

Plug == Mount /\ UNCHANGED hosts

Unplug ==
  /\ Unmount
  /\ lost' = (lost \/ answer_due)
  /\ answer_due' = FALSE
  /\ UNCHANGED <<console, request, slot, early, resets>>

\* The controller answers and core 1 relays it.
ControllerAnswers ==
  /\ answer_due
  /\ adapter_state = "AUTHENTICATING"
  /\ ControllerPacket
  /\ answer_due' = FALSE
  /\ UNCHANGED <<console, request, slot, lost, early, resets>>

RelayAnswer ==
  /\ WriteRaw
  /\ lost' = (lost \/ Len(fifo) >= FifoSize)
  /\ UNCHANGED <<console, request, slot, answer_due, early, resets>>

-----------------------------------------------------------------------------
HandshakeNext ==
  \/ ConsoleOn \/ ConsoleTakes \/ ConsoleSends \/ AskAgain \/ AskEarly \/ BusReset
  \/ HandlePacket \/ SlotTask \/ Proceed \/ Announce \/ Interval
  \/ SendToController \/ Plug \/ Unplug \/ ControllerAnswers \/ RelayAnswer

HandshakeSpec == HandshakeInit /\ [][HandshakeNext]_allVars

\* Each turn of the main loop executes tud_task, announce_task and
\* xboxd_send_task, though between them core 0 is busy with what they started.
\* Console and controller do what they have to; nobody has to cause a fault.
FairHandshakeSpec ==
  /\ HandshakeSpec
  /\ SF_allVars(HandlePacket) /\ SF_allVars(SlotTask) /\ SF_allVars(Announce)
  /\ WF_allVars(Proceed) /\ WF_allVars(SendToController) /\ WF_allVars(Interval)
  /\ WF_allVars(Plug) /\ WF_allVars(ControllerAnswers) /\ WF_allVars(RelayAnswer)
  /\ WF_allVars(ConsoleOn) /\ WF_allVars(ConsoleTakes) /\ WF_allVars(ConsoleSends)
  /\ WF_allVars(AskAgain)

-----------------------------------------------------------------------------
Commands == {"none", IDENTIFY, ACKNOWLEDGE, AUTHENTICATE, ACCEPT}

\* Every variable has its type.
HandshakeTypeOK ==
  /\ TypeOK
  /\ console \in [state : {"off", "waiting", "identifying", "authenticating", "done"},
                  bytes : {0, Total} \union {Offsets[k] : k \in 1 .. NChunks},
                  round : 0 .. Rounds,
                  wants : Commands]
  /\ request \in Commands
  /\ slot \in Seq(Packets) /\ Len(slot) <= 1
  /\ answer_due \in BOOLEAN /\ lost \in BOOLEAN
  /\ early \in 0 .. MaxEarly /\ resets \in 0 .. MaxResets

\* As long as the queue takes every chunk and the bus is not reset, the next
\* chunk the console gets is the one whose offset continues what it has, also
\* when it asks again before the answer has come.
InStep ==
  console.state = "identifying" /\ ~refused /\ resets = 0 =>
    /\ NoChunk => Offsets[StartOver(identify_sequence) + 1] = console.bytes
    /\ \A k \in DOMAIN OnTheWay :
         ChunkAt(k) /\ (\A j \in 1 .. k - 1 : ~ChunkAt(j))
           => Offsets[OnTheWay[k].n + 1] = console.bytes

\* The queue has room for each answer of the controller, although nobody looks
\* at what xbox_fifo_write returns: by the time the console authenticates, the
\* announcements that piled up before have gone.
AnswerFits == core1 = "raw" => Len(fifo) < FifoSize

\* The console waits for an announcement that never comes: the adapter announces
\* only in INIT, and no packet of the console takes it back there.
Deaf ==
  /\ console.state \in {"off", "waiting"}
  /\ adapter_state \notin {"NONE", "INIT"}
  /\ \A k \in DOMAIN OnTheWay : OnTheWay[k].kind # "announce"

Through == console.state = "done" /\ adapter_state = "RUNNING"

\* With a controller that stays plugged in, the console gets through to RUNNING
\* in the end: in spite of announcements that filled the queue, refused chunks,
\* requests that come too early, and resets, with two exceptions: a reset after
\* the adapter left INIT (Deaf), and a packet of the authentication that was
\* dropped, which nobody sends again.
GetsThrough ==
  <>[](xbox_controller_idx # NoController)
    => <>[](Through \/ Deaf \/ lost)

=============================================================================
