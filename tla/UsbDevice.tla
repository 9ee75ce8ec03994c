------------------------------ MODULE UsbDevice ------------------------------
(***************************************************************************)
(* The adapter as a USB device: its descriptors (usb_descriptors.c), and   *)
(* of xbox_device_driver.c what DeviceDriver leaves out: xboxd_open, the   *)
(* control requests and the OUT endpoint.                                  *)
(*                                                                         *)
(* The stack, TinyUSB, is external: on SET_CONFIGURATION it walks along    *)
(* the configuration descriptor, calls xboxd_open at each interface it     *)
(* comes to and goes on behind what that call says it has taken; requests  *)
(* for an interface go to the driver bound to it.  A transfer is over when *)
(* its buffer is full or a packet shorter than the endpoint's size has     *)
(* come; its callback is executed later, before that of a later reset.     *)
(***************************************************************************)
EXTENDS Naturals, Sequences, FiniteSetsExt

CONSTANTS
  MaxPackets,  \* bound: the packets the console sends
  MaxResets    \* bound: the times the driver is reset

ASSUME DeviceAssumption == MaxPackets \in Nat /\ MaxResets \in Nat

-----------------------------------------------------------------------------
(* The descriptors.                                                        *)

XINPUT == 71   \* bInterfaceSubClass 0x47
VENDOR == 255

Interface(number, subclass, endpoints) ==
  [type |-> "interface", number |-> number, subclass |-> subclass,
   endpoints |-> endpoints]
Endpoint(address) == [type |-> "endpoint", address |-> address]

ADAPTER_OUT_NUM == 2
ADAPTER_IN_NUM  == 129

IsIn(address) == address >= 128

\* Interfaces 1 and 2 have two settings each, the first without endpoints.
ConfigurationDescriptor ==
  << Interface(0, XINPUT, 2), Endpoint(ADAPTER_OUT_NUM), Endpoint(ADAPTER_IN_NUM),
     Interface(1, VENDOR, 0),
     Interface(1, VENDOR, 2), Endpoint(4), Endpoint(131),
     Interface(2, VENDOR, 0),
     Interface(2, VENDOR, 2), Endpoint(6), Endpoint(133) >>

Interfaces == 0 .. 2   \* bNumInterfaces

D(k) == ConfigurationDescriptor[k]
DescriptorEnd == Len(ConfigurationDescriptor) + 1
Is(type, k) == k < DescriptorEnd /\ D(k).type = type

-----------------------------------------------------------------------------
EP_SIZE     == 64   \* sizeof(epout_buf.buffer), and EndpointSize
PACKET_SIZE == 70   \* sizeof(xbox_packet_t): the buffer, length, time, handled
FRAME_SIZE  == 4    \* sizeof(frame_t)

\* A packet too short for a frame, the shortest frame, and a full packet.
Sizes == {3, FRAME_SIZE, EP_SIZE}

Closed == [itf_num |-> 0, ep_in |-> 0, ep_out |-> 0]

\* The bytes in epout_buf and, packet by packet, whose frame they are: 0 stands
\* for a packet without a frame.
Empty == [bytes |-> 0, frames |-> <<>>]

VARIABLES
  stack,      \* "default", "opening", "configured", or "stalled"
  at,         \* opening: the descriptor the stack has come to
  bound,      \* the interfaces bound to the driver
  opened,     \* the endpoints that are open
  itf,        \* _xinputd_itf[0] without its buffers
  transfer,   \* the size of the transfer ep_out was given, 0 for none
  epout_buf,  \* what it has taken of it
  over,       \* it is over, xboxd_xfer_cb is to come
  bus_reset,  \* the bus was reset, xboxd_reset is to come
  reply,      \* the console's last request and the answer to it
  sent,       \* history: the frames the console has sent, which number them
  handed,     \* history: per call of xboxd_packet_received_cb, what it was given
  resets      \* history: times xboxd_reset was executed

driver == <<itf, opened, transfer, epout_buf, over>>
vars   == <<stack, at, bound, driver, bus_reset, reply, sent, handed, resets>>

NoReply == [kind |-> "none", n |-> 0, configured |-> FALSE, answer |-> "none"]

Init ==
  /\ stack = "default" /\ at = 1 /\ bound = {}
  /\ itf = Closed /\ opened = {}
  /\ transfer = 0 /\ epout_buf = Empty /\ over = FALSE
  /\ bus_reset = FALSE
  /\ reply = NoReply
  /\ sent = 0 /\ handed = <<>> /\ resets = 0

-----------------------------------------------------------------------------
(* Configuration.                                                          *)

SetConfiguration ==
  /\ stack = "default" /\ ~bus_reset
  /\ stack' = "opening"
  /\ at' = 1
  /\ UNCHANGED <<bound, driver, bus_reset, reply, sent, handed, resets>>

\* The stack binds the interface and goes on behind its len descriptors.  An
\* answer of 0, or a number that is bound already, stalls the request.
Take(len) ==
  IF len = 0 \/ D(at).number \in bound \/ at + len > DescriptorEnd
  THEN stack' = "stalled" /\ UNCHANGED <<at, bound>>
  ELSE /\ bound' = bound \union {D(at).number}
       /\ at' = at + len
       /\ stack' = IF at + len = DescriptorEnd THEN "configured" ELSE "opening"

AreEndpoints(k, n) == \A e \in k .. k + n - 1 : Is("endpoint", e)

\* xboxd_open for subclass 0x47: the endpoints behind the interface are opened
\* and the OUT endpoint is given its first transfer.
OpenFirst ==
  LET n == D(at).endpoints
      eps == {D(k).address : k \in at + 1 .. at + n} IN
  /\ IF itf.ep_in = 0 /\ itf.ep_out = 0 /\ AreEndpoints(at + 1, n)
     THEN /\ itf' = [itf_num |-> D(at).number,
                     ep_in   |-> CHOOSE a \in eps : IsIn(a),
                     ep_out  |-> CHOOSE a \in eps : ~IsIn(a)]
          /\ opened' = opened \union eps
          /\ transfer' = PACKET_SIZE
          /\ Take(1 + n)
     ELSE Take(0) /\ UNCHANGED <<itf, opened, transfer>>
  /\ UNCHANGED <<epout_buf, over>>

\* The descriptor whose number the loop compares before it goes over k + j: the
\* pointer that is read lags one behind, but for the first.
Compared(k, j) == IF j = 1 THEN k + 1 ELSE k + j - 1

\* Mutant: the other settings of the interface are not gone over.
NoAlternates(k) == 0

\* How many further settings of the interface at k the loop goes over.
Alternates(k) ==
  Max({m \in 0 .. DescriptorEnd - k - 1 :
         \A j \in 1 .. m : /\ Is("interface", k + j)
                           /\ D(Compared(k, j)).number = D(k).number})

\* xboxd_open for every other interface: nothing is opened, the descriptors of
\* all its settings and of the endpoints of the last one are taken.
OpenOther ==
  LET m == Alternates(at)
      n == D(IF m = 0 THEN at + 1 ELSE at + m).endpoints IN
  /\ Take(IF AreEndpoints(at + m + 1, n) THEN 1 + m + n ELSE 0)
  /\ UNCHANGED driver

xboxd_open ==
  /\ stack = "opening"
  /\ IF D(at).subclass = XINPUT THEN OpenFirst ELSE OpenOther
  /\ UNCHANGED <<bus_reset, reply, sent, handed, resets>>

\* Mutant: a reset leaves the endpoints' addresses as they are.
KeepsAddresses == itf

Cleared == Closed

\* tu_memclr in xboxd_reset, and the stack forgets the configuration.
xboxd_reset ==
  /\ itf' = Cleared
  /\ opened' = {} /\ bound' = {}
  /\ transfer' = 0 /\ epout_buf' = Empty /\ over' = FALSE
  /\ stack' = "default"
  /\ at' = 1
  /\ resets' = resets + 1
  /\ UNCHANGED <<reply, sent, handed>>

BusReset ==
  /\ ~bus_reset /\ resets < MaxResets
  /\ bus_reset' = TRUE
  /\ UNCHANGED <<stack, at, bound, driver, reply, sent, handed, resets>>

\* tud_task; the walk is one call, and a transfer's callback comes first.
BusResetTask ==
  /\ bus_reset /\ ~over /\ stack # "opening"
  /\ bus_reset' = FALSE
  /\ xboxd_reset

\* SET_CONFIGURATION with 0.
Unconfigure ==
  /\ stack = "configured" /\ ~bus_reset /\ ~over
  /\ resets < MaxResets
  /\ xboxd_reset
  /\ UNCHANGED bus_reset

-----------------------------------------------------------------------------
(* The OUT endpoint.                                                       *)

Smaller(a, b) == IF a < b THEN a ELSE b

\* The endpoint takes a packet, or as much of it as fits.  What does not fit is
\* gone, and main.c looks at none of the frames behind the first.
ConsoleSends(size) ==
  LET room == transfer - epout_buf.bytes
      fits == Smaller(size, room)
      n == IF size < FRAME_SIZE THEN 0 ELSE sent + 1 IN
  /\ stack = "configured" /\ ~bus_reset
  /\ transfer # 0 /\ ~over
  /\ size >= FRAME_SIZE => sent < MaxPackets
  /\ epout_buf' = [bytes  |-> epout_buf.bytes + fits,
                   frames |-> Append(epout_buf.frames, n)]
  /\ over' = (size < EP_SIZE \/ fits = room)
  /\ sent' = IF n = 0 THEN sent ELSE n
  /\ UNCHANGED <<stack, at, bound, itf, opened, transfer, bus_reset, reply,
                 handed, resets>>

\* Mutants: the callback returns early for what is shorter than a frame; the next
\* transfer is as long as the last.
StopsAtRunts(bytes) == IF bytes < FRAME_SIZE THEN 0 ELSE EP_SIZE
SameAgain(bytes)    == bytes

Rearm(bytes) == EP_SIZE

\* Mutant: a frame without payload is taken for less than a frame.
LongFrame(bytes) == bytes > FRAME_SIZE

IsFrame(bytes) == bytes >= FRAME_SIZE

\* xboxd_xfer_cb for ep_out: hand over what has come, then the next transfer.
XferCb ==
  /\ over
  /\ handed' = IF IsFrame(epout_buf.bytes) THEN Append(handed, epout_buf.frames)
                                           ELSE handed
  /\ over' = FALSE
  /\ epout_buf' = Empty
  /\ transfer' = Rearm(epout_buf.bytes)
  /\ UNCHANGED <<stack, at, bound, itf, opened, bus_reset, reply, sent, resets>>

-----------------------------------------------------------------------------
(* Control requests.                                                       *)

Request(kind, numbers) == [kind : {kind}, n : numbers]

\* The interface or the vendor request's wIndex; 3 and 6 stand for what is not
\* there.
Requests ==
  UNION { Request("get_interface", 0 .. 3), Request("set_interface", 0 .. 3),
          Request("vendor_device", {4, 6}), Request("vendor_interface", {5, 6}) }

\* Mutant: only the interface the driver really supports is answered for.
OwnInterface(r) == IF r.kind \in {"get_interface", "set_interface"} /\ r.n = 0
                   THEN "data" ELSE "stall"

\* xboxd_control_xfer_cb.  The vendor request for an interface is accepted but
\* never answered.
Answer(r) ==
  CASE r.kind = "get_interface" /\ r.n \in bound  -> "data"
    [] r.kind = "set_interface" /\ r.n \in bound  -> "status"
    [] r.kind = "vendor_device" /\ r.n = 4        -> "data"
    [] r.kind = "vendor_interface" /\ r.n = 5     -> "silence"
    [] OTHER                                      -> "stall"

Control(r) ==
  /\ ~bus_reset /\ stack \in {"default", "configured"}
  /\ reply' = [kind |-> r.kind, n |-> r.n, configured |-> stack = "configured",
               answer |-> Answer(r)]
  /\ UNCHANGED <<stack, at, bound, driver, bus_reset, sent, handed, resets>>

-----------------------------------------------------------------------------
Next ==
  \/ SetConfiguration \/ xboxd_open \/ BusReset \/ BusResetTask \/ Unconfigure
  \/ \E size \in Sizes : ConsoleSends(size)
  \/ XferCb
  \/ \E r \in Requests : Control(r)

Spec == Init /\ [][Next]_vars
-----------------------------------------------------------------------------
\* Every variable has its type.
TypeOK ==
  /\ stack \in {"default", "opening", "configured", "stalled"}
  /\ at \in 1 .. DescriptorEnd
  /\ bound \subseteq Interfaces
  /\ itf \in [itf_num : {0}, ep_in : {0, ADAPTER_IN_NUM}, ep_out : {0, ADAPTER_OUT_NUM}]
  /\ opened \subseteq {ADAPTER_IN_NUM, ADAPTER_OUT_NUM}
  /\ transfer \in {0, EP_SIZE, PACKET_SIZE}
  /\ epout_buf \in [bytes : 0 .. PACKET_SIZE, frames : Seq(0 .. MaxPackets)]
  /\ over \in BOOLEAN /\ bus_reset \in BOOLEAN
  /\ sent \in 0 .. MaxPackets
  /\ handed \in Seq(Seq(0 .. MaxPackets))
  /\ resets \in 0 .. MaxResets

\* However often the console resets and configures the adapter, the walk along
\* the descriptor succeeds: every interface is bound to the driver exactly once
\* although it has only one place, the driver knows the two endpoints of the
\* first interface, and no endpoint of the others is open.
ConfiguredWhole ==
  /\ stack # "stalled"
  /\ stack = "configured" =>
       /\ bound = Interfaces
       /\ itf = [itf_num |-> 0, ep_in |-> ADAPTER_IN_NUM, ep_out |-> ADAPTER_OUT_NUM]
       /\ opened = {ADAPTER_IN_NUM, ADAPTER_OUT_NUM}

\* xboxd_open claims interfaces it does not support "so we don't stall": once
\* the adapter is configured, a request to read or to select the setting of any
\* of its interfaces is answered.
InterfacesServed ==
  reply.configured /\ reply.kind \in {"get_interface", "set_interface"}
    /\ reply.n \in Interfaces
    => reply.answer # "stall"

\* A configured adapter never falls deaf: its OUT endpoint always has a transfer,
\* after packets of every size, resets and changes of the configuration.
Listening == stack = "configured" => transfer # 0

First(frames)  == {frames[p] : p \in DOMAIN frames \cap {1}}
Behind(frames) == {frames[p] : p \in DOMAIN frames \ {1}}

\* handle_xboxd_packet handles the frame that epout_buf begins with; one behind
\* it, which only a transfer of PACKET_SIZE has room for, is overlooked.  What
\* came and is neither, nor waits, was taken by a reset.
Heard      == UNION {First(handed[k]) : k \in DOMAIN handed}
Overlooked == (Behind(epout_buf.frames)
                 \union UNION {Behind(handed[k]) : k \in DOMAIN handed}) \ {0}
Lost       == (1 .. sent) \ (Heard \union Overlooked \union First(epout_buf.frames))

\* The frames the console sends are handed over in order and at most once.  All
\* are handled, although a single buffer takes them and a transfer that is over
\* is reported only later, but for two kinds: at most one for each reset, and at
\* most one for each configuration, overlooked behind the first frame.
OutInOrder ==
  /\ \A j, k \in DOMAIN handed : \A p \in DOMAIN handed[j], q \in DOMAIN handed[k] :
       (j < k \/ (j = k /\ p < q)) /\ handed[k][q] # 0 => handed[j][p] < handed[k][q]
  /\ Cardinality(Lost) <= resets
  /\ Cardinality(Overlooked) <= resets + 1

\* xbox_one_protocol.h:52 says of XBOX_ONE_EP_MAXPKTSIZE, the size of the
\* buffer, "Max size for data via USB": what is handed over is one packet of
\* the console.
OnePacketEach == \A k \in DOMAIN handed : Len(handed[k]) = 1

=============================================================================
