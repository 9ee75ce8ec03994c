---------------------------- MODULE DeviceDriver ----------------------------
(***************************************************************************)
(* The IN side of the device driver (xbox_device_driver.c): xboxd_send_task*)
(* takes a packet from the queue into epin_buf and hands it to the USB     *)
(* stack, which tells the driver through xboxd_xfer_cb that the console    *)
(* has taken it, and through xboxd_reset that the bus was reset.           *)
(*                                                                         *)
(* The stack, TinyUSB, is external.  It queues the events of the hardware  *)
(* and executes the driver's callbacks in tud_task, on the thread that     *)
(* also executes xboxd_send_task; between the event and its callback the   *)
(* driver goes on.  An endpoint is busy from usbd_edpt_xfer until the      *)
(* callback for the transfer is about to be executed.                      *)
(*                                                                         *)
(* Time is board_millis(), which wraps at Wrap.  MaxGap bounds the time    *)
(* between two passes of xboxd_send_task: one turn of the main loop.       *)
(***************************************************************************)
EXTENDS Naturals, Sequences

CONSTANTS
  FifoSize,    \* XBOX_FIFO_SIZE
  ON_DELAY_MS,
  MaxGap,
  Wrap,
  MaxPackets,  \* bound: the packets written
  MaxResets    \* bound: the resets of the bus

ASSUME DriverAssumption ==
  /\ FifoSize \in Nat \ {0}
  /\ ON_DELAY_MS \in Nat /\ MaxGap \in Nat \ {0} /\ Wrap \in Nat
  /\ ON_DELAY_MS + MaxGap + 1 < Wrap
  /\ MaxPackets \in Nat /\ MaxResets \in Nat

Times == 0 .. Wrap - 1

\* Packets are numbered as they are written; drum reports carry the time.
Packets == [id : 1 .. MaxPackets, time : Times]

\* epin_buf after tu_memclr.
Zero == [id |-> 0, time |-> 0]

VARIABLES
  fifo,       \* the packet queue
  epin_buf,
  handled,    \* epin_buf.handled
  ep_in,      \* "closed" (0), "idle", "busy", or "done": taken, callback to come
  bus_reset,  \* the bus was reset, xboxd_reset is to come
  now,
  gap,        \* time since the last pass of xboxd_send_task
  written,    \* history: packets written so far
  delivered,  \* history: what the console has got
  resets,     \* history: times xboxd_reset was executed
  age,        \* history: per packet, true time since it was written
  held        \* history: true time a packet is kept though the endpoint is idle

vars == <<fifo, epin_buf, handled, ep_in, bus_reset, now, gap, written,
          delivered, resets, age, held>>

Init ==
  /\ fifo = <<>>
  /\ epin_buf = Zero
  /\ handled = TRUE
  /\ ep_in = "closed"
  /\ bus_reset = FALSE
  /\ now \in Times
  /\ gap = 0
  /\ written = 0
  /\ delivered = <<>>
  /\ resets = 0
  /\ age = [k \in 1 .. MaxPackets |-> 0]
  /\ held = 0

\* Something is to be sent and the endpoint could take it.
Stalled == ep_in = "idle" /\ (~handled \/ fifo # <<>>)

-----------------------------------------------------------------------------
HoldLimit == ON_DELAY_MS + 2 * MaxGap

\* A millisecond passes.  age and held count no further than their properties
\* need.
Tick ==
  /\ gap < MaxGap
  /\ now' = (now + 1) % Wrap
  /\ gap' = gap + 1
  /\ age' = [k \in 1 .. MaxPackets |->
               IF k <= written /\ age[k] <= ON_DELAY_MS THEN age[k] + 1 ELSE age[k]]
  /\ held' = IF Stalled THEN (IF held <= HoldLimit THEN held + 1 ELSE held) ELSE 0
  /\ UNCHANGED <<fifo, epin_buf, handled, ep_in, bus_reset, written, delivered,
                 resets>>

\* xbox_fifo_write by any context; init_packet stamps drum reports with the
\* time, every other packet with 0.
Write(time) ==
  /\ written < MaxPackets
  /\ written' = written + 1
  /\ fifo' = IF Len(fifo) < FifoSize
             THEN Append(fifo, [id |-> written + 1, time |-> time])
             ELSE fifo
  /\ UNCHANGED <<epin_buf, handled, ep_in, bus_reset, now, gap, delivered,
                 resets, age, held>>

\* Mutants: comparisons that do not survive the wrap of the counter.
AddsDelay(p)   == now > (p.time + ON_DELAY_MS) % Wrap
NeverAhead(p)  == now > p.time /\ now - p.time > ON_DELAY_MS

\* (board_millis() - pkt->triggered_time) > ON_DELAY_MS in uint32_t.
DelayOver(p) == (now + Wrap - p.time) % Wrap > ON_DELAY_MS

\* xboxd_send_task with packet p in epin_buf: only an endpoint that is open and
\* idle takes it.  While it is closed ep_in is 0 and the claim is one of the
\* control endpoint; xboxd_send fails before it transfers anything.  Whether
\* that claim is released is left out: no other line of the program looks at it.
Offer(p) ==
  /\ epin_buf' = p
  /\ handled' = FALSE
  /\ ep_in' = IF DelayOver(p) /\ ep_in = "idle" THEN "busy" ELSE ep_in
  /\ held' = IF DelayOver(p) /\ ep_in = "idle" THEN 0 ELSE held

\* One pass of xboxd_send_task.
SendTask ==
  /\ gap' = 0
  /\ \/ /\ ~handled
        /\ Offer(epin_buf)
        /\ UNCHANGED fifo
     \/ /\ handled /\ fifo # <<>>
        /\ Offer(Head(fifo))
        /\ fifo' = Tail(fifo)
     \/ /\ handled /\ fifo = <<>>
        /\ UNCHANGED <<fifo, epin_buf, handled, ep_in, held>>
  /\ UNCHANGED <<bus_reset, now, written, delivered, resets, age>>

\* The console takes the packet: the hardware has sent epin_buf.
ConsoleTakes ==
  /\ ep_in = "busy"
  /\ ~bus_reset
  /\ ep_in' = "done"
  /\ delivered' = Append(delivered, epin_buf)
  /\ UNCHANGED <<fifo, epin_buf, handled, bus_reset, now, gap, written, resets,
                 age, held>>

\* Mutants: the callback does not mark the packet as handled; the reset clears
\* the mark with everything else.
KeepsUnhandled     == FALSE
ClearedWithTheRest == FALSE

HandledAfterXfer  == TRUE
HandledAfterReset == TRUE

\* tud_task, xboxd_xfer_cb for the IN endpoint.
XferCb ==
  /\ ep_in = "done"
  /\ ep_in' = "idle"
  /\ handled' = HandledAfterXfer
  /\ UNCHANGED <<fifo, epin_buf, bus_reset, now, gap, written, delivered,
                 resets, age, held>>

\* The bus is reset or unplugged.
BusReset ==
  /\ ~bus_reset
  /\ resets < MaxResets
  /\ bus_reset' = TRUE
  /\ UNCHANGED <<fifo, epin_buf, handled, ep_in, now, gap, written, delivered,
                 resets, age, held>>

\* tud_task, xboxd_reset; the event of a finished transfer comes first.  The
\* packet in epin_buf is gone, the queue stays.
xboxd_reset ==
  /\ bus_reset
  /\ ep_in # "done"
  /\ bus_reset' = FALSE
  /\ resets' = resets + 1
  /\ epin_buf' = Zero
  /\ handled' = HandledAfterReset
  /\ ep_in' = "closed"
  /\ held' = 0
  /\ UNCHANGED <<fifo, now, gap, written, delivered, age>>

\* Mutant: the reset does not give the place back.
FreshPlace == ep_in = "closed" /\ resets = 0

\* find_new_itf: the driver's one place is not in use.
FreePlace == ep_in = "closed"

\* tud_task, xboxd_open, when the console has configured the device.
xboxd_open ==
  /\ FreePlace
  /\ ~bus_reset
  /\ ep_in' = "idle"
  /\ UNCHANGED <<fifo, epin_buf, handled, bus_reset, now, gap, written,
                 delivered, resets, age, held>>

Next ==
  \/ Tick \/ SendTask \/ ConsoleTakes \/ XferCb
  \/ BusReset \/ xboxd_reset \/ xboxd_open
  \/ Write(0) \/ Write(now)

Spec == Init /\ [][Next]_vars

\* The main loop turns and so time passes; the console polls the endpoint of a
\* device it has configured, and configures a device it has reset.
FairSpec == /\ Spec
            /\ WF_vars(Tick) /\ WF_vars(SendTask) /\ WF_vars(ConsoleTakes)
            /\ WF_vars(XferCb) /\ WF_vars(xboxd_reset) /\ WF_vars(xboxd_open)

-----------------------------------------------------------------------------
\* Every variable has its type; a transfer is under way only for a packet that
\* is not handled yet.
TypeOK ==
  /\ fifo \in Seq(Packets) /\ Len(fifo) <= FifoSize
  /\ epin_buf \in Packets \union {Zero}
  /\ handled \in BOOLEAN
  /\ ep_in \in {"closed", "idle", "busy", "done"}
  /\ ep_in \in {"busy", "done"} => ~handled
  /\ ~handled => epin_buf \in Packets
  /\ bus_reset \in BOOLEAN
  /\ now \in Times
  /\ gap \in 0 .. MaxGap
  /\ written \in 0 .. MaxPackets
  /\ delivered \in Seq(Packets)
  /\ resets \in Nat
  /\ age \in [1 .. MaxPackets -> 0 .. ON_DELAY_MS + 1]
  /\ held \in 0 .. HoldLimit + 1

InSlot == ~handled /\ ep_in # "done"

\* The packets the console may still get.
Pending == IF InSlot THEN <<epin_buf>> \o fifo ELSE fifo

Channel == INSTANCE PacketChannel WITH pending <- Pending

\* What is written reaches the console in order and at most once, and a reset
\* of the bus costs at most one packet: although a packet stays in epin_buf
\* while the endpoint is closed, busy or not yet due, is offered again on each
\* pass, and is forgotten by a reset at any point.
Delivery == Channel!Spec

\* An endpoint that is open and idle is given the next packet within the delay
\* and two passes, also when the counter has wrapped since the packet was
\* stamped, and for packets stamped 0 also right after the wrap.
HeldBounded == held <= HoldLimit

\* A drum report is never given to the endpoint before its delay is over in
\* true time.
DelayKept ==
  [][ep_in = "idle" /\ ep_in' = "busy" /\ epin_buf'.time # 0
       => age[epin_buf'.id] > ON_DELAY_MS]_vars

Queued(k) == \E i \in DOMAIN Pending : Pending[i].id = k

\* Every packet the queue has accepted leaves it: it reaches the console or is
\* lost in a reset, but neither it nor one before it stays for ever.
Flushes == \A k \in 1 .. MaxPackets : Queued(k) ~> ~Queued(k)

=============================================================================
