-------------------------- MODULE ControllerDriver --------------------------
(***************************************************************************)
(* The host driver of the Xbox controller (xbox_controller_driver.c) and   *)
(* the part of main.c that follows it: xbox_controller_idx and _addr, set  *)
(* by the mount callbacks on core 1 and used by xboxh_send on core 0.      *)
(*                                                                         *)
(* Core 1 executes the driver's callbacks in tuh_task.  xboxh_set_config   *)
(* waits for its first transfer by calling tuh_task again, so that other   *)
(* callbacks, the removal of the same controller included, are executed in *)
(* the middle of it.  Core 0 executes xboxh_send_report at any time.       *)
(*                                                                         *)
(* The stack, TinyUSB, is external: it gives a device an address, keeps    *)
(* for each endpoint who has claimed it (one claim at a time, whichever    *)
(* core) and whether it is busy, enumerates one device at a time, and      *)
(* forgets all this when it processes the removal of the device.           *)
(***************************************************************************)
EXTENDS Naturals

CONSTANT Addresses  \* the USB addresses a controller can be given

ASSUME ControllerAssumption == Addresses \subseteq 1 .. 127

None   == 255                   \* UINT8_MAX
Cores  == {"core0", "core1"}
Models == {"needs_init", "plain"}   \* what the PID tells about the controller

VARIABLES
  plugged,    \* the controllers on the bus
  attached,   \* those the stack knows of
  gone,       \* attached ones whose removal is still to be processed
  daddr,      \* _xbox_itf[0].daddr, 0 when free
  PID,        \* _xbox_itf[0].PID
  epout_buf,  \* _xbox_itf[0].epout_buf: the packet in it
  claim,      \* per address, the core that has claimed ep_out, or "free"
  flight,     \* per address, the packet ep_out was given to send, or "none"
  polled,     \* per address, ep_in is waiting for a report
  xbox_controller_idx,
  xbox_controller_addr,
  core,       \* per core: where it is and the arguments of its send
  interrupted \* history: a controller was removed while it was configured

main_c == <<xbox_controller_idx, xbox_controller_addr>>
slot   == <<daddr, PID>>
bus    == <<plugged, attached, gone>>
vars   == <<bus, slot, epout_buf, claim, flight, polled, main_c, core, interrupted>>

Labels  == {"task", "second", "lookup", "claim", "copy", "xfer", "sent",
            "wait", "mount", "poll"}

\* What core 0 relays from the console: two that fit into the endpoint's buffer,
\* told apart, and one that is too long for it.
Relays  == {"relay1", "relay2", "oversized"}
Packets == Relays \union {"power", "init"}

At(c, pc)   == core[c].pc = pc
Goto(c, pc) == core' = [core EXCEPT ![c].pc = pc]

\* xboxh_send_report(addr, idx, packet, ...) is about to be executed.
Sending(c, addr, idx, packet) ==
  core' = [core EXCEPT ![c] = [pc |-> "lookup", addr |-> addr, idx |-> idx,
                               packet |-> packet]]

Init ==
  /\ plugged = {} /\ attached = {} /\ gone = {}
  /\ daddr = 0 /\ PID = "plain"
  /\ epout_buf = "none"
  /\ claim = [d \in Addresses |-> "free"]
  /\ flight = [d \in Addresses |-> "none"]
  /\ polled = [d \in Addresses |-> FALSE]
  /\ xbox_controller_idx = None /\ xbox_controller_addr = None
  /\ core = [c \in Cores |-> [pc |-> "task", addr |-> None, idx |-> None,
                              packet |-> "relay1"]]
  /\ interrupted = FALSE

-----------------------------------------------------------------------------
(* The bus.                                                                *)

Plug(d) ==
  /\ d \notin plugged
  /\ plugged' = plugged \union {d}
  /\ UNCHANGED <<attached, gone, slot, epout_buf, claim, flight, polled, main_c,
                 core, interrupted>>

Unplug(d) ==
  /\ d \in plugged
  /\ plugged' = plugged \ {d}
  /\ gone' = IF d \in attached THEN gone \union {d} ELSE gone
  /\ UNCHANGED <<attached, slot, epout_buf, claim, flight, polled, main_c, core,
                 interrupted>>

-----------------------------------------------------------------------------
(* xboxh_send_report, on either core.                                      *)

\* On core 1 a send that fails makes set_config return; xboxh_send on core 0
\* has no more to do either way.
Failed(c) == Goto(c, "task")

Fits(packet) == packet # "oversized"

\* get_xbox_itf: the index in range (asserted), the address the one in use.  A
\* controller that is in use has its ep_out, xboxh_open sees to that.
Lookup(c) ==
  /\ At(c, "lookup")
  /\ IF core[c].idx = 0 /\ daddr = core[c].addr /\ Fits(core[c].packet)
     THEN Goto(c, "claim") ELSE Failed(c)
  /\ UNCHANGED <<bus, slot, epout_buf, claim, flight, polled, main_c, interrupted>>

Available(d) == d \in attached /\ claim[d] = "free" /\ flight[d] = "none"

\* Mutant: the result of the claim is not looked at.
CopiesAnyway(c) ==
  /\ At(c, "claim")
  /\ Goto(c, "copy")
  /\ UNCHANGED <<bus, slot, epout_buf, claim, flight, polled, main_c, interrupted>>

\* usbh_edpt_claim; when it fails the report is dropped.
Claim(c) ==
  LET d == core[c].addr IN
  /\ At(c, "claim")
  /\ IF Available(d)
     THEN claim' = [claim EXCEPT ![d] = c] /\ Goto(c, "copy")
     ELSE Failed(c) /\ UNCHANGED claim
  /\ UNCHANGED <<bus, slot, epout_buf, flight, polled, main_c, interrupted>>

\* memcpy(&p_hid->epout_buf.buffer, report, len)
Copy(c) ==
  /\ At(c, "copy")
  /\ epout_buf' = core[c].packet
  /\ Goto(c, "xfer")
  /\ UNCHANGED <<bus, slot, claim, flight, polled, main_c, interrupted>>

\* usbh_edpt_xfer; when the device is no longer known, release and fail.
Xfer(c) ==
  LET d == core[c].addr IN
  /\ At(c, "xfer")
  /\ claim' = [claim EXCEPT ![d] = "free"]
  /\ IF d \in attached
     THEN /\ flight' = [flight EXCEPT ![d] = core[c].packet]
          /\ IF c = "core0" THEN Goto(c, "task") ELSE Goto(c, "sent")
     ELSE Failed(c) /\ UNCHANGED flight
  /\ UNCHANGED <<bus, slot, epout_buf, polled, main_c, interrupted>>

-----------------------------------------------------------------------------
(* Core 0: xboxh_send reads the index and the address, in either order.    *)

ReadFirst(packet) ==
  /\ At("core0", "task")
  /\ \/ core' = [core EXCEPT !["core0"] =
                   [pc |-> "second", addr |-> 0, idx |-> xbox_controller_idx,
                    packet |-> packet]]
     \/ /\ xbox_controller_addr # 0
        /\ core' = [core EXCEPT !["core0"] =
                      [pc |-> "second", addr |-> xbox_controller_addr, idx |-> None,
                       packet |-> packet]]
  /\ UNCHANGED <<bus, slot, epout_buf, claim, flight, polled, main_c, interrupted>>

ReadSecond ==
  LET send == core["core0"] IN
  /\ At("core0", "second")
  /\ IF send.addr = 0
     THEN Sending("core0", xbox_controller_addr, send.idx, send.packet)
     ELSE Sending("core0", send.addr, xbox_controller_idx, send.packet)
  /\ UNCHANGED <<bus, slot, epout_buf, claim, flight, polled, main_c, interrupted>>

-----------------------------------------------------------------------------
(* Core 1: the callbacks.  tuh_task is executing events, at its own level  *)
(* or nested in xboxh_set_config.                                          *)

InTask == core["core1"].pc \in {"task", "wait"}

\* xboxh_open and the beginning of xboxh_set_config.  While a controller is in
\* use a second one is refused (asserted at line 213) and stays without a
\* driver.  An enumeration takes far longer than xboxh_send on core 0.
Enumerate(d, model) ==
  /\ At("core1", "task")
  /\ At("core0", "task")
  /\ d \in plugged \ attached
  /\ attached' = attached \union {d}
  /\ \/ /\ daddr = 0
        /\ daddr' = d
        /\ PID' = model
        /\ Sending("core1", d, 0, "power")
     \/ /\ daddr # 0
        /\ UNCHANGED <<slot, core>>
  /\ UNCHANGED <<plugged, gone, epout_buf, claim, flight, polled, main_c,
                 interrupted>>

\* After the power report set_config waits, after xboxone_s_init it does not.
Sent ==
  /\ At("core1", "sent")
  /\ Goto("core1", IF core["core1"].packet = "power" THEN "wait" ELSE "mount")
  /\ UNCHANGED <<bus, slot, epout_buf, claim, flight, polled, main_c, interrupted>>

Busy(d) == d \in attached /\ flight[d] # "none"

\* wait_for_tx_complete is over.
Waited ==
  /\ At("core1", "wait")
  /\ ~Busy(core["core1"].addr)
  /\ IF PID = "needs_init"
     THEN Sending("core1", core["core1"].addr, 0, "init")
     ELSE Goto("core1", "mount")
  /\ UNCHANGED <<bus, slot, epout_buf, claim, flight, polled, main_c, interrupted>>

\* xboxh_mount_cb
Mount ==
  /\ At("core1", "mount")
  /\ IF xbox_controller_idx = None
     THEN /\ xbox_controller_idx' = 0
          /\ xbox_controller_addr' = core["core1"].addr
     ELSE UNCHANGED main_c
  /\ Goto("core1", "poll")
  /\ UNCHANGED <<bus, slot, epout_buf, claim, flight, polled, interrupted>>

\* xboxh_receive_report at the end of set_config.
Poll ==
  LET d == core["core1"].addr IN
  /\ At("core1", "poll")
  /\ polled' = IF daddr = d /\ d \in attached
               THEN [polled EXCEPT ![d] = TRUE] ELSE polled
  /\ Goto("core1", "task")
  /\ UNCHANGED <<bus, slot, epout_buf, claim, flight, main_c, interrupted>>

\* The OUT transfer ends, with or without success: xboxh_xfer_cb.
OutDone(d) ==
  /\ InTask
  /\ flight[d] # "none"
  /\ flight' = [flight EXCEPT ![d] = "none"]
  /\ UNCHANGED <<bus, slot, epout_buf, claim, polled, main_c, core, interrupted>>

\* Mutant: the endpoint is not polled again.
PollsOnce(d) == FALSE

PollsAgain(d) == daddr = d

\* The IN transfer ends, with or without success: xboxh_xfer_cb hands the
\* report to xboxh_packet_received_cb and polls again.
InDone(d) ==
  /\ InTask
  /\ polled[d]
  /\ polled' = [polled EXCEPT ![d] = PollsAgain(d)]
  /\ UNCHANGED <<bus, slot, epout_buf, claim, flight, main_c, core, interrupted>>

\* Mutants: xboxh_umount_cb leaves the index as it is; it clears it for whatever
\* controller is removed.
StaysMounted(d) == FALSE
UnmountsAny(d)  == xbox_controller_idx = 0

Unmounts(d) == daddr = d /\ xbox_controller_idx = 0

\* Mutant: xboxh_close leaves the address in its place.
ClosesNothing(d) == daddr

Closed(d) == IF daddr = d THEN 0 ELSE daddr

\* The removal is processed: xboxh_close and xboxh_umount_cb.
Remove(d) ==
  /\ InTask
  /\ d \in gone
  /\ attached' = attached \ {d}
  /\ gone' = gone \ {d}
  /\ daddr' = Closed(d)
  /\ xbox_controller_idx' = IF Unmounts(d) THEN None ELSE xbox_controller_idx
  /\ xbox_controller_addr' = IF Unmounts(d) THEN None ELSE xbox_controller_addr
  /\ claim' = [claim EXCEPT ![d] = "free"]
  /\ flight' = [flight EXCEPT ![d] = "none"]
  /\ polled' = [polled EXCEPT ![d] = FALSE]
  /\ interrupted' = (interrupted \/ (At("core1", "wait") /\ core["core1"].addr = d))
  /\ UNCHANGED <<plugged, PID, epout_buf, core>>

-----------------------------------------------------------------------------
Send(c) == Lookup(c) \/ Claim(c) \/ Copy(c) \/ Xfer(c)

Core0 == ReadSecond \/ Send("core0")
Core1 == Send("core1") \/ Sent \/ Waited \/ Mount \/ Poll

Next ==
  \/ Core0 \/ Core1
  \/ \E packet \in Relays : ReadFirst(packet)
  \/ \E d \in Addresses :
       \/ Plug(d) \/ Unplug(d) \/ OutDone(d) \/ InDone(d) \/ Remove(d)
       \/ \E model \in Models : Enumerate(d, model)

Spec == Init /\ [][Next]_vars

\* Both cores go on; the stack ends every transfer and processes every removal;
\* it enumerates a controller that stays on the bus when core 0 lets it.
FairSpec ==
  /\ Spec
  /\ WF_vars(Core0) /\ WF_vars(Core1)
  /\ \A d \in Addresses :
       /\ WF_vars(OutDone(d)) /\ WF_vars(Remove(d))
       /\ SF_vars(\E model \in Models : Enumerate(d, model))

-----------------------------------------------------------------------------
\* Every variable has its type; the driver's one place is taken only by a
\* controller the stack knows of.
TypeOK ==
  /\ plugged \in SUBSET Addresses /\ attached \in SUBSET Addresses
  /\ gone \in SUBSET attached
  /\ daddr \in attached \union {0} /\ PID \in Models
  /\ epout_buf \in Packets \union {"none"}
  /\ claim \in [Addresses -> Cores \union {"free"}]
  /\ flight \in [Addresses -> Packets \union {"none"}]
  /\ polled \in [Addresses -> BOOLEAN]
  /\ xbox_controller_idx \in {0, None}
  /\ xbox_controller_addr \in Addresses \union {None}
  /\ core \in [Cores -> [pc : Labels, addr : Addresses \union {0, None},
                         idx : {0, None}, packet : Packets]]
  /\ interrupted \in BOOLEAN

\* The one buffer of the OUT endpoint is not touched while it is being sent,
\* although both cores send: the report that leaves is the report that was
\* given to the endpoint, also when core 0 relays before xboxone_s_init is out, or
\* one packet of the console right after another.
EpoutIntact ==
  daddr # 0 => (flight[daddr] # "none" => epout_buf = flight[daddr])

\* Outside the callbacks main.c's idea of the controller is the driver's, and
\* the controller is being polled, so that its next report will be received;
\* unless a controller was removed in the middle of xboxh_set_config.
MountedIsPolled ==
  ~interrupted /\ At("core1", "task") /\ xbox_controller_idx # None
    => /\ daddr = xbox_controller_addr
       /\ daddr # 0 /\ polled[daddr]

Usable(d) == xbox_controller_idx = 0 /\ xbox_controller_addr = d /\ polled[d]

\* A controller that was enumerated while another one still held the driver's
\* place: xboxh_open refused it, and nobody opens it later.
TurnedAway(d) == d \in attached /\ daddr # d

\* A controller that ends up as the only one, for good, is in use in the end, also
\* when it and others were plugged and unplugged before in any order; unless it was
\* turned away, or a controller was removed in the middle of xboxh_set_config.
StaysUsable ==
  \A d \in Addresses :
    <>[](plugged = {d} /\ ~interrupted) => <>[](Usable(d) \/ TurnedAway(d))

\* xbox_controller_driver.c:272 asserts that the controller that has just been
\* mounted can be polled.
PollsWhatIsMounted == At("core1", "poll") => daddr = core["core1"].addr

=============================================================================
