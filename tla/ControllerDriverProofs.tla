----------------------- MODULE ControllerDriverProofs -----------------------
(***************************************************************************)
(* Proofs about ControllerDriver, for any set of USB addresses.            *)
(***************************************************************************)
EXTENDS ControllerDriver, TLAPS

-----------------------------------------------------------------------------
(* The inductive invariant.                                                *)

Sends == {"lookup", "claim", "copy", "xfer"}
Frame == [pc : Labels, addr : Addresses \union {0, None}, idx : {0, None},
          packet : Packets]

\* Where the cores can be, and whom their sends are for.  Core 1 always works
\* on the controller that was enumerated; core 0's address is whatever main.c
\* had, until the lookup finds it in use.
PlaceInv ==
  /\ core["core0"].pc \in Sends \union {"task", "second"}
  /\ core["core1"].pc # "second"
  /\ core["core1"].pc # "task" => core["core1"].addr \in Addresses
  /\ \A c \in Cores : /\ core[c].pc = "lookup" => core[c].addr # 0
                      /\ core[c].pc \in {"claim", "copy", "xfer"} =>
                           /\ core[c].addr \in Addresses
                           /\ daddr \in {0, core[c].addr}

\* The claim is what keeps the two cores apart: while the controller is still
\* the one in use, a core that fills the buffer has the claim, a claimed
\* endpoint sends nothing, and an unknown controller has neither.
ClaimInv ==
  /\ \A d \in Addresses : flight[d] # "none" => claim[d] = "free"
  /\ \A d \in Addresses \ attached : flight[d] = "none" /\ claim[d] = "free"
  /\ \A c \in Cores :
       core[c].pc \in {"copy", "xfer"} /\ core[c].addr = daddr => claim[daddr] = c
  /\ \A c \in Cores :
       core[c].pc = "xfer" /\ core[c].addr = daddr => epout_buf = core[c].packet

\* Until a controller is removed in the middle of xboxh_set_config, the driver's
\* place is held by the controller being configured, and main.c has none before
\* the mount callback; after it main.c has the one in that place.
MountInv ==
  ~interrupted =>
    /\ core["core1"].pc # "task" => daddr = core["core1"].addr
    /\ xbox_controller_idx # None =>
         /\ core["core1"].pc \in {"task", "poll"}
         /\ daddr = xbox_controller_addr
         /\ daddr # 0
         /\ core["core1"].pc = "task" => polled[daddr]

-----------------------------------------------------------------------------
(* Moving a core.                                                          *)

\* USB addresses are none of the numbers that stand for no address.
LEMMA NoAddress == 0 \notin Addresses /\ None \notin Addresses
BY ControllerAssumption DEF None

\* Goto moves one core and leaves its arguments and the other core alone.
LEMMA GotoCore ==
  ASSUME core \in [Cores -> Frame], NEW c \in Cores, NEW pc \in Labels, Goto(c, pc)
  PROVE  /\ core' \in [Cores -> Frame]
         /\ core'[c].pc = pc
         /\ core'[c].addr = core[c].addr
         /\ core'[c].idx = core[c].idx
         /\ core'[c].packet = core[c].packet
         /\ \A e \in Cores \ {c} : core'[e] = core[e]
BY DEF Goto, Frame

\* Sending starts a send on one core.
LEMMA SendingCore ==
  ASSUME core \in [Cores -> Frame], NEW c \in Cores,
         NEW addr \in Addresses \union {0, None}, NEW idx \in {0, None},
         NEW packet \in Packets, Sending(c, addr, idx, packet)
  PROVE  /\ core' \in [Cores -> Frame]
         /\ core'[c].pc = "lookup"
         /\ core'[c].addr = addr
         /\ core'[c].idx = idx
         /\ core'[c].packet = packet
         /\ \A e \in Cores \ {c} : core'[e] = core[e]
BY DEF Sending, Frame, Labels

-----------------------------------------------------------------------------
(* Types and places.                                                       *)

\* The statics are of their types: nothing is plugged in, both cores are idle.
LEMMA PlaceInit == Init => TypeOK /\ PlaceInv
<1> SUFFICES ASSUME Init PROVE TypeOK /\ PlaceInv
  OBVIOUS
<1>1. core \in [Cores -> Frame]
  BY DEF Init, Frame, Labels, Packets, Relays
<1>2. \A c \in Cores : core[c].pc = "task"
  BY DEF Init
<1>3. PlaceInv
  BY <1>2 DEF PlaceInv, Sends, Cores
<1>4. /\ claim \in [Addresses -> Cores \union {"free"}]
      /\ flight \in [Addresses -> Packets \union {"none"}]
      /\ polled \in [Addresses -> BOOLEAN]
  BY DEF Init
<1> QED
  BY <1>1, <1>3, <1>4 DEF Init, TypeOK, Frame, Models

\* Every step keeps the types and the places.
LEMMA PlaceStep == TypeOK /\ PlaceInv /\ [Next]_vars => TypeOK' /\ PlaceInv'
<1> SUFFICES ASSUME TypeOK, PlaceInv, [Next]_vars PROVE TypeOK' /\ PlaceInv'
  OBVIOUS
<1> USE DEF At
<1>1. /\ core \in [Cores -> Frame]
      /\ "core0" \in Cores /\ "core1" \in Cores
      /\ \A pc \in Sends \union {"task", "second", "sent", "wait", "mount", "poll"} : pc \in Labels
  BY DEF TypeOK, Frame, Cores, Sends, Labels
<1>2. ASSUME NEW d \in Addresses, Plug(d) \/ Unplug(d) \/ OutDone(d) \/ InDone(d)
      PROVE  TypeOK' /\ PlaceInv'
  <2>1. UNCHANGED <<daddr, PID, attached, core, epout_buf, claim, main_c, interrupted>>
    BY <1>2 DEF Plug, Unplug, OutDone, InDone, bus, slot, main_c
  <2>2. PlaceInv'
    BY <2>1 DEF PlaceInv
  <2>3. plugged' \in SUBSET Addresses /\ gone' \in SUBSET attached
    BY <1>2 DEF Plug, Unplug, OutDone, InDone, bus, TypeOK
  <2>4. flight' \in [Addresses -> Packets \union {"none"}]
    BY <1>2 DEF Plug, Unplug, OutDone, InDone, TypeOK
  <2>5. polled' \in [Addresses -> BOOLEAN]
    BY <1>2 DEF Plug, Unplug, OutDone, InDone, PollsAgain, TypeOK
  <2> QED
    BY <2>1, <2>2, <2>3, <2>4, <2>5 DEF TypeOK, main_c
<1>3. ASSUME NEW d \in Addresses, Remove(d)
      PROVE  TypeOK' /\ PlaceInv'
  <2>1. /\ attached' \in SUBSET Addresses /\ gone' \in SUBSET attached'
        /\ daddr' \in attached' \union {0}
        /\ daddr' \in {0, daddr}
    BY <1>3 DEF Remove, Closed, TypeOK
  <2>2. PlaceInv'
    BY <1>3, <2>1 DEF Remove, PlaceInv
  <2>3. /\ claim' \in [Addresses -> Cores \union {"free"}]
        /\ flight' \in [Addresses -> Packets \union {"none"}]
        /\ polled' \in [Addresses -> BOOLEAN]
    BY <1>3 DEF Remove, TypeOK
  <2>4. /\ xbox_controller_idx' \in {0, None}
        /\ xbox_controller_addr' \in Addresses \union {None}
        /\ interrupted' \in BOOLEAN
    BY <1>3 DEF Remove, TypeOK
  <2> QED
    BY <1>3, <2>1, <2>2, <2>3, <2>4 DEF Remove, TypeOK
<1>4. ASSUME NEW d \in Addresses, NEW model \in Models, Enumerate(d, model)
      PROVE  TypeOK' /\ PlaceInv'
  <2>1. /\ attached' = attached \union {d}
        /\ core["core0"].pc = "task" /\ core["core1"].pc = "task"
    BY <1>4 DEF Enumerate
  <2>2. CASE daddr = 0 /\ daddr' = d /\ PID' = model /\ Sending("core1", d, 0, "power")
    <3>1. /\ core' \in [Cores -> Frame]
          /\ core'["core1"].pc = "lookup"
          /\ core'["core1"].addr = d
          /\ core'["core0"] = core["core0"]
      BY <1>1, <2>2, SendingCore DEF Packets, Cores
    <3>2. PlaceInv'
      BY <2>1, <3>1, NoAddress DEF PlaceInv, Sends, Cores
    <3> QED
      BY <1>4, <2>1, <2>2, <3>1, <3>2 DEF Enumerate, TypeOK, Frame, main_c
  <2>3. CASE UNCHANGED <<slot, core>>
    BY <1>4, <2>1, <2>3 DEF Enumerate, TypeOK, PlaceInv, main_c, slot
  <2> QED
    BY <1>4, <2>2, <2>3 DEF Enumerate
<1>5. ASSUME NEW c \in Cores, Lookup(c)
      PROVE  TypeOK' /\ PlaceInv'
  <2>1. PICK pc \in {"claim", "task"} :
          Goto(c, pc) /\ (pc = "claim" => daddr = core[c].addr)
    BY <1>5 DEF Lookup, Failed
  <2>2. /\ core' \in [Cores -> Frame]
        /\ core'[c].pc = pc /\ core'[c].addr = core[c].addr
        /\ \A e \in Cores \ {c} : core'[e] = core[e]
    BY <1>1, <2>1, GotoCore DEF Labels
  <2>3. pc = "claim" => core[c].addr \in Addresses
    BY <1>5, <2>1 DEF Lookup, PlaceInv, TypeOK
  <2>4. PlaceInv'
    BY <1>5, <2>1, <2>2, <2>3 DEF Lookup, PlaceInv, Sends, slot, Cores
  <2> QED
    BY <1>5, <2>2, <2>4 DEF Lookup, TypeOK, Frame, bus, slot, main_c
<1>6. ASSUME NEW c \in Cores, Claim(c) \/ Copy(c) \/ Xfer(c)
      PROVE  TypeOK' /\ PlaceInv'
  <2>1. /\ core[c].pc \in {"claim", "copy", "xfer"}
        /\ UNCHANGED <<plugged, attached, gone, daddr, PID, polled,
                       xbox_controller_idx, xbox_controller_addr, interrupted>>
    BY <1>6 DEF Claim, Copy, Xfer, bus, slot, main_c
  <2>2. PICK pc \in {"copy", "xfer", "task", "sent"} :
          Goto(c, pc) /\ (pc = "sent" => c # "core0")
    BY <1>6 DEF Claim, Copy, Xfer, Failed
  <2>3. /\ core' \in [Cores -> Frame]
        /\ core'[c].pc = pc /\ core'[c].addr = core[c].addr
        /\ \A e \in Cores \ {c} : core'[e] = core[e]
    BY <1>1, <2>2, GotoCore DEF Labels
  <2>4. PlaceInv'
    BY <2>1, <2>2, <2>3 DEF PlaceInv, Sends, Cores
  <2>5. /\ claim' \in [Addresses -> Cores \union {"free"}]
        /\ flight' \in [Addresses -> Packets \union {"none"}]
        /\ epout_buf' \in Packets \union {"none"}
    BY <1>6, <2>1 DEF Claim, Copy, Xfer, TypeOK
  <2> QED
    BY <2>1, <2>3, <2>4, <2>5 DEF TypeOK, Frame
<1>7. ASSUME NEW packet \in Relays, ReadFirst(packet)
      PROVE  TypeOK' /\ PlaceInv'
  <2>1. core' \in [Cores -> Frame]
    BY <1>1, <1>7 DEF ReadFirst, TypeOK, Frame, Labels, Packets
  <2>2. core'["core0"].pc = "second" /\ core'["core1"] = core["core1"]
    BY <1>1, <1>7 DEF ReadFirst, Cores
  <2>3. PlaceInv'
    BY <1>7, <2>2 DEF ReadFirst, PlaceInv, Cores, slot
  <2> QED
    BY <1>7, <2>1, <2>3 DEF ReadFirst, TypeOK, Frame, bus, slot, main_c
<1>8. CASE ReadSecond
  <2>1. PICK addr \in Addresses \union {0, None}, idx \in {0, None} :
          Sending("core0", addr, idx, core["core0"].packet) /\ addr # 0
    BY <1>1, <1>8, NoAddress DEF ReadSecond, TypeOK, Frame, None
  <2>2. /\ core' \in [Cores -> Frame]
        /\ core'["core0"].pc = "lookup" /\ core'["core0"].addr = addr
        /\ core'["core1"] = core["core1"]
    <3>1. core["core0"].packet \in Packets
      BY <1>1 DEF Frame
    <3> QED
      BY <1>1, <2>1, <3>1, SendingCore DEF Cores
  <2>3. PlaceInv'
    BY <1>8, <2>1, <2>2 DEF ReadSecond, PlaceInv, Sends, Cores, slot
  <2> QED
    BY <1>8, <2>2, <2>3 DEF ReadSecond, TypeOK, Frame, bus, slot, main_c
<1>9. CASE Sent \/ Mount \/ Poll
  <2>1. PICK pc \in {"wait", "mount", "poll", "task"} : Goto("core1", pc)
    BY <1>9 DEF Sent, Mount, Poll
  <2>2. /\ core' \in [Cores -> Frame]
        /\ core'["core1"].pc = pc /\ core'["core1"].addr = core["core1"].addr
        /\ core'["core0"] = core["core0"]
    BY <1>1, <2>1, GotoCore DEF Labels, Cores
  <2>3. core["core1"].addr \in Addresses
    BY <1>9 DEF Sent, Mount, Poll, PlaceInv
  <2>4. UNCHANGED <<plugged, attached, gone, daddr, PID, epout_buf, claim, flight, interrupted>>
    BY <1>9 DEF Sent, Mount, Poll, bus, slot
  <2>5. PlaceInv'
    BY <2>2, <2>3, <2>4 DEF PlaceInv, Cores
  <2>6. polled' \in [Addresses -> BOOLEAN]
    BY <1>9 DEF Sent, Mount, Poll, TypeOK
  <2>7. xbox_controller_idx' \in {0, None} /\ xbox_controller_addr' \in Addresses \union {None}
    BY <1>9, <2>3 DEF Sent, Mount, Poll, TypeOK, main_c
  <2> QED
    BY <2>2, <2>4, <2>5, <2>6, <2>7 DEF TypeOK, Frame
<1>10. CASE Waited
  <2>1. core["core1"].pc = "wait" /\ core["core1"].addr \in Addresses
    BY <1>10 DEF Waited, PlaceInv
  <2>2. PICK pc \in {"lookup", "mount"} :
          /\ core' \in [Cores -> Frame]
          /\ core'["core1"].pc = pc /\ core'["core1"].addr = core["core1"].addr
          /\ core'["core0"] = core["core0"]
    <3>1. CASE Sending("core1", core["core1"].addr, 0, "init")
      BY <1>1, <2>1, <3>1, SendingCore DEF Packets, Cores
    <3>2. CASE Goto("core1", "mount")
      BY <1>1, <3>2, GotoCore DEF Labels, Cores
    <3> QED
      BY <1>10, <3>1, <3>2 DEF Waited
  <2>3. PlaceInv'
    BY <1>10, <2>1, <2>2, NoAddress DEF Waited, PlaceInv, Sends, Cores, slot
  <2> QED
    BY <1>10, <2>2, <2>3 DEF Waited, TypeOK, Frame, bus, slot, main_c
<1>11. CASE UNCHANGED vars
  BY <1>11 DEF vars, bus, slot, main_c, TypeOK, PlaceInv
<1> QED
  BY <1>1, <1>2, <1>3, <1>4, <1>5, <1>6, <1>7, <1>8, <1>9, <1>10, <1>11
     DEF Next, Core0, Core1, Send

\* Every variable keeps its type; in particular the driver's place is never
\* held by a controller the stack no longer knows.
THEOREM Typing == Spec => []TypeOK
<1> QED
  BY PlaceInit, PlaceStep, PTL DEF Spec

-----------------------------------------------------------------------------
(* The OUT buffer.                                                         *)

\* Nothing is claimed or sent at the start.
LEMMA ClaimInit == Init => ClaimInv /\ MountInv /\ EpoutIntact
<1> SUFFICES ASSUME Init PROVE ClaimInv /\ MountInv /\ EpoutIntact
  OBVIOUS
<1>1. \A c \in Cores : core[c].pc = "task"
  BY DEF Init
<1>2. \A d \in Addresses : flight[d] = "none" /\ claim[d] = "free"
  BY DEF Init
<1>3. ClaimInv
  BY <1>1, <1>2 DEF ClaimInv
<1>4. MountInv /\ EpoutIntact
  BY <1>1 DEF Init, MountInv, EpoutIntact, Cores
<1> QED
  BY <1>3, <1>4

\* Every step keeps the buffer with the core that has the claim.
LEMMA ClaimStep ==
  TypeOK /\ PlaceInv /\ ClaimInv /\ [Next]_vars => ClaimInv'
<1> SUFFICES ASSUME TypeOK, PlaceInv, ClaimInv, [Next]_vars PROVE ClaimInv'
  OBVIOUS
<1> USE DEF At
<1>1. core \in [Cores -> Frame] /\ "core0" \in Cores /\ "core1" \in Cores
  BY DEF TypeOK, Frame, Cores
<1>2. ASSUME NEW d \in Addresses, Plug(d) \/ Unplug(d) \/ InDone(d)
      PROVE  ClaimInv'
  BY <1>2 DEF Plug, Unplug, InDone, ClaimInv, bus, slot
<1>3. ASSUME NEW d \in Addresses, OutDone(d)
      PROVE  ClaimInv'
  BY <1>3 DEF OutDone, ClaimInv, TypeOK, bus, slot
<1>4. ASSUME NEW d \in Addresses, Remove(d)
      PROVE  ClaimInv'
  <2>1. /\ attached' = attached \ {d}
        /\ daddr' = IF daddr = d THEN 0 ELSE daddr
        /\ claim' = [claim EXCEPT ![d] = "free"]
        /\ flight' = [flight EXCEPT ![d] = "none"]
        /\ UNCHANGED <<epout_buf, core>>
    BY <1>4 DEF Remove, Closed
  <2>2. \A c \in Cores : core[c].pc \in {"copy", "xfer"} /\ core[c].addr = daddr'
                           => daddr' = daddr /\ daddr # d
    BY <2>1, NoAddress DEF PlaceInv
  <2>3. claim \in [Addresses -> Cores \union {"free"}] /\ flight \in [Addresses -> Packets \union {"none"}]
    BY DEF TypeOK
  <2>4. \A e \in Addresses : /\ flight'[e] = IF e = d THEN "none" ELSE flight[e]
                             /\ claim'[e] = IF e = d THEN "free" ELSE claim[e]
    BY <2>1, <2>3
  <2>5. \A c \in Cores : core[c].pc \in {"copy", "xfer"} => core[c].addr \in Addresses
    BY DEF PlaceInv
  <2> QED
    BY <2>1, <2>2, <2>4, <2>5 DEF ClaimInv
<1>5. ASSUME NEW d \in Addresses, NEW model \in Models, Enumerate(d, model)
      PROVE  ClaimInv'
  <2>1. /\ attached \subseteq attached'
        /\ core["core0"].pc = "task" /\ core["core1"].pc = "task"
        /\ UNCHANGED <<claim, flight, epout_buf>>
        /\ UNCHANGED core \/ Sending("core1", d, 0, "power")
    BY <1>5 DEF Enumerate
  <2>2. \A c \in Cores : core'[c].pc \notin {"copy", "xfer"}
    BY <1>1, <2>1, SendingCore DEF Packets, Cores
  <2> QED
    BY <2>1, <2>2 DEF ClaimInv
<1>6. ASSUME NEW c \in Cores, Lookup(c)
      PROVE  ClaimInv'
  <2>1. /\ core'[c].pc \in {"claim", "task"}
        /\ \A e \in Cores \ {c} : core'[e] = core[e]
    BY <1>1, <1>6, GotoCore DEF Lookup, Failed, Labels
  <2> QED
    BY <1>6, <2>1 DEF Lookup, ClaimInv, bus, slot
<1>7. ASSUME NEW c \in Cores, Claim(c)
      PROVE  ClaimInv'
  <2> DEFINE d == core[c].addr
  <2>1. d \in Addresses /\ claim \in [Addresses -> Cores \union {"free"}]
    BY <1>7 DEF Claim, PlaceInv, TypeOK
  <2>2. CASE Available(d)
    <3>1. /\ claim' = [claim EXCEPT ![d] = c] /\ flight[d] = "none" /\ claim[d] = "free"
          /\ d \in attached
          /\ UNCHANGED <<attached, daddr, epout_buf, flight>>
          /\ Goto(c, "copy")
      BY <1>7, <2>2 DEF Claim, Available, bus, slot
    <3>2. /\ core'[c].pc = "copy" /\ core'[c].addr = d
          /\ \A e \in Cores \ {c} : core'[e] = core[e]
      BY <1>1, <3>1, GotoCore DEF Labels
    <3>3. /\ claim'[d] = c
          /\ \A e \in Addresses \ {d} : claim'[e] = claim[e]
      BY <2>1, <3>1
    <3>4. \A e \in Cores \ {c} :
            ~(core[e].pc \in {"copy", "xfer"} /\ core[e].addr = daddr /\ d = daddr)
      BY <3>1 DEF ClaimInv, Cores
    <3>5. \A e \in Cores : core[e].pc \in {"copy", "xfer"} => core[e].addr \in Addresses
      BY DEF PlaceInv
    <3> QED
      BY <3>1, <3>2, <3>3, <3>4, <3>5 DEF ClaimInv
  <2>3. CASE ~Available(d)
    <3>1. /\ core'[c].pc = "task"
          /\ \A e \in Cores \ {c} : core'[e] = core[e]
      BY <1>1, <1>7, <2>3, GotoCore DEF Claim, Failed, Labels
    <3> QED
      BY <1>7, <2>3, <3>1 DEF Claim, ClaimInv, bus, slot
  <2> QED
    BY <2>2, <2>3
<1>8. ASSUME NEW c \in Cores, Copy(c)
      PROVE  ClaimInv'
  <2>1. /\ core[c].pc = "copy" /\ core[c].addr \in Addresses
        /\ epout_buf' = core[c].packet
        /\ UNCHANGED <<attached, daddr, claim, flight>>
    BY <1>8 DEF Copy, PlaceInv, bus, slot
  <2>2. /\ core'[c].pc = "xfer" /\ core'[c].addr = core[c].addr
        /\ core'[c].packet = core[c].packet
        /\ \A e \in Cores \ {c} : core'[e] = core[e]
    BY <1>1, <1>8, GotoCore DEF Copy, Labels
  <2>3. ASSUME NEW e \in Cores \ {c}, core[e].pc = "xfer", core[e].addr = daddr
        PROVE  FALSE
    <3>1. daddr \in Addresses /\ claim[daddr] = e
      BY <2>3 DEF ClaimInv, PlaceInv
    <3>2. core[c].addr = daddr
      BY <2>1, <3>1, NoAddress DEF PlaceInv
    <3> QED
      BY <2>1, <3>1, <3>2 DEF ClaimInv
  <2> QED
    BY <2>1, <2>2, <2>3 DEF ClaimInv
<1>9. ASSUME NEW c \in Cores, Xfer(c)
      PROVE  ClaimInv'
  <2> DEFINE d == core[c].addr
  <2>1. /\ core[c].pc = "xfer" /\ d \in Addresses
        /\ claim' = [claim EXCEPT ![d] = "free"]
        /\ UNCHANGED <<attached, daddr, epout_buf>>
        /\ \/ d \in attached /\ flight' = [flight EXCEPT ![d] = core[c].packet]
           \/ d \notin attached /\ UNCHANGED flight
    BY <1>9 DEF Xfer, PlaceInv, bus, slot
  <2>2. /\ core'[c].pc \in {"task", "sent"}
        /\ \A e \in Cores \ {c} : core'[e] = core[e]
    BY <1>1, <1>9, GotoCore DEF Xfer, Failed, Labels
  <2>3. /\ claim'[d] = "free"
        /\ \A e \in Addresses \ {d} : claim'[e] = claim[e] /\ flight'[e] = flight[e]
        /\ d \notin attached => flight'[d] = flight[d]
    BY <2>1 DEF TypeOK
  <2>4. ASSUME NEW e \in Cores \ {c}, core[e].pc \in {"copy", "xfer"},
               core[e].addr = daddr
        PROVE  d # daddr /\ daddr \in Addresses
    <3>1. daddr \in Addresses /\ claim[daddr] = e
      BY <2>4 DEF ClaimInv, PlaceInv
    <3> QED
      BY <2>1, <3>1 DEF ClaimInv
  <2> QED
    BY <2>1, <2>2, <2>3, <2>4 DEF ClaimInv
<1>10. CASE ReadSecond \/ \E packet \in Relays : ReadFirst(packet)
  <2>1. /\ core'["core0"].pc \in {"second", "lookup"}
        /\ core'["core1"] = core["core1"]
    BY <1>1, <1>10 DEF ReadFirst, ReadSecond, Sending, Cores
  <2> QED
    BY <1>10, <2>1 DEF ReadFirst, ReadSecond, ClaimInv, Cores, bus, slot
<1>11. CASE Sent \/ Waited \/ Mount \/ Poll
  <2>1. /\ core'["core1"].pc \in {"wait", "lookup", "mount", "poll", "task"}
        /\ core'["core0"] = core["core0"]
    BY <1>1, <1>11 DEF Sent, Waited, Mount, Poll, Goto, Sending, Cores, Frame
  <2> QED
    BY <1>11, <2>1 DEF Sent, Waited, Mount, Poll, ClaimInv, Cores, bus, slot
<1>12. CASE UNCHANGED vars
  BY <1>12 DEF vars, bus, slot, ClaimInv
<1> QED
  BY <1>1, <1>2, <1>3, <1>4, <1>5, <1>6, <1>7, <1>8, <1>9, <1>10, <1>11, <1>12
     DEF Next, Core0, Core1, Send

\* Only Copy writes the buffer and only Xfer starts a transfer.
LEMMA EpoutStep ==
  TypeOK /\ PlaceInv /\ ClaimInv /\ EpoutIntact /\ [Next]_vars => EpoutIntact'
<1> SUFFICES ASSUME TypeOK, PlaceInv, ClaimInv, EpoutIntact, [Next]_vars PROVE EpoutIntact'
  OBVIOUS
<1> USE DEF At
<1>1. "core0" \in Cores /\ "core1" \in Cores
  BY DEF Cores
<1>2. ASSUME NEW d \in Addresses, OutDone(d)
      PROVE  EpoutIntact'
  BY <1>2 DEF OutDone, EpoutIntact, TypeOK, slot
<1>3. ASSUME NEW d \in Addresses, Remove(d)
      PROVE  EpoutIntact'
  BY <1>3 DEF Remove, Closed, EpoutIntact, TypeOK
<1>4. ASSUME NEW d \in Addresses, NEW model \in Models, Enumerate(d, model)
      PROVE  EpoutIntact'
  BY <1>4 DEF Enumerate, ClaimInv, EpoutIntact, slot
<1>5. ASSUME NEW c \in Cores, Copy(c)
      PROVE  EpoutIntact'
  <2>1. /\ core[c].pc = "copy"
        /\ UNCHANGED <<daddr, flight>>
    BY <1>5 DEF Copy, slot
  <2>2. daddr # 0 => daddr \in Addresses /\ claim[daddr] = c
    BY <2>1 DEF PlaceInv, ClaimInv
  <2>3. daddr # 0 => flight[daddr] = "none"
    BY <2>2 DEF ClaimInv, Cores
  <2> QED
    BY <2>1, <2>3 DEF EpoutIntact
<1>6. ASSUME NEW c \in Cores, Xfer(c)
      PROVE  EpoutIntact'
  <2>1. /\ core[c].pc = "xfer"
        /\ UNCHANGED <<daddr, epout_buf>>
        /\ \/ flight' = [flight EXCEPT ![core[c].addr] = core[c].packet]
           \/ UNCHANGED flight
    BY <1>6 DEF Xfer, slot
  <2>2. daddr # 0 => daddr = core[c].addr /\ epout_buf = core[c].packet
    BY <2>1 DEF PlaceInv, ClaimInv
  <2> QED
    BY <2>1, <2>2 DEF EpoutIntact, TypeOK
<1>7. CASE \/ ReadSecond \/ Sent \/ Waited \/ Mount \/ Poll
           \/ \E packet \in Relays : ReadFirst(packet)
           \/ \E c \in Cores : Lookup(c) \/ Claim(c)
           \/ \E d \in Addresses : Plug(d) \/ Unplug(d) \/ InDone(d)
           \/ UNCHANGED vars
  <2>1. UNCHANGED <<daddr, flight, epout_buf>>
    BY <1>7 DEF ReadFirst, ReadSecond, Sent, Waited, Mount, Poll, Lookup, Claim,
                Plug, Unplug, InDone, vars, slot
  <2> QED
    BY <2>1 DEF EpoutIntact
<1> QED
  BY <1>1, <1>2, <1>3, <1>4, <1>5, <1>6, <1>7 DEF Next, Core0, Core1, Send

\* The report that leaves the OUT buffer is the one that was given to the
\* endpoint, whichever core gave it, for any number of controllers that come
\* and go.
THEOREM BufferIntact == Spec => []EpoutIntact
<1>1. Init => TypeOK /\ PlaceInv /\ ClaimInv /\ EpoutIntact
  BY PlaceInit, ClaimInit
<1>2. TypeOK /\ PlaceInv /\ ClaimInv /\ EpoutIntact /\ [Next]_vars
        => (TypeOK /\ PlaceInv /\ ClaimInv /\ EpoutIntact)'
  BY PlaceStep, ClaimStep, EpoutStep
<1> QED
  BY <1>1, <1>2, PTL DEF Spec

-----------------------------------------------------------------------------
(* The controller in use.                                                  *)

\* Every step keeps main.c's controller the driver's.
LEMMA MountStep ==
  TypeOK /\ PlaceInv /\ MountInv /\ [Next]_vars => MountInv'
<1> SUFFICES ASSUME TypeOK, PlaceInv, MountInv, [Next]_vars PROVE MountInv'
  OBVIOUS
<1> USE DEF At
<1>1. core \in [Cores -> Frame] /\ "core0" \in Cores /\ "core1" \in Cores
  BY DEF TypeOK, Frame, Cores
<1>2. ASSUME NEW d \in Addresses, Plug(d) \/ Unplug(d) \/ OutDone(d)
      PROVE  MountInv'
  BY <1>2 DEF Plug, Unplug, OutDone, MountInv, slot, main_c
<1>3. ASSUME NEW d \in Addresses, InDone(d)
      PROVE  MountInv'
  BY <1>3 DEF InDone, PollsAgain, MountInv, TypeOK, slot, main_c
<1>4. ASSUME NEW d \in Addresses, Remove(d)
      PROVE  MountInv'
  <2>1. CASE daddr = d
    BY <1>4, <2>1 DEF Remove, InTask, Unmounts, MountInv, TypeOK
  <2>2. CASE daddr # d
    BY <1>4, <2>2 DEF Remove, InTask, Closed, Unmounts, MountInv, TypeOK
  <2> QED
    BY <2>1, <2>2
<1>5. ASSUME NEW d \in Addresses, NEW model \in Models, Enumerate(d, model)
      PROVE  MountInv'
  <2>1. CASE UNCHANGED <<slot, core>>
    BY <1>5, <2>1 DEF Enumerate, MountInv, slot, main_c
  <2>2. CASE daddr = 0 /\ daddr' = d /\ Sending("core1", d, 0, "power")
    <3>1. core'["core1"].pc = "lookup" /\ core'["core1"].addr = d
      BY <1>1, <2>2, SendingCore DEF Packets
    <3> QED
      BY <1>5, <2>2, <3>1 DEF Enumerate, MountInv, main_c
  <2> QED
    BY <1>5, <2>1, <2>2 DEF Enumerate
<1>6. ASSUME NEW c \in Cores, Send(c)
      PROVE  MountInv'
  <2>1. /\ UNCHANGED <<daddr, polled, xbox_controller_idx, xbox_controller_addr, interrupted>>
        /\ core[c].pc \in Sends
    BY <1>6 DEF Send, Lookup, Claim, Copy, Xfer, slot, main_c, Sends
  <2>2. PICK pc \in {"task", "claim", "copy", "xfer", "sent"} : Goto(c, pc)
    BY <1>6 DEF Send, Lookup, Claim, Copy, Xfer, Failed
  <2>3. /\ core'[c].pc = pc /\ core'[c].addr = core[c].addr
        /\ \A e \in Cores \ {c} : core'[e] = core[e]
    BY <1>1, <2>2, GotoCore DEF Labels
  <2>4. CASE c = "core0"
    BY <1>1, <2>1, <2>3, <2>4 DEF MountInv, Cores
  <2>5. CASE c = "core1"
    BY <2>1, <2>3, <2>5 DEF MountInv, Sends
  <2> QED
    BY <2>4, <2>5 DEF Cores
<1>7. CASE ReadSecond \/ \E packet \in Relays : ReadFirst(packet)
  <2>1. core'["core1"] = core["core1"]
    BY <1>1, <1>7 DEF ReadFirst, ReadSecond, Sending
  <2> QED
    BY <1>7, <2>1 DEF ReadFirst, ReadSecond, MountInv, slot, main_c
<1>8. CASE Sent \/ Waited
  <2>1. /\ core["core1"].pc \in {"sent", "wait"}
        /\ core'["core1"].pc \in {"wait", "lookup", "mount"}
        /\ core'["core1"].addr = core["core1"].addr
    BY <1>1, <1>8 DEF Sent, Waited, Goto, Sending, Frame
  <2> QED
    BY <1>8, <2>1 DEF Sent, Waited, MountInv, slot, main_c
<1>9. CASE Mount
  <2>1. /\ core["core1"].pc = "mount" /\ core["core1"].addr \in Addresses
        /\ core'["core1"].pc = "poll" /\ core'["core1"].addr = core["core1"].addr
    BY <1>1, <1>9, GotoCore DEF Mount, Labels, PlaceInv
  <2> QED
    BY <1>9, <2>1, NoAddress DEF Mount, MountInv, slot, main_c
<1>10. CASE Poll
  <2>1. /\ core["core1"].pc = "poll" /\ core["core1"].addr \in Addresses
        /\ core'["core1"].pc = "task"
    BY <1>1, <1>10, GotoCore DEF Poll, Labels, PlaceInv
  <2>2. ~interrupted => polled'[daddr]
    BY <1>10, <2>1, NoAddress DEF Poll, MountInv, TypeOK
  <2> QED
    BY <1>10, <2>1, <2>2 DEF Poll, MountInv, slot, main_c
<1>11. CASE UNCHANGED vars
  BY <1>11 DEF vars, slot, main_c, MountInv
<1> QED
  BY <1>1, <1>2, <1>3, <1>4, <1>5, <1>6, <1>7, <1>8, <1>9, <1>10, <1>11
     DEF Next, Core0, Core1

\* Whatever is plugged and unplugged, in whatever order the callbacks come:
\* unless a controller was removed while it was being configured, main.c's
\* controller is the one that holds the driver's place, and it is being polled.
THEOREM Polled == Spec => []MountedIsPolled
<1>1. Init => TypeOK /\ PlaceInv /\ MountInv
  BY PlaceInit, ClaimInit
<1>2. TypeOK /\ PlaceInv /\ MountInv /\ [Next]_vars => (TypeOK /\ PlaceInv /\ MountInv)'
  BY PlaceStep, MountStep
<1>3. MountInv => MountedIsPolled
  BY DEF MountInv, MountedIsPolled, At
<1> QED
  BY <1>1, <1>2, <1>3, PTL DEF Spec

=============================================================================
