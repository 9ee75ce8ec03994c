--------------------------- MODULE UsbDeviceProofs ---------------------------
(***************************************************************************)
(* Proofs about UsbDevice, for any number of packets and resets: the walk  *)
(* along the descriptors succeeds, the console's requests are answered,    *)
(* the adapter keeps listening, and hears each frame once, in order, with  *)
(* at most one lost per reset and one overlooked per configuration.        *)
(***************************************************************************)
EXTENDS UsbDevice, FiniteSetTheorems, TLAPS

-----------------------------------------------------------------------------
(* The inductive invariants.                                               *)

Opened == [itf_num |-> 0, ep_in |-> ADAPTER_IN_NUM, ep_out |-> ADAPTER_OUT_NUM]

\* Before the walk and at its first descriptor the driver is as a reset leaves it.
Untouched ==
  /\ bound = {} /\ itf = Closed /\ opened = {} /\ at = 1
  /\ transfer = 0 /\ epout_buf = Empty /\ ~over

\* Behind the first interface its endpoints are open and the OUT transfer is given.
Serving ==
  /\ itf = Opened /\ opened = {ADAPTER_IN_NUM, ADAPTER_OUT_NUM}
  /\ transfer \in {EP_SIZE, PACKET_SIZE}

\* The walk comes to the descriptors 1, 4 and 8, in which interfaces begin, and
\* binds one interface at each.
WalkInv ==
  \/ stack \in {"default", "opening"} /\ Untouched
  \/ /\ stack = "opening" /\ Serving
     /\ epout_buf = Empty /\ ~over
     /\ \/ at = 4 /\ bound = {0}
        \/ at = 8 /\ bound = {0, 1}
  \/ stack = "configured" /\ Serving /\ at = DescriptorEnd /\ bound = Interfaces

\* The types of what the walk does not determine; a reset that is to come is
\* within the bound.
Rest ==
  /\ epout_buf \in [bytes : 0 .. PACKET_SIZE, frames : Seq(0 .. MaxPackets)]
  /\ over \in BOOLEAN /\ bus_reset \in BOOLEAN
  /\ sent \in 0 .. MaxPackets
  /\ handed \in Seq(Seq(0 .. MaxPackets))
  /\ resets \in 0 .. MaxResets
  /\ bus_reset => resets < MaxResets

\* A transfer that goes on has taken nothing, or a full packet into the longer
\* transfer.  One that is over has taken two packets at most, and if one of them
\* was a frame the bytes of a frame.
BufferInv ==
  /\ ~over => \/ epout_buf = Empty
              \/ /\ transfer = PACKET_SIZE /\ epout_buf.bytes = EP_SIZE
                 /\ Len(epout_buf.frames) = 1
  /\ \A q \in DOMAIN epout_buf.frames :
       epout_buf.frames[q] # 0 => epout_buf.bytes >= FRAME_SIZE

\* The frames in epout_buf are in order and come after all that were handed over,
\* and none has a number the console has not given yet.
FrameInv ==
  /\ \A k \in DOMAIN handed : \A p \in DOMAIN handed[k] : handed[k][p] <= sent
  /\ \A q \in DOMAIN epout_buf.frames :
       /\ epout_buf.frames[q] <= sent
       /\ epout_buf.frames[q] # 0 =>
            /\ \A p \in DOMAIN epout_buf.frames :
                 p < q => epout_buf.frames[p] < epout_buf.frames[q]
            /\ \A k \in DOMAIN handed : \A p \in DOMAIN handed[k] :
                 handed[k][p] < epout_buf.frames[q]

-----------------------------------------------------------------------------
(* The descriptors.                                                        *)

\* The configuration descriptor, entry by entry.
LEMMA Descriptors ==
  /\ DescriptorEnd = 12
  /\ D(1) = Interface(0, XINPUT, 2)
  /\ D(2) = Endpoint(ADAPTER_OUT_NUM) /\ D(3) = Endpoint(ADAPTER_IN_NUM)
  /\ D(4) = Interface(1, VENDOR, 0) /\ D(5) = Interface(1, VENDOR, 2)
  /\ D(6) = Endpoint(4) /\ D(7) = Endpoint(131)
  /\ D(8) = Interface(2, VENDOR, 0) /\ D(9) = Interface(2, VENDOR, 2)
  /\ D(10) = Endpoint(6) /\ D(11) = Endpoint(133)
BY DEF DescriptorEnd, D, ConfigurationDescriptor

\* Which of them are interfaces and which are endpoints.
LEMMA Kinds ==
  /\ \A k \in {1, 4, 5, 8, 9} : Is("interface", k) /\ ~Is("endpoint", k)
  /\ \A k \in {2, 3, 6, 7, 10, 11} : Is("endpoint", k) /\ ~Is("interface", k)
BY Descriptors DEF Is, Interface, Endpoint

\* The first interface has an endpoint for each direction behind it.
LEMMA FirstInterface ==
  LET n == D(1).endpoints
      eps == {D(k).address : k \in 2 .. 1 + n} IN
  /\ D(1).subclass = XINPUT /\ D(1).number = 0 /\ n = 2
  /\ AreEndpoints(2, n)
  /\ eps = {ADAPTER_IN_NUM, ADAPTER_OUT_NUM}
  /\ (CHOOSE a \in eps : IsIn(a)) = ADAPTER_IN_NUM
  /\ (CHOOSE a \in eps : ~IsIn(a)) = ADAPTER_OUT_NUM
<1> DEFINE n == D(1).endpoints
           eps == {D(k).address : k \in 2 .. 1 + n}
<1>1. D(1).subclass = XINPUT /\ D(1).number = 0 /\ n = 2
  BY Descriptors DEF Interface
<1>2. 2 .. 1 + n = {2, 3}
  BY <1>1
<1>3. D(2).address = ADAPTER_OUT_NUM /\ D(3).address = ADAPTER_IN_NUM
  BY Descriptors DEF Endpoint
<1>4. eps = {ADAPTER_IN_NUM, ADAPTER_OUT_NUM}
  BY <1>2, <1>3
<1>5. AreEndpoints(2, n)
  BY <1>1, Kinds DEF AreEndpoints
<1>6. /\ (CHOOSE a \in {ADAPTER_IN_NUM, ADAPTER_OUT_NUM} : IsIn(a)) = ADAPTER_IN_NUM
      /\ (CHOOSE a \in {ADAPTER_IN_NUM, ADAPTER_OUT_NUM} : ~IsIn(a)) = ADAPTER_OUT_NUM
  BY DEF IsIn, ADAPTER_IN_NUM, ADAPTER_OUT_NUM
<1> QED
  BY <1>1, <1>4, <1>5, <1>6

\* Behind each other interface comes its second setting, with two endpoints.
LEMMA OtherInterfaces ==
  \A k \in {4, 8} :
    /\ D(k).subclass # XINPUT /\ D(k).number = IF k = 4 THEN 1 ELSE 2
    /\ Alternates(k) = 1
    /\ D(k + 1).endpoints = 2 /\ AreEndpoints(k + 2, 2)
<1> TAKE k \in {4, 8}
<1>1. /\ D(k).subclass # XINPUT /\ D(k).number = IF k = 4 THEN 1 ELSE 2
      /\ D(k + 1).endpoints = 2 /\ D(k + 1).number = D(k).number
  BY Descriptors DEF Interface, XINPUT, VENDOR
<1>2. Is("interface", k + 1) /\ ~Is("interface", k + 2)
  BY Kinds
<1>3. AreEndpoints(k + 2, 2)
  BY Kinds DEF AreEndpoints
<1> DEFINE S == {m \in 0 .. DescriptorEnd - k - 1 :
                   \A j \in 1 .. m : /\ Is("interface", k + j)
                                     /\ D(Compared(k, j)).number = D(k).number}
<1>4. S = {0, 1}
  <2>1. 0 \in S
    BY Descriptors
  <2>2. 1 \in S
    BY <1>1, <1>2, Descriptors DEF Compared
  <2>3. ASSUME NEW m \in S PROVE m \in {0, 1}
    <3>1. m \in 0 .. DescriptorEnd - k - 1 /\ \A j \in 1 .. m : Is("interface", k + j)
      OBVIOUS
    <3>2. CASE m >= 2
      <4>1. Is("interface", k + 2)
        BY <3>1, <3>2, Descriptors
      <4> QED
        BY <4>1, <1>2
    <3> QED
      BY <3>1, <3>2, Descriptors
  <2> QED
    BY <2>1, <2>2, <2>3
<1>5. Max({0, 1}) = 1
  BY DEF Max
<1> QED
  BY <1>1, <1>3, <1>4, <1>5 DEF Alternates

-----------------------------------------------------------------------------
(* The walk.                                                               *)

\* xboxd_open takes the first interface, and the two settings of each other.
LEMMA OpenSteps ==
  ASSUME WalkInv, xboxd_open
  PROVE  /\ epout_buf' = epout_buf /\ over' = over
         /\ \/ /\ at = 1 /\ itf' = Opened /\ transfer' = PACKET_SIZE
               /\ opened' = {ADAPTER_IN_NUM, ADAPTER_OUT_NUM}
               /\ at' = 4 /\ bound' = {0} /\ stack' = "opening"
            \/ /\ UNCHANGED driver
               /\ \/ at = 4 /\ at' = 8 /\ bound' = {0, 1} /\ stack' = "opening"
                  \/ /\ at = 8 /\ at' = DescriptorEnd /\ bound' = Interfaces
                     /\ stack' = "configured"
<1>1. stack = "opening"
  BY DEF xboxd_open
<1>2. CASE at = 1
  <2>1. Untouched
    BY <1>1, <1>2 DEF WalkInv
  <2>2. OpenFirst
    BY <1>2, FirstInterface DEF xboxd_open
  <2>3. /\ itf' = Opened /\ transfer' = PACKET_SIZE
        /\ opened' = {ADAPTER_IN_NUM, ADAPTER_OUT_NUM} /\ Take(3)
        /\ epout_buf' = epout_buf /\ over' = over
    <3> DEFINE eps == {D(k).address : k \in at + 1 .. at + D(at).endpoints}
    <3>1. itf.ep_in = 0 /\ itf.ep_out = 0 /\ opened = {}
      BY <2>1 DEF Untouched, Closed
    <3>2. D(at).endpoints = 2 /\ D(at).number = 0 /\ AreEndpoints(at + 1, D(at).endpoints)
      BY <1>2, FirstInterface
    <3>3. at + 1 = 2 /\ at + D(at).endpoints = 1 + D(1).endpoints
      BY <1>2, <3>2
    <3>4. /\ eps = {ADAPTER_IN_NUM, ADAPTER_OUT_NUM}
          /\ (CHOOSE a \in eps : IsIn(a)) = ADAPTER_IN_NUM
          /\ (CHOOSE a \in eps : ~IsIn(a)) = ADAPTER_OUT_NUM
      BY <3>3, FirstInterface
    <3>5. /\ itf' = [itf_num |-> D(at).number, ep_in |-> CHOOSE a \in eps : IsIn(a),
                     ep_out |-> CHOOSE a \in eps : ~IsIn(a)]
          /\ opened' = opened \union eps /\ transfer' = PACKET_SIZE
          /\ Take(1 + D(at).endpoints) /\ UNCHANGED <<epout_buf, over>>
      BY <2>2, <3>1, <3>2 DEF OpenFirst
    <3>6. itf' = Opened
      BY <3>2, <3>4, <3>5 DEF Opened
    <3>7. 1 + D(at).endpoints = 3
      BY <3>2
    <3>8. Take(3)
      BY <3>5, <3>7
    <3> HIDE DEF eps
    <3> QED
      BY <3>1, <3>4, <3>5, <3>6, <3>8
  <2>4. at' = 4 /\ bound' = {0} /\ stack' = "opening"
    BY <1>2, <2>1, <2>3, FirstInterface, Descriptors DEF Take, Untouched
  <2> QED
    BY <1>2, <2>3, <2>4
<1>3. CASE at \in {4, 8}
  <2>1. OpenOther
    BY <1>3, OtherInterfaces DEF xboxd_open
  <2>2. Take(4) /\ UNCHANGED driver
    <3>1. Alternates(at) = 1 /\ D(at + 1).endpoints = 2 /\ AreEndpoints(at + 1 + 1, 2)
      BY <1>3, OtherInterfaces
    <3> QED
      BY <2>1, <3>1 DEF OpenOther
  <2>3. bound = IF at = 4 THEN {0} ELSE {0, 1}
    BY <1>1, <1>3, Descriptors DEF WalkInv, Untouched
  <2>4. /\ at' = at + 4 /\ bound' = bound \union {D(at).number}
        /\ stack' = IF at + 4 = DescriptorEnd THEN "configured" ELSE "opening"
    BY <1>3, <2>2, <2>3, OtherInterfaces, Descriptors DEF Take
  <2>5. Interfaces = {0, 1, 2}
    BY DEF Interfaces
  <2> QED
    BY <1>3, <2>2, <2>3, <2>4, <2>5, OtherInterfaces, Descriptors DEF driver
<1> QED
  BY <1>1, <1>2, <1>3 DEF WalkInv, Untouched

LEMMA WalkInit == Init => WalkInv
BY DEF Init, WalkInv, Untouched

LEMMA WalkStep == WalkInv /\ [Next]_vars => WalkInv'
<1> SUFFICES ASSUME WalkInv, [Next]_vars PROVE WalkInv'
  OBVIOUS
<1>1. CASE SetConfiguration
  BY <1>1 DEF SetConfiguration, WalkInv, Untouched, Serving, driver
<1>2. CASE xboxd_open
  <2>1. CASE at = 1
    BY <1>2, <2>1, OpenSteps, Descriptors DEF WalkInv, Untouched, Serving, xboxd_open
  <2>2. CASE at # 1
    BY <1>2, <2>2, OpenSteps, Descriptors DEF WalkInv, Untouched, Serving, xboxd_open, driver
  <2> QED
    BY <2>1, <2>2
<1>3. CASE BusReset
  BY <1>3 DEF BusReset, WalkInv, Untouched, Serving, driver
<1>4. CASE BusResetTask \/ Unconfigure
  BY <1>4 DEF BusResetTask, Unconfigure, xboxd_reset, Cleared, WalkInv, Untouched
<1>5. CASE \E size \in Sizes : ConsoleSends(size)
  BY <1>5 DEF ConsoleSends, WalkInv, Serving
<1>6. CASE XferCb
  BY <1>6 DEF XferCb, Rearm, WalkInv, Untouched, Serving
<1>7. CASE \E r \in Requests : Control(r)
  BY <1>7 DEF Control, WalkInv, Untouched, Serving, driver
<1>8. CASE UNCHANGED vars
  BY <1>8 DEF vars, driver, WalkInv, Untouched, Serving
<1> QED
  BY <1>1, <1>2, <1>3, <1>4, <1>5, <1>6, <1>7, <1>8 DEF Next

LEMMA AlwaysWalk == Spec => []WalkInv
<1> QED
  BY WalkInit, WalkStep, PTL DEF Spec

\* However often the console resets and configures the adapter, the walk along
\* the descriptor succeeds: every interface is bound, and the endpoints of the
\* first one, and no others, are open.
THEOREM Configured == Spec => []ConfiguredWhole
<1>1. WalkInv => ConfiguredWhole
  BY DEF WalkInv, ConfiguredWhole, Serving, Opened
<1> QED
  BY <1>1, AlwaysWalk, PTL

\* A configured adapter never falls deaf: its OUT endpoint always has a transfer.
THEOREM AlwaysListening == Spec => []Listening
<1>1. WalkInv => Listening
  BY DEF WalkInv, Listening, Serving, EP_SIZE, PACKET_SIZE
<1> QED
  BY <1>1, AlwaysWalk, PTL

-----------------------------------------------------------------------------
(* The control requests.                                                   *)

\* Once the adapter is configured, a request to read or to select the setting of
\* any of its interfaces is answered.
THEOREM EveryInterfaceServed == Spec => []InterfacesServed
<1>1. Init => InterfacesServed
  BY DEF Init, NoReply, InterfacesServed
<1>2. WalkInv /\ InterfacesServed /\ [Next]_vars => InterfacesServed'
  <2> SUFFICES ASSUME WalkInv, InterfacesServed, [Next]_vars PROVE InterfacesServed'
    OBVIOUS
  <2>1. ASSUME NEW r \in Requests, Control(r) PROVE InterfacesServed'
    <3>1. CASE stack = "configured" /\ r.kind \in {"get_interface", "set_interface"}
                 /\ r.n \in Interfaces
      <4>1. r.n \in bound
        BY <3>1 DEF WalkInv
      <4>2. Answer(r) \in {"data", "status"}
        BY <3>1, <4>1 DEF Answer
      <4> QED
        BY <2>1, <4>2 DEF Control, InterfacesServed
    <3>2. CASE ~(stack = "configured" /\ r.kind \in {"get_interface", "set_interface"}
                   /\ r.n \in Interfaces)
      BY <2>1, <3>2 DEF Control, InterfacesServed
    <3> QED
      BY <3>1, <3>2
  <2>2. ASSUME UNCHANGED reply PROVE InterfacesServed'
    BY <2>2 DEF InterfacesServed
  <2> QED
    BY <2>1, <2>2 DEF Next, SetConfiguration, xboxd_open, BusReset, BusResetTask,
       Unconfigure, xboxd_reset, ConsoleSends, XferCb, vars
<1> QED
  BY <1>1, <1>2, AlwaysWalk, PTL DEF Spec

-----------------------------------------------------------------------------
(* The OUT buffer.                                                         *)

\* What one packet adds to the buffer: it fits, and the transfer is over unless a
\* full packet has come into an empty buffer of a longer transfer.
LEMMA SendOne ==
  ASSUME Rest, WalkInv, BufferInv, NEW size \in Sizes, ConsoleSends(size)
  PROVE  LET n == IF size < FRAME_SIZE THEN 0 ELSE sent + 1 IN
         /\ n \in 0 .. MaxPackets
         /\ sent' = IF n = 0 THEN sent ELSE n
         /\ epout_buf'.frames = Append(epout_buf.frames, n)
         /\ epout_buf' \in [bytes : 0 .. PACKET_SIZE, frames : Seq(0 .. MaxPackets)]
         /\ epout_buf.bytes <= epout_buf'.bytes
         /\ n # 0 => epout_buf'.bytes >= FRAME_SIZE
         /\ ~over' => /\ transfer' = PACKET_SIZE /\ epout_buf'.bytes = EP_SIZE
                      /\ Len(epout_buf'.frames) = 1
<1> DEFINE n == IF size < FRAME_SIZE THEN 0 ELSE sent + 1
           room == transfer - epout_buf.bytes
           fits == Smaller(size, room)
<1>1. size \in {3, 4, 64} /\ sent \in 0 .. MaxPackets
  BY DEF Sizes, FRAME_SIZE, EP_SIZE, Rest
<1>2. n \in 0 .. MaxPackets /\ (n # 0 => size >= 4)
  BY <1>1, DeviceAssumption DEF ConsoleSends, FRAME_SIZE
<1>3. /\ epout_buf.bytes \in 0 .. 70 /\ epout_buf.frames \in Seq(0 .. MaxPackets)
  BY DEF Rest, PACKET_SIZE
<1>4. \/ epout_buf.bytes = 0 /\ epout_buf.frames = <<>> /\ transfer \in {64, 70}
      \/ epout_buf.bytes = 64 /\ transfer = 70
  BY DEF ConsoleSends, WalkInv, Serving, Untouched, BufferInv, Empty, EP_SIZE, PACKET_SIZE
<1>5. room = transfer - epout_buf.bytes /\ fits = IF size < room THEN size ELSE room
  BY DEF Smaller
<1>6. epout_buf' = [bytes |-> epout_buf.bytes + fits, frames |-> Append(epout_buf.frames, n)]
  BY DEF ConsoleSends
<1>7. over' = (size < 64 \/ fits = room) /\ transfer' = transfer
      /\ sent' = IF n = 0 THEN sent ELSE n
  BY DEF ConsoleSends, EP_SIZE
<1> HIDE DEF n, room, fits
<1>8. Append(epout_buf.frames, n) \in Seq(0 .. MaxPackets)
  BY <1>2, <1>3
<1>9. /\ epout_buf.bytes + fits \in 0 .. 70 /\ epout_buf.bytes <= epout_buf.bytes + fits
      /\ n # 0 => epout_buf.bytes + fits >= 4
  BY <1>1, <1>2, <1>3, <1>4, <1>5
<1>10. ~over' => epout_buf.frames = <<>> /\ epout_buf.bytes + fits = 64 /\ transfer = 70
  <2>1. fits = room => over'
    BY <1>7
  <2>2. size < 64 => over'
    BY <1>7
  <2>3. size = 64 /\ fits # room =>
          epout_buf.frames = <<>> /\ epout_buf.bytes + fits = 64 /\ transfer = 70
    BY <1>4, <1>5
  <2> QED
    BY <1>1, <2>1, <2>2, <2>3
<1>11. epout_buf.frames = <<>> => Len(Append(epout_buf.frames, n)) = 1
  BY <1>2
<1> USE DEF n
<1> QED
  BY <1>2, <1>6, <1>7, <1>8, <1>9, <1>10, <1>11 DEF PACKET_SIZE, EP_SIZE, FRAME_SIZE

LEMMA EmptyBuffer ==
  Empty \in [bytes : 0 .. PACKET_SIZE, frames : Seq(0 .. MaxPackets)]
<1>1. <<>> \in Seq(0 .. MaxPackets)
  OBVIOUS
<1> QED
  BY <1>1 DEF Empty, PACKET_SIZE

LEMMA BufferInit == Init => Rest /\ BufferInv
<1> SUFFICES ASSUME Init PROVE Rest /\ BufferInv
  OBVIOUS
<1>1. handed \in Seq(Seq(0 .. MaxPackets))
  BY DEF Init
<1>2. BufferInv
  BY DEF Init, BufferInv, Empty
<1>3. epout_buf \in [bytes : 0 .. PACKET_SIZE, frames : Seq(0 .. MaxPackets)]
  BY EmptyBuffer DEF Init
<1>4. sent \in 0 .. MaxPackets /\ resets \in 0 .. MaxResets
  BY DeviceAssumption DEF Init
<1>5. over \in BOOLEAN /\ bus_reset \in BOOLEAN /\ ~bus_reset
  BY DEF Init
<1> QED
  BY <1>1, <1>2, <1>3, <1>4, <1>5 DEF Rest

\* Every step keeps the types and the invariant of the buffer.
LEMMA BufferStep == Rest /\ WalkInv /\ BufferInv /\ [Next]_vars => Rest' /\ BufferInv'
<1> SUFFICES ASSUME Rest, WalkInv, BufferInv, [Next]_vars PROVE Rest' /\ BufferInv'
  OBVIOUS
<1>6. ASSUME NEW size \in Sizes, ConsoleSends(size) PROVE Rest' /\ BufferInv'
  <2> DEFINE n == IF size < FRAME_SIZE THEN 0 ELSE sent + 1
  <2>1. /\ n \in 0 .. MaxPackets
        /\ sent' = IF n = 0 THEN sent ELSE n
        /\ epout_buf'.frames = Append(epout_buf.frames, n)
        /\ epout_buf' \in [bytes : 0 .. PACKET_SIZE, frames : Seq(0 .. MaxPackets)]
        /\ epout_buf.bytes <= epout_buf'.bytes
        /\ n # 0 => epout_buf'.bytes >= FRAME_SIZE
        /\ ~over' => /\ transfer' = PACKET_SIZE /\ epout_buf'.bytes = EP_SIZE
                     /\ Len(epout_buf'.frames) = 1
    BY <1>6, SendOne
  <2> HIDE DEF n
  <2>2. over' \in BOOLEAN /\ UNCHANGED <<bus_reset, handed, resets>>
    BY <1>6 DEF ConsoleSends
  <2>3. Rest'
    BY <2>1, <2>2 DEF Rest
  <2>4. ASSUME NEW q \in DOMAIN epout_buf'.frames, epout_buf'.frames[q] # 0
        PROVE  epout_buf'.bytes >= FRAME_SIZE
    <3>1. epout_buf.frames \in Seq(0 .. MaxPackets)
      BY DEF Rest
    <3>2. CASE q = Len(epout_buf.frames) + 1
      BY <2>1, <2>4, <3>1, <3>2
    <3>3. CASE q # Len(epout_buf.frames) + 1
      <4>1. q \in DOMAIN epout_buf.frames /\ epout_buf.frames[q] # 0
        BY <2>1, <2>4, <3>1, <3>3
      <4>2. epout_buf.bytes >= FRAME_SIZE
        BY <4>1 DEF BufferInv
      <4> QED
        <5>1. epout_buf.bytes \in 0 .. 70 /\ epout_buf'.bytes \in 0 .. 70
          BY <2>1 DEF Rest, PACKET_SIZE
        <5>2. epout_buf.bytes <= epout_buf'.bytes
          BY <2>1
        <5> QED
          BY <4>2, <5>1, <5>2 DEF FRAME_SIZE
    <3> QED
      BY <3>2, <3>3
  <2> QED
    BY <2>1, <2>3, <2>4 DEF BufferInv
<1>7. ASSUME epout_buf' = Empty, over' = FALSE, UNCHANGED <<bus_reset, sent, resets>>,
             \/ UNCHANGED handed
             \/ handed' = Append(handed, epout_buf.frames)
      PROVE  Rest' /\ BufferInv'
  <2>1. handed' \in Seq(Seq(0 .. MaxPackets))
    <3>1. epout_buf.frames \in Seq(0 .. MaxPackets) /\ handed \in Seq(Seq(0 .. MaxPackets))
      BY DEF Rest
    <3>2. \A S : \A s \in Seq(S), e \in S : Append(s, e) \in Seq(S)
      OBVIOUS
    <3> QED
      BY <1>7, <3>1, <3>2
  <2>2. BufferInv'
    BY <1>7 DEF BufferInv, Empty
  <2>3. epout_buf' \in [bytes : 0 .. PACKET_SIZE, frames : Seq(0 .. MaxPackets)]
    BY <1>7, EmptyBuffer
  <2>4. over' \in BOOLEAN
    BY <1>7
  <2> QED
    BY <1>7, <2>1, <2>2, <2>3, <2>4 DEF Rest
<1>8. CASE XferCb
  BY <1>7, <1>8 DEF XferCb
<1>9. CASE BusResetTask \/ Unconfigure
  <2>1. /\ epout_buf' = Empty /\ over' = FALSE /\ UNCHANGED <<sent, handed>>
        /\ resets' = resets + 1 /\ bus_reset' \in BOOLEAN
    BY <1>9 DEF BusResetTask, Unconfigure, xboxd_reset, Rest
  <2>2. resets < MaxResets /\ ~bus_reset'
    BY <1>9 DEF BusResetTask, Unconfigure, Rest
  <2>3. BufferInv'
    BY <2>1 DEF BufferInv, Empty
  <2>4. epout_buf' \in [bytes : 0 .. PACKET_SIZE, frames : Seq(0 .. MaxPackets)]
    BY <2>1, EmptyBuffer
  <2>5. resets' \in 0 .. MaxResets
    BY <2>1, <2>2, DeviceAssumption DEF Rest
  <2>6. over' \in BOOLEAN
    BY <2>1
  <2> QED
    BY <2>1, <2>2, <2>3, <2>4, <2>5, <2>6 DEF Rest
<1>10. ASSUME UNCHANGED <<epout_buf, over, transfer, sent, handed, resets>>,
              bus_reset' \in BOOLEAN, bus_reset' => resets < MaxResets
       PROVE  Rest' /\ BufferInv'
  BY <1>10 DEF Rest, BufferInv
<1>11. CASE SetConfiguration \/ UNCHANGED vars \/ \E r \in Requests : Control(r)
  <2>1. UNCHANGED <<epout_buf, over, transfer, sent, handed, resets, bus_reset>>
    BY <1>11 DEF SetConfiguration, Control, vars, driver
  <2> QED
    BY <1>10, <2>1 DEF Rest
<1>12. CASE BusReset
  <2>1. UNCHANGED <<epout_buf, over, transfer, sent, handed, resets>>
    BY <1>12 DEF BusReset, driver
  <2>2. bus_reset' \in BOOLEAN /\ resets < MaxResets
    BY <1>12 DEF BusReset
  <2> QED
    BY <1>10, <2>1, <2>2
<1>13. CASE xboxd_open
  <2>1. UNCHANGED <<epout_buf, over, sent, handed, resets, bus_reset>>
    BY <1>13, OpenSteps DEF xboxd_open
  <2>2. epout_buf = Empty
    BY <1>13 DEF xboxd_open, WalkInv, Untouched
  <2> QED
    BY <2>1, <2>2 DEF Rest, BufferInv, Empty
<1> QED
  BY <1>6, <1>8, <1>9, <1>11, <1>12, <1>13 DEF Next

\* Every variable has its type.
THEOREM Typing == Spec => []TypeOK
<1>1. WalkInv /\ Rest => TypeOK
  BY Descriptors DEF WalkInv, Untouched, Serving, Closed, Opened, Interfaces, Rest, TypeOK
<1>2. Spec => [](WalkInv /\ Rest /\ BufferInv)
  BY WalkInit, WalkStep, BufferInit, BufferStep, PTL DEF Spec
<1> QED
  BY <1>1, <1>2, PTL

-----------------------------------------------------------------------------
(* What was heard.                                                         *)

\* The order in which frames are handed over.
HeardInOrder ==
  \A j, k \in DOMAIN handed : \A p \in DOMAIN handed[j], q \in DOMAIN handed[k] :
    (j < k \/ (j = k /\ p < q)) /\ handed[k][q] # 0 => handed[j][p] < handed[k][q]

LEMMA FrameInit == Init => FrameInv /\ HeardInOrder
BY DEF Init, FrameInv, HeardInOrder, Empty

\* Appending one element to a sequence, as seen by index.
LEMMA AppendOne ==
  ASSUME NEW S, NEW s \in Seq(S), NEW e \in S
  PROVE  /\ Append(s, e) \in Seq(S)
         /\ DOMAIN Append(s, e) = DOMAIN s \union {Len(s) + 1}
         /\ \A k \in DOMAIN s : Append(s, e)[k] = s[k] /\ k < Len(s) + 1 /\ k \in Nat
         /\ Append(s, e)[Len(s) + 1] = e
OBVIOUS

\* What a step does to the frames: the console adds one, the callback hands over
\* what has come, a reset throws it away, or nothing happens to them.
LEMMA FrameMoves ==
  ASSUME Rest, WalkInv, BufferInv, [Next]_vars
  PROVE  \/ /\ UNCHANGED <<epout_buf, handed, sent, resets>>
            /\ transfer' = transfer \/ transfer = 0
         \/ /\ ~over /\ transfer' = transfer
            /\ \E n \in 0 .. MaxPackets :
                 /\ n \in {0, sent + 1} /\ sent' = IF n = 0 THEN sent ELSE n
                 /\ epout_buf'.frames = Append(epout_buf.frames, n)
                 /\ UNCHANGED <<handed, resets>>
         \/ /\ epout_buf'.frames = <<>> /\ transfer' = EP_SIZE
            /\ handed' = IF epout_buf.bytes >= FRAME_SIZE
                         THEN Append(handed, epout_buf.frames) ELSE handed
            /\ UNCHANGED <<sent, resets>>
         \/ /\ ~over /\ epout_buf'.frames = <<>> /\ resets' = resets + 1
            /\ UNCHANGED <<handed, sent>>
<1>1. CASE \E size \in Sizes : ConsoleSends(size)
  <2> PICK size \in Sizes : ConsoleSends(size)
    BY <1>1
  <2> DEFINE n == IF size < FRAME_SIZE THEN 0 ELSE sent + 1
  <2>1. /\ n \in 0 .. MaxPackets /\ n \in {0, sent + 1}
        /\ sent' = IF n = 0 THEN sent ELSE n
        /\ epout_buf'.frames = Append(epout_buf.frames, n)
    BY SendOne
  <2>2. UNCHANGED <<handed, resets, transfer>> /\ ~over
    BY DEF ConsoleSends
  <2> HIDE DEF n
  <2> QED
    BY <2>1, <2>2
<1>2. CASE XferCb
  BY <1>2 DEF XferCb, IsFrame, Empty, Rearm
<1>3. CASE BusResetTask \/ Unconfigure
  BY <1>3 DEF BusResetTask, Unconfigure, xboxd_reset, Empty
<1>4. CASE xboxd_open
  BY <1>4, OpenSteps DEF xboxd_open, driver, WalkInv, Untouched, Serving
<1>5. CASE SetConfiguration \/ BusReset \/ UNCHANGED vars \/ \E r \in Requests : Control(r)
  BY <1>5 DEF SetConfiguration, BusReset, Control, vars, driver
<1> QED
  BY <1>1, <1>2, <1>3, <1>4, <1>5 DEF Next

\* What is handed over and what waits has a type.
LEMMA FrameTypes ==
  ASSUME Rest
  PROVE  /\ epout_buf.frames \in Seq(0 .. MaxPackets)
         /\ handed \in Seq(Seq(0 .. MaxPackets))
         /\ \A k \in DOMAIN handed : \A p \in DOMAIN handed[k] : handed[k][p] \in 0 .. MaxPackets
         /\ \A q \in DOMAIN epout_buf.frames : epout_buf.frames[q] \in 0 .. MaxPackets
         /\ sent \in 0 .. MaxPackets /\ resets \in Nat
<1>1. /\ epout_buf.frames \in Seq(0 .. MaxPackets) /\ handed \in Seq(Seq(0 .. MaxPackets))
      /\ sent \in 0 .. MaxPackets /\ resets \in Nat
  BY DeviceAssumption DEF Rest
<1>2. \A S : \A s \in Seq(S) : \A k \in DOMAIN s : s[k] \in S
  OBVIOUS
<1>3. \A k \in DOMAIN handed : handed[k] \in Seq(0 .. MaxPackets)
  BY <1>1, <1>2
<1> QED
  BY <1>1, <1>2, <1>3

\* The order survives every step.
LEMMA FrameStep ==
  ASSUME Rest, WalkInv, BufferInv, FrameInv, HeardInOrder, [Next]_vars
  PROVE  FrameInv' /\ HeardInOrder'
<1>1. CASE UNCHANGED <<epout_buf, handed, sent, resets>>
  BY <1>1 DEF FrameInv, HeardInOrder
<1>2. ASSUME NEW n \in 0 .. MaxPackets, n \in {0, sent + 1},
             sent' = IF n = 0 THEN sent ELSE n,
             epout_buf'.frames = Append(epout_buf.frames, n), UNCHANGED <<handed, resets>>
      PROVE  FrameInv' /\ HeardInOrder'
  <2> DEFINE f == epout_buf.frames
  <2>1. /\ DOMAIN epout_buf'.frames = DOMAIN f \union {Len(f) + 1}
        /\ \A k \in DOMAIN f : epout_buf'.frames[k] = f[k] /\ k < Len(f) + 1 /\ k \in Nat
        /\ epout_buf'.frames[Len(f) + 1] = n
    BY <1>2, FrameTypes, AppendOne
  <2>2. sent \in Nat /\ sent' \in Nat /\ sent <= sent' /\ n <= sent' /\ (n # 0 => sent < n)
    BY <1>2, FrameTypes
  <2>3. Len(f) \in Nat
    BY FrameTypes
  <2> HIDE DEF f
  <2>4. \A k \in DOMAIN handed : \A p \in DOMAIN handed[k] :
          handed[k][p] \in Nat /\ handed[k][p] <= sent
    BY FrameTypes DEF FrameInv
  <2>5. \A q \in DOMAIN f : f[q] \in Nat /\ f[q] <= sent
    BY FrameTypes DEF FrameInv, f
  <2>6. \A k \in DOMAIN handed' : \A p \in DOMAIN handed'[k] : handed'[k][p] <= sent'
    BY <1>2, <2>2, <2>4
  <2>7. ASSUME NEW q \in DOMAIN epout_buf'.frames
        PROVE  /\ epout_buf'.frames[q] <= sent'
               /\ epout_buf'.frames[q] # 0 =>
                    /\ \A p \in DOMAIN epout_buf'.frames :
                         p < q => epout_buf'.frames[p] < epout_buf'.frames[q]
                    /\ \A k \in DOMAIN handed : \A p \in DOMAIN handed[k] :
                         handed[k][p] < epout_buf'.frames[q]
    <3>1. CASE q \in DOMAIN f
      <4>1. epout_buf'.frames[q] = f[q] /\ f[q] <= sent'
        BY <2>1, <2>2, <2>5, <3>1
      <4>2. \A p \in DOMAIN epout_buf'.frames : p < q => p \in DOMAIN f
        BY <2>1, <2>3, <3>1
      <4> QED
        BY <2>1, <3>1, <4>1, <4>2 DEF FrameInv, f
    <3>2. CASE q = Len(f) + 1
      <4>1. epout_buf'.frames[q] = n
        BY <2>1, <3>2
      <4>2. \A p \in DOMAIN epout_buf'.frames :
              p < q => epout_buf'.frames[p] \in Nat /\ epout_buf'.frames[p] <= sent
        BY <2>1, <2>3, <2>5, <3>2
      <4> QED
        BY <2>2, <2>4, <4>1, <4>2
    <3> QED
      BY <2>1, <3>1, <3>2
  <2> QED
    BY <1>2, <2>6, <2>7 DEF FrameInv, HeardInOrder
<1>3. ASSUME epout_buf'.frames = <<>>, UNCHANGED <<handed, sent>>
      PROVE  FrameInv' /\ HeardInOrder'
  BY <1>3 DEF FrameInv, HeardInOrder
<1>4. ASSUME epout_buf'.frames = <<>>, UNCHANGED sent,
             handed' = Append(handed, epout_buf.frames)
      PROVE  FrameInv' /\ HeardInOrder'
  <2> DEFINE f == epout_buf.frames
             l == Len(handed) + 1
  <2>1. /\ DOMAIN handed' = DOMAIN handed \union {l}
        /\ \A k \in DOMAIN handed : handed'[k] = handed[k] /\ k < l /\ k \in Nat
        /\ handed'[l] = f /\ l \in Nat
    BY <1>4, FrameTypes, AppendOne
  <2> HIDE DEF f, l
  <2>2. FrameInv'
    BY <1>4, <2>1 DEF FrameInv, f
  <2>3. ASSUME NEW j \in DOMAIN handed', NEW k \in DOMAIN handed',
               NEW p \in DOMAIN handed'[j], NEW q \in DOMAIN handed'[k],
               j < k \/ (j = k /\ p < q), handed'[k][q] # 0
        PROVE  handed'[j][p] < handed'[k][q]
    <3>1. CASE k \in DOMAIN handed
      <4>1. j \in DOMAIN handed
        BY <2>1, <2>3, <3>1
      <4> QED
        BY <2>1, <2>3, <3>1, <4>1 DEF HeardInOrder
    <3>2. CASE k = l /\ j \in DOMAIN handed
      BY <2>1, <2>3, <3>2 DEF FrameInv, f
    <3>3. CASE k = l /\ j = l
      <4>1. p < q
        BY <2>1, <2>3, <3>3
      <4> QED
        BY <2>1, <2>3, <3>3, <4>1 DEF FrameInv, f
    <3> QED
      BY <2>1, <3>1, <3>2, <3>3
  <2> QED
    BY <2>2, <2>3 DEF HeardInOrder
<1> QED
  BY <1>1, <1>2, <1>3, <1>4, FrameMoves

\* A set of lost frames that grows by one element at most.
LEMMA OneMore ==
  ASSUME NEW S, NEW T, NEW x, NEW m \in Nat, IsFiniteSet(S), Cardinality(S) <= m,
         T \subseteq S \union {x}
  PROVE  IsFiniteSet(T) /\ Cardinality(T) <= m + 1
<1>1. /\ IsFiniteSet(S \union {x})
      /\ Cardinality(S \union {x}) =
           IF x \in S THEN Cardinality(S) ELSE Cardinality(S) + 1
  BY FS_AddElement
<1>2. Cardinality(S) \in Nat
  BY FS_CardinalityType
<1>3. IsFiniteSet(T) /\ Cardinality(T) <= Cardinality(S \union {x})
  BY <1>1, FS_Subset
<1>4. Cardinality(T) \in Nat
  BY <1>3, FS_CardinalityType
<1> QED
  BY <1>1, <1>2, <1>3, <1>4

LEMMA Fewer ==
  ASSUME NEW S, NEW T, NEW m \in Nat, IsFiniteSet(S), Cardinality(S) <= m, T \subseteq S
  PROVE  IsFiniteSet(T) /\ Cardinality(T) <= m
BY FS_Subset, FS_CardinalityType

\* The first frame of a sequence and those behind it.
LEMMA Places ==
  ASSUME NEW S, NEW f \in Seq(S)
  PROVE  /\ f = <<>> => First(f) = {} /\ Behind(f) = {}
         /\ Len(f) = 1 => Behind(f) = {}
         /\ \A e \in S : /\ f = <<>> => Behind(Append(f, e)) = {}
                        /\ Behind(Append(f, e)) \subseteq Behind(f) \union {e}
<1>1. DOMAIN <<>> = {}
  OBVIOUS
<1>2. Len(f) = 1 => DOMAIN f = {1}
  OBVIOUS
<1>3. ASSUME NEW e \in S
      PROVE  /\ f = <<>> => Behind(Append(f, e)) = {}
             /\ Behind(Append(f, e)) \subseteq Behind(f) \union {e}
  <2>1. /\ DOMAIN Append(f, e) = DOMAIN f \union {Len(f) + 1}
        /\ \A k \in DOMAIN f : Append(f, e)[k] = f[k]
        /\ Append(f, e)[Len(f) + 1] = e
    BY AppendOne
  <2>2. f = <<>> => Len(f) + 1 = 1 /\ DOMAIN f = {}
    OBVIOUS
  <2> QED
    BY <2>1, <2>2 DEF Behind
<1> QED
  BY <1>1, <1>2, <1>3 DEF First, Behind

\* All firsts, all that are behind a first, and all, of a sequence of sequences.
Firsts(h)  == UNION {First(h[k]) : k \in DOMAIN h}
Behinds(h) == UNION {Behind(h[k]) : k \in DOMAIN h}
Frames(h)  == UNION {Range(h[k]) : k \in DOMAIN h}

LEMMA AllPlaces ==
  ASSUME NEW h, NEW f, NEW n \in Nat
  PROVE  (1 .. n) \ (Firsts(h) \union ((Behind(f) \union Behinds(h)) \ {0}) \union First(f))
           = (1 .. n) \ (Frames(h) \union Range(f))
<1>1. \A g : First(g) \union Behind(g) = Range(g)
  BY DEF First, Behind, Range
<1>2. Firsts(h) \union Behinds(h) = Frames(h)
  <2>1. ASSUME NEW x \in Firsts(h) \union Behinds(h) PROVE x \in Frames(h)
    BY <1>1 DEF Firsts, Behinds, Frames
  <2>2. ASSUME NEW x \in Frames(h) PROVE x \in Firsts(h) \union Behinds(h)
    <3>1. PICK k \in DOMAIN h : x \in Range(h[k])
      BY DEF Frames
    <3>2. x \in First(h[k]) \/ x \in Behind(h[k])
      BY <1>1, <3>1
    <3> QED
      BY <3>2 DEF Firsts, Behinds
  <2> QED
    BY <2>1, <2>2
<1>3. 0 \notin 1 .. n
  OBVIOUS
<1> QED
  BY <1>1, <1>2, <1>3

\* Every frame that was handed over, and every one that waits, heard or not.
Given   == Frames(handed)
Waiting == Range(epout_buf.frames)

\* The frames that are neither handed over nor waiting are at most the resets.
LostInv == IsFiniteSet(Lost) /\ Cardinality(Lost) <= resets

\* The transfer that may take two frames is still to be given, or has taken one.
Fresh == transfer \in {0, PACKET_SIZE} /\ Behind(epout_buf.frames) = {}

\* Each configuration overlooks one frame at most, in its first transfer.
OverlookedInv ==
  /\ IsFiniteSet(Overlooked)
  /\ Cardinality(Overlooked) <= IF Fresh THEN resets ELSE resets + 1

LEMMA LostInit == Init => LostInv
<1> SUFFICES ASSUME Init PROVE LostInv
  OBVIOUS
<1>1. resets = 0 /\ sent = 0
  BY DEF Init
<1>2. Lost = {}
  BY <1>1 DEF Lost
<1> QED
  BY <1>1, <1>2, FS_EmptySet DEF LostInv

LEMMA LostStep ==
  ASSUME Rest, WalkInv, BufferInv, LostInv, [Next]_vars
  PROVE  LostInv'
<1> DEFINE f == epout_buf.frames
<1>1. sent \in Nat /\ resets \in Nat /\ f \in Seq(0 .. MaxPackets)
  BY FrameTypes
<1>0. sent' \in Nat
  BY <1>1, DeviceAssumption, FrameMoves
<1>7. /\ Lost = (1 .. sent) \ (Given \union Waiting)
      /\ Lost' = (1 .. sent') \ (Given' \union Waiting')
  <2>1. /\ Heard = Firsts(handed) /\ Heard' = Firsts(handed')
        /\ Overlooked = (Behind(epout_buf.frames) \union Behinds(handed)) \ {0}
        /\ Overlooked' = (Behind(epout_buf'.frames) \union Behinds(handed')) \ {0}
    BY DEF Heard, Overlooked, Firsts, Behinds
  <2> QED
    BY <1>0, <1>1, <2>1, AllPlaces DEF Lost, Given, Waiting
<1>2. ASSUME Lost' \subseteq Lost, UNCHANGED resets PROVE LostInv'
  BY <1>1, <1>2, Fewer DEF LostInv
<1>3. CASE UNCHANGED <<epout_buf, handed, sent, resets>>
  BY <1>2, <1>3, <1>7 DEF Given, Waiting
<1>4. ASSUME NEW n \in 0 .. MaxPackets, n \in {0, sent + 1},
             sent' = IF n = 0 THEN sent ELSE n,
             epout_buf'.frames = Append(f, n), UNCHANGED <<handed, resets>>
      PROVE  LostInv'
  <2>1. Waiting' = Waiting \union {n}
    <3>1. /\ DOMAIN Append(f, n) = DOMAIN f \union {Len(f) + 1}
          /\ \A k \in DOMAIN f : Append(f, n)[k] = f[k]
          /\ Append(f, n)[Len(f) + 1] = n
      BY <1>1, AppendOne
    <3> QED
      BY <1>4, <3>1 DEF Waiting, Range
  <2>2. Given' = Given
    BY <1>4 DEF Given
  <2>3. 1 .. sent' \subseteq (1 .. sent) \union {n}
    BY <1>1, <1>4
  <2>4. Lost' \subseteq Lost
    BY <1>7, <2>1, <2>2, <2>3
  <2> QED
    BY <1>2, <1>4, <2>4
<1>5. ASSUME epout_buf'.frames = <<>>, UNCHANGED <<sent, resets>>,
             handed' = IF epout_buf.bytes >= FRAME_SIZE
                       THEN Append(handed, f) ELSE handed
      PROVE  LostInv'
  <2>1. Waiting \ {0} \subseteq Given'
    <3>1. CASE epout_buf.bytes >= FRAME_SIZE
      <4>1. handed' = Append(handed, f)
        BY <1>5, <3>1
      <4>2. Len(handed) + 1 \in DOMAIN handed' /\ handed'[Len(handed) + 1] = f
        BY <1>1, <4>1, FrameTypes, AppendOne
      <4> QED
        BY <4>2 DEF Given, Frames, Waiting
    <3>2. CASE ~(epout_buf.bytes >= FRAME_SIZE)
      BY <3>2 DEF BufferInv, Waiting, Range
    <3> QED
      BY <3>1, <3>2
  <2>2. Given \subseteq Given'
    <3>1. CASE handed' = handed
      BY <3>1 DEF Given
    <3>2. CASE handed' = Append(handed, f)
      <4>1. \A k \in DOMAIN handed : k \in DOMAIN handed' /\ handed'[k] = handed[k]
        BY <1>1, <3>2, FrameTypes, AppendOne
      <4> QED
        BY <4>1 DEF Given, Frames
    <3> QED
      BY <1>5, <3>1, <3>2
  <2>3. 0 \notin 1 .. sent
    BY <1>1
  <2>4. Lost' \subseteq Lost
    BY <1>5, <1>7, <2>1, <2>2, <2>3
  <2> QED
    BY <1>2, <1>5, <2>4
<1>6. ASSUME ~over, epout_buf'.frames = <<>>, resets' = resets + 1,
             UNCHANGED <<handed, sent>>
      PROVE  LostInv'
  <2>1. PICK x : Waiting \subseteq {x}
    <3>1. f = <<>> \/ Len(f) = 1
      BY <1>6 DEF BufferInv, Empty
    <3>2. DOMAIN f \subseteq {1}
      BY <1>1, <3>1
    <3> QED
      BY <3>2 DEF Waiting, Range
  <2>2. Lost' \subseteq Lost \union {x}
    BY <1>6, <1>7, <2>1 DEF Given
  <2> QED
    BY <1>1, <1>6, <2>2, OneMore DEF LostInv
<1> QED
  BY <1>3, <1>4, <1>5, <1>6, FrameMoves

LEMMA OverlookedInit == Init => OverlookedInv
<1> SUFFICES ASSUME Init PROVE OverlookedInv
  OBVIOUS
<1>1. resets = 0 /\ epout_buf.frames = <<>> /\ handed = <<>>
  BY DEF Init, Empty
<1>2. Overlooked = {}
  BY <1>1 DEF Overlooked, Behind
<1> QED
  BY <1>1, <1>2, FS_EmptySet DEF OverlookedInv

\* Only the first transfer has taken a frame when another comes.
LEMMA OverlookedStep ==
  ASSUME Rest, WalkInv, BufferInv, OverlookedInv, [Next]_vars
  PROVE  OverlookedInv'
<1> DEFINE f == epout_buf.frames
           behinds == UNION {Behind(handed[k]) : k \in DOMAIN handed}
<1>1. /\ resets \in Nat /\ f \in Seq(0 .. MaxPackets)
      /\ handed \in Seq(Seq(0 .. MaxPackets))
  BY FrameTypes
<1>2. Cardinality(Overlooked) <= resets + 1 /\ Cardinality(Overlooked) \in Nat
  BY <1>1, FS_CardinalityType DEF OverlookedInv
<1>3. /\ Overlooked = (Behind(f) \union behinds) \ {0}
      /\ Overlooked' = (Behind(epout_buf'.frames) \union behinds') \ {0}
  BY DEF Overlooked
<1>4. \A m \in Nat : /\ Overlooked' \subseteq Overlooked /\ Cardinality(Overlooked) <= m
                     => IsFiniteSet(Overlooked') /\ Cardinality(Overlooked') <= m
  BY Fewer DEF OverlookedInv
<1>5. handed' = handed => behinds' = behinds
  OBVIOUS
<1>6. ~over => Behind(f) = {}
  BY <1>1, Places DEF BufferInv, Empty
<1>7. \/ transfer = 0 /\ f = <<>>
      \/ transfer \in {EP_SIZE, PACKET_SIZE}
  BY DEF WalkInv, Untouched, Serving, Empty
<1> HIDE DEF behinds
<1>8. CASE /\ UNCHANGED <<epout_buf, handed, sent, resets>>
           /\ transfer' = transfer \/ transfer = 0
  <2>1. Overlooked' = Overlooked
    BY <1>3, <1>5, <1>8
  <2>2. Fresh' => Fresh
    BY <1>8 DEF Fresh
  <2> QED
    BY <1>1, <1>2, <1>8, <2>1, <2>2 DEF OverlookedInv
<1>9. ASSUME ~over, transfer' = transfer, NEW n \in 0 .. MaxPackets,
             epout_buf'.frames = Append(f, n), UNCHANGED <<handed, resets>>
      PROVE  OverlookedInv'
  <2>1. Behind(epout_buf'.frames) \subseteq Behind(f) \union {n}
    BY <1>1, <1>9, Places
  <2>2. CASE Fresh
    <3>1. Overlooked' \subseteq Overlooked \union {n}
      BY <1>3, <1>5, <1>9, <2>1
    <3>2. Cardinality(Overlooked) <= resets
      BY <2>2 DEF OverlookedInv
    <3>3. IsFiniteSet(Overlooked') /\ Cardinality(Overlooked') <= resets + 1
      BY <1>1, <3>1, <3>2, OneMore DEF OverlookedInv
    <3>4. CASE Fresh'
      <4>1. Overlooked' \subseteq Overlooked
        BY <1>3, <1>5, <1>9, <3>4 DEF Fresh
      <4> QED
        BY <1>1, <1>4, <1>9, <3>2, <3>4, <4>1 DEF OverlookedInv
    <3> QED
      BY <1>9, <3>3, <3>4 DEF OverlookedInv
  <2>3. CASE ~Fresh
    <3>1. transfer = EP_SIZE
      BY <1>6, <1>7, <1>9, <2>3 DEF Fresh
    <3>2. f = <<>>
      BY <1>9, <3>1 DEF BufferInv, Empty, EP_SIZE, PACKET_SIZE
    <3>3. Overlooked' \subseteq Overlooked
      <4>1. Behind(epout_buf'.frames) = {}
        BY <1>1, <1>9, <3>2, Places
      <4> QED
        BY <1>3, <1>5, <1>9, <4>1
    <3>4. ~Fresh'
      BY <1>9, <3>1 DEF Fresh, EP_SIZE, PACKET_SIZE
    <3> QED
      BY <1>1, <1>2, <1>4, <1>9, <3>3, <3>4 DEF OverlookedInv
  <2> QED
    BY <2>2, <2>3
<1>10. ASSUME epout_buf'.frames = <<>>, transfer' = EP_SIZE, UNCHANGED resets,
              handed' = handed \/ handed' = Append(handed, f)
       PROVE  OverlookedInv'
  <2>1. ~Fresh'
    BY <1>10 DEF Fresh, EP_SIZE, PACKET_SIZE
  <2>2. Behind(epout_buf'.frames) = {}
    BY <1>10 DEF Behind
  <2>3. behinds' \subseteq behinds \union Behind(f)
    <3>1. CASE handed' = handed
      BY <1>5, <3>1
    <3>2. CASE handed' = Append(handed, f)
      <4>1. /\ DOMAIN handed' = DOMAIN handed \union {Len(handed) + 1}
            /\ \A k \in DOMAIN handed : handed'[k] = handed[k]
            /\ handed'[Len(handed) + 1] = f
        BY <1>1, <3>2, AppendOne
      <4> QED
        BY <4>1 DEF behinds
    <3> QED
      BY <1>10, <3>1, <3>2
  <2>4. Overlooked' \subseteq Overlooked
    BY <1>3, <2>2, <2>3
  <2> QED
    BY <1>1, <1>2, <1>4, <1>10, <2>1, <2>4 DEF OverlookedInv
<1>11. ASSUME ~over, epout_buf'.frames = <<>>, resets' = resets + 1, UNCHANGED handed
       PROVE  OverlookedInv'
  <2>1. Overlooked' \subseteq Overlooked
    BY <1>3, <1>5, <1>11 DEF Behind
  <2> QED
    BY <1>1, <1>2, <1>4, <1>11, <2>1 DEF OverlookedInv
<1> QED
  BY <1>8, <1>9, <1>10, <1>11, FrameMoves

\* The frames the console sends are handed over in order and at most once: a
\* single buffer takes them, but when a reset is executed no transfer is over, and
\* one that goes on has taken at most one.  Besides the one that each reset takes,
\* each configuration overlooks at most one, since no transfer but its first goes on
\* behind a frame.
THEOREM HeardOnceInOrder == Spec => []OutInOrder
<1> DEFINE Inv == /\ WalkInv /\ Rest /\ BufferInv /\ FrameInv /\ HeardInOrder
                  /\ LostInv /\ OverlookedInv
<1>1. Init => Inv
  BY WalkInit, BufferInit, FrameInit, LostInit, OverlookedInit
<1>2. Inv /\ [Next]_vars => Inv'
  BY WalkStep, BufferStep, FrameStep, LostStep, OverlookedStep
<1>3. Inv => OutInOrder
  <2> SUFFICES ASSUME Inv PROVE OutInOrder
    OBVIOUS
  <2>1. resets \in Nat /\ Cardinality(Overlooked) \in Nat
    BY FrameTypes, FS_CardinalityType DEF OverlookedInv
  <2>2. Cardinality(Overlooked) <= resets + 1
    BY <2>1 DEF OverlookedInv
  <2> QED
    BY <2>2 DEF HeardInOrder, LostInv, OutInOrder
<1> QED
  BY <1>1, <1>2, <1>3, PTL DEF Spec

=============================================================================
