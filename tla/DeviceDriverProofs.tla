------------------------- MODULE DeviceDriverProofs -------------------------
(***************************************************************************)
(* Proofs about DeviceDriver, for queues of any size, any number of        *)
(* packets and resets, and any times that satisfy DriverAssumption: it     *)
(* implements PacketChannel, holds no packet back for longer than the      *)
(* delay and two passes, and none for shorter than the delay.              *)
(***************************************************************************)
EXTENDS DeviceDriver, TLAPS

-----------------------------------------------------------------------------
(* The inductive invariants.                                               *)

\* board_millis() - t in uint32_t, as xboxd_send_task computes it.
Since(t) == (now + Wrap - t) % Wrap

\* A packet is kept back by nothing but time only while something waits for an
\* idle endpoint.  It has waited for no pass yet; or it is in epin_buf, a pass has
\* come too early for it, and since then the computed delay grows with the time
\* it is held.
HeldInv ==
  /\ ~Stalled => held = 0
  /\ Stalled => \/ held <= gap
                \/ /\ ~handled
                   /\ held <= Since(epin_buf.time) + MaxGap
                   /\ Since(epin_buf.time) <= ON_DELAY_MS + gap

\* The packets for which the computed age is true, unless they carry no stamp or
\* their delay is over in true time.
Timed ==
  {p \in Packets :
     /\ p.id <= written
     /\ p.time # 0 /\ age[p.id] <= ON_DELAY_MS => Since(p.time) = age[p.id]}

\* Every packet in the queue and in epin_buf is one of them; a packet that is not
\* yet written has no age.
StampInv ==
  /\ \A k \in 1 .. MaxPackets : k > written => age[k] = 0
  /\ fifo \in Seq(Timed)
  /\ ~handled => epin_buf \in Timed

-----------------------------------------------------------------------------
(* Sequences.                                                              *)

\* Writing to the queue and reading from it.
LEMMA QueueOps ==
  ASSUME NEW S, NEW s \in Seq(S), NEW e \in S
  PROVE  /\ Append(s, e) \in Seq(S) /\ Len(Append(s, e)) = Len(s) + 1
         /\ \A i \in 1 .. Len(s) : Append(s, e)[i] = s[i]
         /\ Append(s, e)[Len(s) + 1] = e
         /\ s # <<>> => /\ Head(s) \in S /\ Head(s) = s[1] /\ Len(s) \in Nat \ {0}
                        /\ Tail(s) \in Seq(S) /\ Len(Tail(s)) = Len(s) - 1
                        /\ \A i \in 1 .. Len(s) - 1 : Tail(s)[i] = s[i + 1]
OBVIOUS

\* A queue of packets of one kind is one of packets of every wider kind.
LEMMA WiderQueue ==
  ASSUME NEW S, NEW T, S \subseteq T, NEW s \in Seq(S)
  PROVE  s \in Seq(T)
OBVIOUS

\* A packet in front of the queue is the first of what is pending.
LEMMA InFront ==
  ASSUME NEW S, NEW s \in Seq(S), NEW e \in S, NEW f \in S
  PROVE  /\ <<e>> \o s # <<>>
         /\ Head(<<e>> \o s) = e
         /\ Tail(<<e>> \o s) = s
         /\ <<e>> \o Append(s, f) = Append(<<e>> \o s, f)
         /\ s # <<>> => <<Head(s)>> \o Tail(s) = s
OBVIOUS

-----------------------------------------------------------------------------
(* Elapsed times.                                                          *)

\* The difference of two counter values in unsigned arithmetic.
LEMMA Difference ==
  \A n, t \in Times : (n + Wrap - t) % Wrap = IF n >= t THEN n - t ELSE n + Wrap - t
<1> SUFFICES ASSUME NEW n \in Times, NEW t \in Times
             PROVE  (n + Wrap - t) % Wrap = IF n >= t THEN n - t ELSE n + Wrap - t
  OBVIOUS
<1> USE DriverAssumption
<1>1. CASE n < t
  BY <1>1 DEF Times
<1>2. CASE n >= t
  BY <1>2 DEF Times
<1> QED
  BY <1>1, <1>2 DEF Times

\* It is zero at first, and the passing of a millisecond adds one to it as long
\* as it does not complete a turn of the counter.
LEMMA SinceBounds ==
  ASSUME now \in Times, NEW t \in Times
  PROVE  Since(t) \in Times /\ Since(now) = 0
BY Difference, DriverAssumption DEF Since, Times

LEMMA SinceTick ==
  ASSUME TypeOK, Tick, NEW t \in Times, Since(t) + 1 < Wrap
  PROVE  (now' + Wrap - t) % Wrap = Since(t) + 1
<1>1. now \in Times
  BY DEF TypeOK
<1>2. now' = IF now + 1 = Wrap THEN 0 ELSE now + 1
  BY <1>1, DriverAssumption DEF Tick, Times
<1>3. now' \in Times
  BY <1>1, <1>2, DriverAssumption DEF Times
<1>4. Since(t) = IF now >= t THEN now - t ELSE now + Wrap - t
  BY <1>1, Difference DEF Since
<1>5. (now' + Wrap - t) % Wrap = IF now' >= t THEN now' - t ELSE now' + Wrap - t
  BY <1>3, Difference
<1> QED
  BY <1>1, <1>2, <1>4, <1>5, DriverAssumption DEF Times

-----------------------------------------------------------------------------
(* Types.                                                                  *)

\* What is written is a packet, and 0 and the present are times.
LEMMA NewPacket ==
  ASSUME TypeOK, written < MaxPackets, NEW time \in Times
  PROVE  [id |-> written + 1, time |-> time] \in Packets
BY DriverAssumption DEF TypeOK, Packets

LEMMA Stamps == TypeOK => 0 \in Times /\ now \in Times
BY DriverAssumption DEF TypeOK, Times

LEMMA TypingInit == Init => TypeOK
<1> SUFFICES ASSUME Init PROVE TypeOK
  OBVIOUS
<1>1. fifo \in Seq(Packets) /\ Len(fifo) <= FifoSize /\ delivered \in Seq(Packets)
  BY DriverAssumption DEF Init
<1>2. age \in [1 .. MaxPackets -> 0 .. ON_DELAY_MS + 1]
  <2>1. 0 \in 0 .. ON_DELAY_MS + 1
    BY DriverAssumption
  <2> QED
    BY <2>1 DEF Init
<1>3. 0 \in 0 .. MaxGap /\ 0 \in 0 .. MaxPackets /\ 0 \in 0 .. HoldLimit + 1
  BY DriverAssumption DEF HoldLimit
<1> QED
  BY <1>1, <1>2, <1>3 DEF Init, TypeOK

\* Every step keeps the types.
LEMMA TypingStep == TypeOK /\ [Next]_vars => TypeOK'
<1> SUFFICES ASSUME TypeOK, [Next]_vars PROVE TypeOK'
  OBVIOUS
<1> USE DriverAssumption
<1>1. CASE Tick
  <2>1. now' \in Times
    BY <1>1 DEF Tick, TypeOK, Times
  <2>2. age' \in [1 .. MaxPackets -> 0 .. ON_DELAY_MS + 1]
    BY <1>1 DEF Tick, TypeOK
  <2>3. held' \in 0 .. HoldLimit + 1
    BY <1>1 DEF Tick, TypeOK, HoldLimit
  <2>4. gap' \in 0 .. MaxGap
    BY <1>1 DEF Tick, TypeOK
  <2> QED
    BY <1>1, <2>1, <2>2, <2>3, <2>4 DEF Tick, TypeOK
<1>2. ASSUME NEW time \in Times, Write(time) PROVE TypeOK'
  <2> DEFINE p == [id |-> written + 1, time |-> time]
  <2>1. fifo' \in Seq(Packets) /\ Len(fifo') <= FifoSize
    <3>1. p \in Packets
      BY <1>2, NewPacket DEF Write
    <3>2. CASE Len(fifo) < FifoSize
      <4>1. fifo \in Seq(Packets) /\ fifo' = Append(fifo, p)
        BY <1>2, <3>2 DEF Write, TypeOK
      <4> QED
        BY <3>1, <3>2, <4>1, QueueOps
    <3>3. CASE ~(Len(fifo) < FifoSize)
      BY <1>2, <3>3 DEF Write, TypeOK
    <3> QED
      BY <3>2, <3>3
  <2>2. written' \in 0 .. MaxPackets
    BY <1>2 DEF Write, TypeOK
  <2> QED
    BY <1>2, <2>1, <2>2 DEF Write, TypeOK
<1>3. CASE SendTask
  <2>1. /\ fifo' \in Seq(Packets) /\ Len(fifo') <= FifoSize
        /\ ~handled' => epin_buf' \in Packets
        /\ epin_buf' \in Packets \union {Zero}
        /\ handled' \in BOOLEAN
    <3>1. CASE handled /\ fifo # <<>> /\ Offer(Head(fifo)) /\ fifo' = Tail(fifo)
      <4>1. fifo \in Seq(Packets) /\ Len(fifo) <= FifoSize
        BY DEF TypeOK
      <4>2. /\ Head(fifo) \in Packets /\ Tail(fifo) \in Seq(Packets)
            /\ Len(Tail(fifo)) = Len(fifo) - 1 /\ Len(fifo) \in Nat
        BY <3>1, <4>1, QueueOps
      <4>3. handled' = FALSE /\ epin_buf' = Head(fifo) /\ fifo' = Tail(fifo)
        BY <3>1 DEF Offer
      <4>4. Len(fifo) - 1 <= FifoSize
        BY <4>1, <4>2
      <4> QED
        BY <4>1, <4>2, <4>3, <4>4
    <3>2. CASE ~handled /\ Offer(epin_buf) /\ UNCHANGED fifo
      BY <3>2 DEF Offer, TypeOK
    <3> QED
      BY <1>3, <3>1, <3>2 DEF SendTask, TypeOK
  <2>2. /\ ep_in' \in {"closed", "idle", "busy", "done"}
        /\ ep_in' \in {"busy", "done"} => ~handled'
        /\ held' \in 0 .. HoldLimit + 1
    BY <1>3 DEF SendTask, Offer, HoldLimit, TypeOK
  <2> QED
    BY <1>3, <2>1, <2>2 DEF SendTask, TypeOK
<1>4. CASE ConsoleTakes
  <2>1. delivered' \in Seq(Packets)
    <3>1. epin_buf \in Packets /\ delivered \in Seq(Packets)
      BY <1>4 DEF ConsoleTakes, TypeOK
    <3> QED
      BY <1>4, <3>1, QueueOps DEF ConsoleTakes
  <2> QED
    BY <1>4, <2>1 DEF ConsoleTakes, TypeOK
<1>5. CASE XferCb
  BY <1>5 DEF XferCb, HandledAfterXfer, TypeOK
<1>6. CASE BusReset
  BY <1>6 DEF BusReset, TypeOK
<1>9. CASE xboxd_open
  <2>1. ep_in' = "idle"
    BY <1>9 DEF xboxd_open
  <2>2. UNCHANGED <<fifo, epin_buf, handled, bus_reset, now, gap, written,
                    delivered, resets, age, held>>
    BY <1>9 DEF xboxd_open
  <2> QED
    BY <2>1, <2>2 DEF TypeOK
<1>7. CASE xboxd_reset
  <2>1. 0 \in 0 .. HoldLimit + 1 /\ resets' \in Nat
    BY <1>7 DEF xboxd_reset, HoldLimit, TypeOK
  <2>2. handled' = TRUE /\ ep_in' = "closed" /\ epin_buf' = Zero /\ held' = 0
    BY <1>7 DEF xboxd_reset, HandledAfterReset
  <2>3. /\ UNCHANGED <<fifo, now, gap, written, delivered, age>>
        /\ bus_reset' = FALSE
    BY <1>7 DEF xboxd_reset
  <2> QED
    BY <2>1, <2>2, <2>3 DEF TypeOK
<1>8. CASE UNCHANGED vars
  BY <1>8 DEF vars, TypeOK
<1> QED
  BY <1>1, <1>2, <1>3, <1>4, <1>5, <1>6, <1>7, <1>8, <1>9, Stamps DEF Next

\* Every variable keeps its type: the queue its bound, and a transfer is under
\* way only for a packet that is not handled yet.
THEOREM Typing == Spec => []TypeOK
BY TypingInit, TypingStep, PTL DEF Spec

-----------------------------------------------------------------------------
(* The refinement.                                                         *)

\* The queue and the slot are empty.
LEMMA ChannelInit == Init => Channel!Init
BY DEF Init, Channel!Init, Pending, InSlot

\* Every step of the driver is one of the channel's, or none that it sees.
LEMMA ChannelStep == TypeOK /\ [Next]_vars => [Channel!Next]_(Channel!channelVars)
<1> SUFFICES ASSUME TypeOK, [Next]_vars
             PROVE  Channel!Next \/ UNCHANGED <<Pending, delivered, resets>>
  BY DEF Channel!channelVars
<1>0. /\ fifo \in Seq(Packets)
      /\ InSlot => epin_buf \in Packets
      /\ ep_in \in {"busy", "done"} => ~handled
  BY DEF TypeOK, InSlot
<1>1. ASSUME NEW time \in Times, Write(time)
      PROVE  Channel!Next \/ UNCHANGED <<Pending, delivered, resets>>
  <2> DEFINE p == [id |-> written + 1, time |-> time]
  <2>1. /\ p \in Packets
        /\ UNCHANGED <<epin_buf, delivered, resets>>
        /\ InSlot' = InSlot
    BY <1>1, NewPacket DEF Write, InSlot
  <2>2. CASE fifo' = fifo
    BY <2>1, <2>2 DEF Pending
  <2>3. CASE fifo' = Append(fifo, p)
    <3>1. Pending' = Append(Pending, p)
      <4>1. CASE InSlot
        <5>1. Pending = <<epin_buf>> \o fifo /\ Pending' = <<epin_buf>> \o fifo'
          BY <2>1, <4>1 DEF Pending
        <5>2. <<epin_buf>> \o Append(fifo, p) = Append(<<epin_buf>> \o fifo, p)
          BY <1>0, <2>1, <4>1, InFront
        <5> QED
          BY <2>3, <5>1, <5>2
      <4>2. CASE ~InSlot
        BY <2>1, <2>3, <4>2 DEF Pending
      <4> QED
        BY <4>1, <4>2
    <3> QED
      BY <2>1, <3>1 DEF Channel!Next, Channel!Accept
  <2> QED
    BY <1>1, <2>2, <2>3 DEF Write
<1>2. CASE SendTask
  <2>1. CASE ~handled /\ Offer(epin_buf) /\ UNCHANGED fifo
    <3>1. InSlot' = InSlot
      BY <2>1 DEF Offer, InSlot
    <3> QED
      BY <1>2, <2>1, <3>1 DEF SendTask, Offer, Pending
  <2>2. CASE handled /\ fifo # <<>> /\ Offer(Head(fifo)) /\ fifo' = Tail(fifo)
    <3>1. Pending = fifo
      BY <2>2 DEF Pending, InSlot
    <3>2. Pending' = <<Head(fifo)>> \o Tail(fifo)
      BY <1>0, <2>2 DEF Pending, InSlot, Offer
    <3>3. <<Head(fifo)>> \o Tail(fifo) = fifo
      BY <1>0, <2>2, QueueOps, InFront
    <3> QED
      BY <1>2, <3>1, <3>2, <3>3 DEF SendTask
  <2>3. CASE UNCHANGED <<fifo, epin_buf, handled, ep_in>>
    BY <1>2, <2>3 DEF SendTask, Pending, InSlot
  <2> QED
    BY <1>2, <2>1, <2>2, <2>3 DEF SendTask
<1>3. CASE ConsoleTakes
  <2>1. InSlot /\ ~InSlot' /\ epin_buf \in Packets
    BY <1>0, <1>3 DEF ConsoleTakes, InSlot
  <2>2. Pending = <<epin_buf>> \o fifo /\ Pending' = fifo
    BY <1>3, <2>1 DEF ConsoleTakes, Pending
  <2>3. Pending # <<>> /\ Head(Pending) = epin_buf /\ Tail(Pending) = fifo
    BY <1>0, <2>1, <2>2, InFront
  <2> QED
    BY <1>3, <2>2, <2>3 DEF ConsoleTakes, Channel!Next, Channel!Deliver
<1>4. CASE xboxd_reset
  <2>1. ~InSlot' /\ Pending' = fifo /\ resets' = resets + 1 /\ delivered' = delivered
    BY <1>4 DEF xboxd_reset, HandledAfterReset, Pending, InSlot
  <2>2. CASE InSlot
    <3>1. Pending # <<>> /\ Tail(Pending) = fifo
      BY <1>0, <2>2, InFront DEF Pending
    <3> QED
      BY <2>1, <3>1 DEF Channel!Next, Channel!Reset
  <2>3. CASE ~InSlot
    BY <2>1, <2>3 DEF Pending, Channel!Next, Channel!Reset
  <2> QED
    BY <2>2, <2>3
<1>5. CASE Tick \/ XferCb \/ BusReset \/ xboxd_open
  <2>1. InSlot' = InSlot /\ UNCHANGED <<fifo, epin_buf, delivered, resets>>
    BY <1>5 DEF Tick, XferCb, HandledAfterXfer, BusReset, xboxd_open, FreePlace, InSlot
  <2> QED
    BY <2>1 DEF Pending
<1>6. CASE UNCHANGED vars
  BY <1>6 DEF vars, Pending, InSlot
<1> QED
  BY <1>1, <1>2, <1>3, <1>4, <1>5, <1>6, Stamps DEF Next

\* The queue and the driver are the channel that PacketChannel describes: what
\* the queue has accepted reaches the console in order and at most once, and a
\* reset costs at most the one packet in epin_buf.
THEOREM Implements == Spec => Delivery
<1>1. Init => TypeOK /\ Channel!Init
  BY TypingInit, ChannelInit
<1>2. TypeOK /\ [Next]_vars => TypeOK' /\ [Channel!Next]_(Channel!channelVars)
  BY TypingStep, ChannelStep
<1> QED
  BY <1>1, <1>2, PTL DEF Spec, Delivery, Channel!Spec

-----------------------------------------------------------------------------
(* No packet is held back for long.                                        *)

LEMMA HeldInit == Init => HeldInv
BY DEF Init, HeldInv, Stalled

\* A pass that keeps the packet has computed a delay that is not over; from there
\* on it grows with the time the packet is held until it is.
LEMMA HeldStep == TypeOK /\ HeldInv /\ [Next]_vars => HeldInv'
<1> SUFFICES ASSUME TypeOK, HeldInv, [Next]_vars PROVE HeldInv'
  OBVIOUS
<1> USE DriverAssumption
<1>0. /\ now \in Times /\ gap \in 0 .. MaxGap /\ held \in Nat
      /\ ~handled => epin_buf.time \in Times
  BY DEF TypeOK, Packets
<1>1. CASE Tick
  <2>1. Stalled' = Stalled
    BY <1>1 DEF Tick, Stalled
  <2>2. CASE ~Stalled
    BY <1>1, <2>1, <2>2 DEF Tick, HeldInv
  <2>3. CASE Stalled
    <3>1. held' <= held + 1 /\ gap' = gap + 1 /\ gap < MaxGap
          /\ UNCHANGED <<epin_buf, handled>> /\ held' \in Nat
      BY <1>0, <1>1, <2>3 DEF Tick
    <3>2. CASE held <= gap
      BY <1>0, <2>1, <2>3, <3>1, <3>2 DEF HeldInv
    <3>3. CASE /\ ~handled
               /\ held <= Since(epin_buf.time) + MaxGap
               /\ Since(epin_buf.time) <= ON_DELAY_MS + gap
      <4>1. Since(epin_buf.time) \in Times
        BY <1>0, <3>3, SinceBounds
      <4>2. Since(epin_buf.time) + 1 < Wrap
        BY <1>0, <3>1, <3>3, <4>1 DEF Times
      <4>3. (now' + Wrap - epin_buf.time) % Wrap = Since(epin_buf.time) + 1
        BY <1>0, <1>1, <3>3, <4>2, SinceTick
      <4>4. Since(epin_buf.time)' = Since(epin_buf.time) + 1
        BY <3>1, <4>3 DEF Since
      <4> QED
        BY <1>0, <2>1, <2>3, <3>1, <3>3, <4>1, <4>4 DEF HeldInv, Times
    <3> QED
      BY <2>3, <3>2, <3>3 DEF HeldInv
  <2> QED
    BY <2>2, <2>3
<1>2. ASSUME NEW time \in Times, Write(time) PROVE HeldInv'
  <2>1. UNCHANGED <<epin_buf, handled, ep_in, now, gap, held>>
    BY <1>2 DEF Write
  <2>2. Stalled => Stalled'
    <3>1. fifo # <<>> => fifo' # <<>>
      <4> DEFINE p == [id |-> written + 1, time |-> time]
      <4>1. fifo \in Seq(Packets) /\ p \in Packets
        BY <1>2, NewPacket DEF Write, TypeOK
      <4>2. Append(fifo, p) # <<>>
        <5>1. Len(Append(fifo, p)) = Len(fifo) + 1 /\ Len(fifo) \in Nat
          BY <4>1, QueueOps
        <5>2. Len(<<>>) = 0
          OBVIOUS
        <5> QED
          BY <5>1, <5>2
      <4> QED
        BY <1>2, <4>2 DEF Write
    <3> QED
      BY <2>1, <3>1 DEF Stalled
  <2> QED
    BY <1>0, <2>1, <2>2 DEF HeldInv, Since
<1>3. CASE SendTask
  <2>0. gap' = 0 /\ now' = now
    BY <1>3 DEF SendTask
  <2>1. ASSUME NEW p \in Packets, Offer(p), ~handled \/ fifo # <<>> PROVE HeldInv'
    <3>1. ~handled' /\ epin_buf' = p
      BY <2>1 DEF Offer
    <3>2. CASE DelayOver(p) \/ ep_in # "idle"
      <4>1. held' = 0 /\ ~Stalled'
        BY <2>1, <3>2 DEF Offer, Stalled, HeldInv
      <4> QED
        BY <4>1 DEF HeldInv
    <3>3. CASE ~DelayOver(p) /\ ep_in = "idle"
      <4>1. held' = held /\ Stalled /\ Stalled'
        BY <2>1, <3>3 DEF Offer, Stalled
      <4>2. p.time \in Times
        BY DEF Packets
      <4>3. Since(p.time) \in Times /\ Since(p.time) <= ON_DELAY_MS
        <5>1. Since(p.time) \in Times
          BY <1>0, <4>2, SinceBounds
        <5> QED
          BY <3>3, <5>1 DEF DelayOver, Since, Times
      <4>4. Since(epin_buf.time)' = Since(p.time)
        BY <2>0, <3>1 DEF Since
      <4>5. held <= Since(p.time) + MaxGap
        <5>1. CASE held <= gap
          BY <1>0, <4>3, <5>1 DEF Times
        <5>2. CASE ~handled /\ held <= Since(epin_buf.time) + MaxGap
          <6>1. epin_buf = p
            BY <1>3, <2>1, <3>1, <5>2 DEF SendTask, Offer
          <6> QED
            BY <5>2, <6>1
        <5> QED
          BY <4>1, <5>1, <5>2 DEF HeldInv
      <4> QED
        BY <1>0, <2>0, <3>1, <4>1, <4>3, <4>4, <4>5 DEF HeldInv, Times
    <3> QED
      BY <3>2, <3>3
  <2>2. CASE ~handled /\ Offer(epin_buf)
    BY <2>1, <2>2 DEF TypeOK
  <2>3. CASE handled /\ fifo # <<>> /\ Offer(Head(fifo))
    <3>1. Head(fifo) \in Packets
      BY <2>3, QueueOps DEF TypeOK
    <3> QED
      BY <2>1, <2>3, <3>1
  <2>4. CASE handled /\ fifo = <<>> /\ UNCHANGED <<fifo, epin_buf, handled, ep_in, held>>
    BY <2>4 DEF HeldInv, Stalled
  <2> QED
    BY <1>3, <2>2, <2>3, <2>4 DEF SendTask
<1>4. CASE ConsoleTakes \/ XferCb \/ xboxd_open
  <2>1. held' = 0
    BY <1>4 DEF ConsoleTakes, XferCb, xboxd_open, FreePlace, HeldInv, Stalled
  <2>2. gap' = gap
    BY <1>4 DEF ConsoleTakes, XferCb, xboxd_open
  <2> QED
    BY <1>0, <2>1, <2>2 DEF HeldInv
<1>5. CASE BusReset
  BY <1>5 DEF BusReset, HeldInv, Stalled, Since
<1>6. CASE xboxd_reset
  BY <1>6 DEF xboxd_reset, HeldInv, Stalled
<1>7. CASE UNCHANGED vars
  BY <1>7 DEF vars, HeldInv, Stalled, Since
<1> QED
  BY <1>1, <1>2, <1>3, <1>4, <1>5, <1>6, <1>7, Stamps DEF Next

\* An endpoint that is open and idle is given the next packet within the delay
\* and two passes, whatever stamp the packet carries and wherever the counter
\* wraps.
THEOREM NotHeldBack == Spec => []HeldBounded
<1>1. Init => TypeOK /\ HeldInv
  BY TypingInit, HeldInit
<1>2. TypeOK /\ HeldInv /\ [Next]_vars => (TypeOK /\ HeldInv)'
  BY TypingStep, HeldStep
<1>3. TypeOK /\ HeldInv => HeldBounded
  <2> SUFFICES ASSUME TypeOK, HeldInv PROVE held <= ON_DELAY_MS + 2 * MaxGap
    BY DEF HeldBounded, HoldLimit
  <2>1. /\ gap \in 0 .. MaxGap /\ held \in Nat
        /\ ~handled => Since(epin_buf.time) \in Times
    BY SinceBounds DEF TypeOK, Packets
  <2> QED
    BY <2>1, DriverAssumption DEF HeldInv, Times
<1> QED
  BY <1>1, <1>2, <1>3, PTL DEF Spec

-----------------------------------------------------------------------------
(* No report is sent too early.                                            *)

LEMMA StampInit == Init => StampInv
<1> SUFFICES ASSUME Init PROVE StampInv
  OBVIOUS
<1>1. <<>> \in Seq(Timed)
  OBVIOUS
<1> QED
  BY <1>1 DEF Init, StampInv

\* The passing of a millisecond adds one to the age of a report and to the age
\* computed for it.
LEMMA TimedTick == TypeOK /\ Tick => Timed \subseteq Timed'
<1> SUFFICES ASSUME TypeOK, Tick, NEW p \in Timed
             PROVE  p \in Timed'
  OBVIOUS
<1> USE DriverAssumption
<1>1. /\ p \in Packets /\ p.id \in 1 .. MaxPackets /\ p.time \in Times
      /\ age[p.id] \in 0 .. ON_DELAY_MS + 1 /\ p.id <= written
      /\ written' = written
  BY DEF TypeOK, Packets, Tick, Timed
<1>2. age'[p.id] = IF age[p.id] <= ON_DELAY_MS THEN age[p.id] + 1 ELSE age[p.id]
  BY <1>1 DEF Tick
<1>3. ASSUME p.time # 0, age'[p.id] <= ON_DELAY_MS
      PROVE  (now' + Wrap - p.time) % Wrap = age'[p.id]
  <2>1. age[p.id] <= ON_DELAY_MS /\ age'[p.id] = age[p.id] + 1
    BY <1>1, <1>2, <1>3
  <2>2. Since(p.time) = age[p.id]
    BY <1>3, <2>1 DEF Timed
  <2>3. Since(p.time) + 1 < Wrap
    BY <1>1, <1>3, <2>1, <2>2
  <2> QED
    BY <1>1, <2>1, <2>2, <2>3, SinceTick
<1> QED
  BY <1>1, <1>3 DEF Timed, Since

\* Writing adds a packet stamped with the present, or not stamped.
LEMMA TimedWrite ==
  ASSUME TypeOK, StampInv, NEW time \in {0, now}, Write(time)
  PROVE  Timed \subseteq Timed' /\ [id |-> written + 1, time |-> time] \in Timed'
<1> DEFINE p == [id |-> written + 1, time |-> time]
<1>1. /\ UNCHANGED <<now, age>> /\ written' = written + 1 /\ written < MaxPackets
      /\ written \in 0 .. MaxPackets
  BY DEF Write, TypeOK
<1>2. Timed \subseteq Timed'
  BY <1>1, DriverAssumption DEF Timed, Since, Packets
<1>3. p \in Packets
  BY <1>1, NewPacket, Stamps
<1>4. age[written + 1] = 0
  BY <1>1, DriverAssumption DEF StampInv
<1>5. time # 0 => (now + Wrap - time) % Wrap = 0
  BY SinceBounds, Stamps DEF Since
<1> QED
  BY <1>1, <1>2, <1>3, <1>4, <1>5 DEF Timed, Since

\* Every step keeps the computed ages true.
LEMMA StampStep == TypeOK /\ StampInv /\ [Next]_vars => StampInv'
<1> SUFFICES ASSUME TypeOK, StampInv, [Next]_vars PROVE StampInv'
  OBVIOUS
<1>0. fifo \in Seq(Timed) /\ ~handled => epin_buf \in Timed
  BY DEF StampInv
<1>1. CASE Tick
  <2>1. Timed \subseteq Timed'
    BY <1>1, TimedTick
  <2>2. fifo \in Seq(Timed')
    BY <2>1, WiderQueue DEF StampInv
  <2>3. \A k \in 1 .. MaxPackets : k > written => age'[k] = 0
    BY <1>1, DriverAssumption DEF Tick, StampInv, TypeOK
  <2> QED
    BY <1>1, <2>1, <2>2, <2>3 DEF Tick, StampInv
<1>2. ASSUME NEW time \in {0, now}, Write(time) PROVE StampInv'
  <2> DEFINE p == [id |-> written + 1, time |-> time]
  <2>1. Timed \subseteq Timed' /\ p \in Timed'
    BY <1>2, TimedWrite
  <2>2. fifo \in Seq(Timed')
    BY <2>1, WiderQueue DEF StampInv
  <2>3. fifo' \in Seq(Timed')
    <3>1. Append(fifo, p) \in Seq(Timed')
      BY <2>1, <2>2, QueueOps
    <3> QED
      BY <1>2, <2>2, <3>1 DEF Write
  <2>4. \A k \in 1 .. MaxPackets : k > written' => age'[k] = 0
    BY <1>2, DriverAssumption DEF Write, StampInv, TypeOK
  <2> QED
    BY <1>2, <2>1, <2>3, <2>4 DEF Write, StampInv
<1>3. CASE SendTask
  <2>1. Timed' = Timed /\ UNCHANGED <<age, written>>
    BY <1>3 DEF SendTask, Timed, Since
  <2>2. CASE handled /\ fifo # <<>> /\ Offer(Head(fifo)) /\ fifo' = Tail(fifo)
    <3>1. Head(fifo) \in Timed /\ Tail(fifo) \in Seq(Timed)
      BY <2>2, QueueOps DEF StampInv
    <3> QED
      BY <2>1, <2>2, <3>1 DEF StampInv, Offer
  <2>3. CASE UNCHANGED <<fifo, epin_buf>> /\ (handled' = handled \/ ~handled)
    BY <2>1, <2>3 DEF StampInv
  <2> QED
    BY <1>3, <2>2, <2>3 DEF SendTask, Offer
<1>4. CASE ConsoleTakes \/ XferCb \/ BusReset \/ xboxd_open \/ xboxd_reset
  <2>1. UNCHANGED <<fifo, now, age, written>>
    BY <1>4 DEF ConsoleTakes, XferCb, BusReset, xboxd_open, xboxd_reset
  <2>2. ~handled' => ~handled /\ epin_buf' = epin_buf
    BY <1>4 DEF ConsoleTakes, XferCb, HandledAfterXfer, BusReset, xboxd_open,
                xboxd_reset, HandledAfterReset
  <2>3. Timed' = Timed
    BY <2>1 DEF Timed, Since
  <2> QED
    BY <2>1, <2>2, <2>3 DEF StampInv
<1>5. CASE UNCHANGED vars
  <2>1. Timed' = Timed
    BY <1>5 DEF vars, Timed, Since
  <2> QED
    BY <1>5, <2>1 DEF vars, StampInv
<1> QED
  BY <1>1, <1>2, <1>3, <1>4, <1>5 DEF Next

\* Only a pass gives a packet to an idle endpoint, and the delay it has found to
\* be over is over.
LEMMA DelayStep ==
  TypeOK /\ StampInv /\ [Next]_vars
    => [ep_in = "idle" /\ ep_in' = "busy" /\ epin_buf'.time # 0
          => age[epin_buf'.id] > ON_DELAY_MS]_vars
<1> SUFFICES ASSUME TypeOK, StampInv, [Next]_vars,
                    ep_in = "idle", ep_in' = "busy", epin_buf'.time # 0
             PROVE  age[epin_buf'.id] > ON_DELAY_MS
  OBVIOUS
<1>1. SendTask
  BY DEF Next, vars, Tick, Write, ConsoleTakes, XferCb, BusReset, xboxd_reset, xboxd_open
<1>2. PICK p \in Timed : Offer(p)
  <2>1. CASE ~handled /\ Offer(epin_buf)
    BY <2>1 DEF StampInv
  <2>2. CASE handled /\ fifo # <<>> /\ Offer(Head(fifo))
    BY <2>2, QueueOps DEF StampInv
  <2>3. ~(handled /\ fifo = <<>> /\ UNCHANGED ep_in)
    OBVIOUS
  <2> QED
    BY <1>1, <2>1, <2>2, <2>3 DEF SendTask
<1>3. epin_buf' = p /\ Since(p.time) > ON_DELAY_MS
  BY <1>2 DEF Offer, DelayOver, Since
<1>4. age[p.id] \in 0 .. ON_DELAY_MS + 1
  BY DEF TypeOK, Packets, Timed
<1> QED
  BY <1>2, <1>3, <1>4, DriverAssumption DEF Timed

\* A drum report is never given to the endpoint before its delay is over in true
\* time: no wrap of the counter makes a fresh report look old.
THEOREM NotTooEarly == Spec => DelayKept
<1>1. Init => TypeOK /\ StampInv
  BY TypingInit, StampInit
<1>2. TypeOK /\ StampInv /\ [Next]_vars => (TypeOK /\ StampInv)'
  BY TypingStep, StampStep
<1> QED
  BY <1>1, <1>2, DelayStep, PTL DEF Spec, DelayKept

=============================================================================
