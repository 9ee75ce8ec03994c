--------------------------- MODULE AdapterProofs ---------------------------
(***************************************************************************)
(* Proofs about Adapter, for any number of identify chunks, instruments    *)
(* and queue slots.                                                        *)
(***************************************************************************)
EXTENDS Adapter, TLAPS

-----------------------------------------------------------------------------
(* The inductive invariant.                                                *)

\* What adapter_state is while a core is in the middle of something.  Only
\* core 0 writes adapter_state, so what core 0 has read stays true; what core 1
\* has read stays true except that AUTHENTICATING may have become RUNNING.
StageInv ==
  /\ At0("init") <=> adapter_state = "NONE"
  /\ At0("identify") => adapter_state = "IDENTIFYING"
  /\ At0("auth") => adapter_state = "AUTHENTICATING"
  /\ At0("notify") => adapter_state = "RUNNING"
  /\ At0("write") => \/ adapter_state = "INIT" /\ out_packet = Packet("announce")
                     \/ /\ adapter_state = "IDENTIFYING"
                        /\ out_packet.kind = "chunk"
  /\ core1 = "raw" => adapter_state \in {"AUTHENTICATING", "RUNNING"}
  /\ core1 \in {"guide", "fill", "write"} => adapter_state = "RUNNING"
  /\ core1 = "write" => out_packet = Packet("input")

\* A raw packet is late only if it was chosen before the adapter ran, and it
\* was then the one core 1 had in hand.
LateInv ==
  /\ late <= 1
  /\ late = 1 => adapter_state = "RUNNING" /\ core1 # "raw"

-----------------------------------------------------------------------------
(* Types.                                                                  *)

\* What the program queues are packets, and the queue takes at most one more.
LEMMA WriteType ==
  ASSUME TypeOK, NEW p \in Packets, xbox_fifo_write(p)
  PROVE  /\ fifo' \in Seq(Packets)
         /\ Len(fifo') <= FifoSize
         /\ refused' \in BOOLEAN
<1>1. CASE Len(fifo) < FifoSize
  <2>1. fifo' = Append(fifo, p)
    BY <1>1 DEF xbox_fifo_write, Written
  <2>2. /\ Append(fifo, p) \in Seq(Packets)
        /\ Len(Append(fifo, p)) = Len(fifo) + 1
    BY DEF TypeOK
  <2> QED
    BY <1>1, <2>1, <2>2, AdapterAssumption DEF TypeOK, xbox_fifo_write
<1>2. CASE ~(Len(fifo) < FifoSize)
  BY <1>2 DEF TypeOK, xbox_fifo_write, Written
<1> QED
  BY <1>1, <1>2

\* The packets that have no number are packets.
LEMMA PlainPackets ==
  \A kind \in {"zero", "announce", "raw", "guide", "input", "notice", "drum"} :
    Packet(kind) \in Packets
BY DEF Packet, Packets

\* identify_sequence starts over before it is used: the chunk it selects exists.
LEMMA ChunkType ==
  ASSUME NEW k \in 0 .. NChunks
  PROVE  /\ StartOver(k) \in 0 .. NChunks - 1
         /\ Advance(StartOver(k)) \in 0 .. NChunks
         /\ Chunk(StartOver(k)) \in Packets
<1>1. StartOver(k) \in 0 .. NChunks - 1
  BY AdapterAssumption DEF StartOver
<1>2. Chunk(StartOver(k)) \in Packets
  BY <1>1 DEF Chunk, Packets
<1> QED
  BY <1>1, <1>2, AdapterAssumption DEF Advance

\* The places core 0 goes to are places.
LEMMA Core0Type ==
  ASSUME TypeOK
  PROVE  /\ \A pc \in Labels0 : Goto0(pc) =>
              core0' \in [pc : Labels0, left : 0 .. NInstruments, then : {"loop", "send"}]
         /\ \A max \in 0 .. NInstruments, then \in {"loop", "send"} : NotifyThen(max, then) =>
              core0' \in [pc : Labels0, left : 0 .. NInstruments, then : {"loop", "send"}]
BY DEF TypeOK, Goto0, NotifyThen, Labels0

\* The statics of main.c are of their types.
LEMMA TypingInit == Init => TypeOK
<1> SUFFICES ASSUME Init PROVE TypeOK
  OBVIOUS
<1>1. fifo \in Seq(Packets) /\ Len(fifo) <= FifoSize
  BY AdapterAssumption DEF Init
<1>2. 0 \in 0 .. NChunks /\ 0 \in 0 .. NInstruments
  BY AdapterAssumption
<1>3. core0 \in [pc : Labels0, left : 0 .. NInstruments, then : {"loop", "send"}]
  BY <1>2 DEF Init, Labels0
<1> QED
  BY <1>1, <1>2, <1>3, PlainPackets
     DEF Init, TypeOK, States, Labels0, Labels1, NoController

\* Every step keeps the types.
LEMMA TypingStep == TypeOK /\ [Next]_vars => TypeOK'
<1> SUFFICES ASSUME TypeOK, [Next]_vars PROVE TypeOK'
  OBVIOUS
<1> USE AdapterAssumption
<1> DEFINE CoreType == [pc : Labels0, left : 0 .. NInstruments, then : {"loop", "send"}]
<1>1. CASE FinishInit
  <2>1. core0' \in CoreType
    BY <1>1, Core0Type DEF FinishInit, Labels0
  <2> QED
    BY <1>1, <2>1 DEF FinishInit, TypeOK, States
<1>2. CASE AnnounceTask
  <2>1. core0' \in CoreType
    BY <1>2, Core0Type DEF AnnounceTask, Labels0
  <2> QED
    BY <1>2, <2>1, PlainPackets DEF AnnounceTask, TypeOK
<1>3. CASE WriteOutPacket
  <2>1. core0' \in CoreType
    BY <1>3, Core0Type DEF WriteOutPacket, Labels0
  <2>2. /\ fifo' \in Seq(Packets)
        /\ Len(fifo') <= FifoSize
        /\ refused' \in BOOLEAN
    BY <1>3, WriteType DEF WriteOutPacket, TypeOK
  <2> QED
    BY <1>3, <2>1, <2>2 DEF WriteOutPacket, TypeOK
<1>4. CASE HandleInit
  <2>1. core0' \in CoreType
    BY <1>4, Core0Type DEF HandleInit, Labels0
  <2> QED
    BY <1>4, <2>1 DEF HandleInit, TypeOK, States
<1>5. CASE NextChunk
  <2>1. core0' \in CoreType
    BY <1>5, Core0Type DEF NextChunk, Labels0
  <2>2. identify_sequence \in 0 .. NChunks
    BY DEF TypeOK
  <2>3. /\ out_packet' \in Packets
        /\ identify_sequence' \in 0 .. NChunks
    BY <1>5, <2>2, ChunkType DEF NextChunk
  <2> QED
    BY <1>5, <2>1, <2>3 DEF NextChunk, TypeOK
<1>6. CASE MoveToAuthenticate
  <2>1. core0' \in CoreType
    BY <1>6, Core0Type DEF MoveToAuthenticate, Labels0
  <2> QED
    BY <1>6, <2>1 DEF MoveToAuthenticate, TypeOK, States
<1>7. CASE RelayAuth
  <2>1. core0' \in CoreType
    BY <1>7, Core0Type DEF RelayAuth, Labels0
  <2> QED
    BY <1>7, <2>1 DEF RelayAuth, TypeOK
<1>8. CASE Authenticated
  <2>1. core0' \in CoreType
    BY <1>8, Core0Type DEF Authenticated, Accepted
  <2> QED
    BY <1>8, <2>1 DEF Authenticated, Accepted, TypeOK, States
<1>9. CASE Notify
  <2>1. core0' \in CoreType
    <3>1. core0 \in CoreType
      BY DEF TypeOK
    <3>2. CASE core0.left > 0 /\ core0' = [core0 EXCEPT !.left = @ - 1]
      <4>1. core0.left - 1 \in 0 .. NInstruments
        BY <3>1, <3>2
      <4> QED
        BY <3>1, <3>2, <4>1
    <3>3. CASE core0' = [core0 EXCEPT !.pc = core0.then, !.left = 0]
      <4>1. 0 \in 0 .. NInstruments /\ core0.then \in Labels0
        BY <3>1 DEF Labels0
      <4> QED
        BY <3>1, <3>3, <4>1
    <3> QED
      BY <1>9, <3>2, <3>3 DEF Notify
  <2>2. /\ fifo' \in Seq(Packets)
        /\ Len(fifo') <= FifoSize
        /\ refused' \in BOOLEAN
    BY <1>9, WriteType, PlainPackets DEF Notify, TypeOK
  <2> QED
    BY <1>9, <2>1, <2>2 DEF Notify, TypeOK
<1>10. CASE Send
  <2>1. core0' \in CoreType
    BY <1>10, Core0Type DEF Send, Labels0
  <2> QED
    BY <1>10, <2>1 DEF Send, TypeOK
<1>11. CASE HandleRunning
  <2>1. core0' \in CoreType
    BY <1>11, Core0Type DEF HandleRunning, Labels0
  <2> QED
    BY <1>11, <2>1 DEF HandleRunning, TypeOK
<1>12. CASE DrumTask
  <2>1. /\ fifo' \in Seq(Packets)
        /\ Len(fifo') <= FifoSize
        /\ refused' \in BOOLEAN
    BY <1>12, WriteType, PlainPackets DEF DrumTask
  <2> QED
    BY <1>12, <2>1 DEF DrumTask, TypeOK
<1>13. CASE SendTask
  <2>1. fifo' \in Seq(Packets) /\ Len(fifo') <= FifoSize
    BY <1>13 DEF SendTask, TypeOK
  <2> QED
    BY <1>13, <2>1 DEF SendTask, TypeOK
<1>14. CASE Mount \/ Unmount \/ AnnounceInterval
  BY <1>14 DEF Mount, Unmount, AnnounceInterval, TypeOK
<1>15. CASE ControllerPacket
  BY <1>15 DEF ControllerPacket, TypeOK, Labels1
<1>16. CASE WriteRaw
  <2>1. /\ fifo' \in Seq(Packets)
        /\ Len(fifo') <= FifoSize
        /\ refused' \in BOOLEAN
    BY <1>16, WriteType, PlainPackets DEF WriteRaw
  <2> QED
    BY <1>16, <2>1 DEF WriteRaw, TypeOK, Labels1
<1>17. CASE WriteGuide
  <2>1. /\ fifo' \in Seq(Packets)
        /\ Len(fifo') <= FifoSize
        /\ refused' \in BOOLEAN
    BY <1>17, WriteType, PlainPackets DEF WriteGuide
  <2> QED
    BY <1>17, <2>1 DEF WriteGuide, TypeOK, Labels1
<1>18. CASE FillInput
  BY <1>18, PlainPackets DEF FillInput, TypeOK, Labels1
<1>19. CASE WriteInput
  <2>1. /\ fifo' \in Seq(Packets)
        /\ Len(fifo') <= FifoSize
        /\ refused' \in BOOLEAN
    BY <1>19, WriteType DEF WriteInput, TypeOK
  <2> QED
    BY <1>19, <2>1 DEF WriteInput, TypeOK, Labels1
<1>20. CASE Notice
  <2>1. /\ fifo' \in Seq(Packets)
        /\ Len(fifo') <= FifoSize
        /\ refused' \in BOOLEAN
    BY <1>20, WriteType, PlainPackets DEF Notice
  <2> QED
    BY <1>20, <2>1 DEF Notice, TypeOK
<1>21. CASE UNCHANGED vars
  BY <1>21 DEF vars, TypeOK
<1> QED
  BY <1>1, <1>2, <1>3, <1>4, <1>5, <1>6, <1>7, <1>8, <1>9, <1>10, <1>11, <1>12,
     <1>13, <1>14, <1>15, <1>16, <1>17, <1>18, <1>19, <1>20, <1>21
     DEF Next, Core0, Core1

\* Every variable keeps its type; in particular identifiers_get is never given
\* the index one past its list, which its own guard would let through.
THEOREM Typing == Spec => []TypeOK
<1>1. Init => TypeOK
  BY TypingInit
<1>2. TypeOK /\ [Next]_vars => TypeOK'
  BY TypingStep
<1> QED
  BY <1>1, <1>2, PTL DEF Spec

-----------------------------------------------------------------------------
(* The two cores and adapter_state.                                        *)

\* Goto0 moves core 0 and NotifyThen sends it to its notices.
LEMMA Core0Moves ==
  ASSUME TypeOK
  PROVE  /\ \A pc : Goto0(pc) => core0'.pc = pc
         /\ \A max, then : NotifyThen(max, then) => core0'.pc = "notify"
BY DEF TypeOK, Goto0, NotifyThen

\* Every step keeps what the cores are doing in line with adapter_state.
LEMMA StageStep == TypeOK /\ StageInv /\ [Next]_vars => StageInv'
<1> SUFFICES ASSUME TypeOK, StageInv, [Next]_vars PROVE StageInv'
  OBVIOUS
<1> USE DEF At0
<1>1. CASE FinishInit
  BY <1>1, Core0Moves DEF FinishInit, StageInv
<1>2. CASE AnnounceTask
  BY <1>2, Core0Moves DEF AnnounceTask, AnnounceState, StageInv
<1>3. CASE WriteOutPacket
  BY <1>3, Core0Moves DEF WriteOutPacket, StageInv
<1>4. CASE HandleInit
  BY <1>4, Core0Moves DEF HandleInit, StageInv
<1>5. CASE NextChunk
  <2>1. /\ adapter_state = "IDENTIFYING"
        /\ core0'.pc = "write"
        /\ out_packet'.kind = "chunk"
        /\ UNCHANGED <<adapter_state, core1>>
    BY <1>5, Core0Moves DEF NextChunk, Chunk, StageInv
  <2> QED
    BY <2>1 DEF StageInv
<1>6. CASE MoveToAuthenticate
  BY <1>6, Core0Moves DEF MoveToAuthenticate, StageInv
<1>7. CASE RelayAuth
  BY <1>7, Core0Moves DEF RelayAuth, StageInv
<1>8. CASE Authenticated
  BY <1>8, Core0Moves DEF Authenticated, Accepted, StageInv
<1>9. CASE Notify
  <2>1. core0'.pc \in {"notify", "loop", "send"}
    BY <1>9 DEF Notify, TypeOK
  <2> QED
    BY <1>9, <2>1 DEF Notify, StageInv
<1>10. CASE Send \/ HandleRunning
  BY <1>10, Core0Moves DEF Send, HandleRunning, StageInv
<1>11. CASE DrumTask \/ SendTask \/ Mount \/ Unmount \/ AnnounceInterval \/ Notice
  BY <1>11 DEF DrumTask, SendTask, Mount, Unmount, AnnounceInterval, Notice, StageInv
<1>12. CASE ControllerPacket
  BY <1>12 DEF ControllerPacket, Relaying, Translating, StageInv
<1>13. CASE WriteRaw \/ WriteGuide \/ WriteInput
  BY <1>13 DEF WriteRaw, WriteGuide, WriteInput, StageInv
<1>14. CASE FillInput
  BY <1>14 DEF FillInput, StageInv
<1>15. CASE UNCHANGED vars
  BY <1>15 DEF vars, StageInv
<1> QED
  BY <1>1, <1>2, <1>3, <1>4, <1>5, <1>6, <1>7, <1>8, <1>9, <1>10, <1>11, <1>12,
     <1>13, <1>14, <1>15 DEF Next, Core0, Core1

\* The statics satisfy the invariant: core 0 is still in init().
LEMMA StageInit == Init => StageInv /\ LateInv
BY DEF Init, StageInv, LateInv, At0

\* main.c's out_packet is never changed by one core between the moment the
\* other has filled it and the moment it has been copied into the queue: core 0
\* fills it only while announcing or identifying, core 1 only while running.
THEOREM PacketIntact == Spec => []OutPacketIntact
<1>1. Init => TypeOK /\ StageInv
  BY TypingInit, StageInit
<1>2. TypeOK /\ StageInv /\ [Next]_vars => (TypeOK /\ StageInv)'
  BY TypingStep, StageStep
<1>3. StageInv => OutPacketIntact
  BY DEF StageInv, OutPacketIntact, Packet
<1> QED
  BY <1>1, <1>2, <1>3, PTL DEF Spec

\* Only WriteRaw counts, and once the adapter runs no raw packet is chosen.
LEMMA LateStep == TypeOK /\ StageInv /\ LateInv /\ [Next]_vars => LateInv'
<1> SUFFICES ASSUME TypeOK, StageInv, LateInv, [Next]_vars PROVE LateInv'
  OBVIOUS
<1> USE DEF TypeOK
<1>1. CASE WriteRaw
  BY <1>1 DEF WriteRaw, StageInv, LateInv
<1>2. CASE ControllerPacket
  BY <1>2 DEF ControllerPacket, Relaying, Translating, LateInv
<1>3. CASE FinishInit \/ HandleInit \/ MoveToAuthenticate
  BY <1>3 DEF FinishInit, HandleInit, MoveToAuthenticate, At0, StageInv, LateInv
<1>4. CASE Authenticated
  BY <1>4 DEF Authenticated, Accepted, LateInv
<1>5. CASE AnnounceTask \/ WriteOutPacket \/ NextChunk \/ RelayAuth \/ Notify
           \/ Send \/ HandleRunning \/ DrumTask \/ SendTask
  BY <1>5 DEF AnnounceTask, WriteOutPacket, NextChunk, RelayAuth, Notify, Send,
              HandleRunning, DrumTask, SendTask, LateInv
<1>6. CASE Mount \/ Unmount \/ WriteGuide \/ FillInput \/ WriteInput \/ Notice
           \/ AnnounceInterval
  BY <1>6 DEF Mount, Unmount, WriteGuide, FillInput, WriteInput, Notice,
              AnnounceInterval, LateInv
<1>7. CASE UNCHANGED vars
  BY <1>7 DEF vars, LateInv
<1> QED
  BY <1>1, <1>2, <1>3, <1>4, <1>5, <1>6, <1>7 DEF Next, Core0, Core1

\* At most one untranslated controller packet reaches the queue after the
\* console has accepted the adapter.
THEOREM OneLateRaw == Spec => []AtMostOneLateRaw
<1>1. Init => TypeOK /\ StageInv /\ LateInv
  BY TypingInit, StageInit
<1>2. TypeOK /\ StageInv /\ LateInv /\ [Next]_vars => (TypeOK /\ StageInv /\ LateInv)'
  BY TypingStep, StageStep, LateStep
<1>3. LateInv => AtMostOneLateRaw
  BY DEF LateInv, AtMostOneLateRaw
<1> QED
  BY <1>1, <1>2, <1>3, PTL DEF Spec

-----------------------------------------------------------------------------
(* The order of the packets in the queue.                                  *)

\* The phase the adapter is in.
Rank == CASE adapter_state = "NONE" -> 0
          [] adapter_state = "INIT" -> 1
          [] adapter_state = "IDENTIFYING" -> 2
          [] adapter_state = "AUTHENTICATING" -> 3
          [] adapter_state = "RUNNING" -> 4

\* Nothing in the queue is of a phase that is still to come.
RankInv == \A k \in 1 .. Len(fifo) : Phase(fifo[k].kind) <= Rank

OrderInv == PhaseOrder /\ RankInv

\* Phases are numbers, and each kind has the one it is meant to have.
LEMMA PhaseValues ==
  /\ \A kind : Phase(kind) \in 1 .. 4
  /\ Phase("announce") = 1
  /\ Phase("chunk") = 2
  /\ Phase("raw") = 3
  /\ \A kind \in {"guide", "input", "notice", "drum"} : Phase(kind) = 4
BY DEF Phase

\* Each adapter_state is one phase.
LEMMA RankValues ==
  ASSUME TypeOK
  PROVE  /\ Rank \in 0 .. 4
         /\ adapter_state = "NONE" => Rank = 0
         /\ adapter_state = "INIT" => Rank = 1
         /\ adapter_state = "IDENTIFYING" => Rank = 2
         /\ adapter_state = "AUTHENTICATING" => Rank = 3
         /\ adapter_state = "RUNNING" => Rank = 4
BY DEF TypeOK, States, Rank

\* What a write does to the queue: nothing, or one packet more at its end.
LEMMA WriteCases ==
  ASSUME TypeOK, NEW p \in Packets, xbox_fifo_write(p)
  PROVE  \/ fifo' = fifo /\ (p.kind = "chunk" => refused')
         \/ /\ Len(fifo') = Len(fifo) + 1
            /\ fifo'[Len(fifo) + 1] = p
            /\ \A k \in 1 .. Len(fifo) : fifo'[k] = fifo[k]
            /\ refused' = refused
<1>1. CASE Len(fifo) < FifoSize
  <2>1. fifo' = Append(fifo, p)
    BY <1>1 DEF xbox_fifo_write, Written
  <2>2. /\ Len(Append(fifo, p)) = Len(fifo) + 1
        /\ Append(fifo, p)[Len(fifo) + 1] = p
        /\ \A k \in 1 .. Len(fifo) : Append(fifo, p)[k] = fifo[k]
    BY DEF TypeOK
  <2>3. refused' = refused
    BY <1>1, AdapterAssumption DEF TypeOK, xbox_fifo_write
  <2> QED
    BY <2>1, <2>2, <2>3
<1>2. CASE ~(Len(fifo) < FifoSize)
  <2>1. fifo' = fifo
    BY <1>2 DEF xbox_fifo_write, Written
  <2>2. Len(fifo) >= FifoSize
    BY <1>2, AdapterAssumption DEF TypeOK
  <2> QED
    BY <2>1, <2>2 DEF xbox_fifo_write
<1> QED
  BY <1>1, <1>2

\* What taking a packet off does to the queue.
LEMMA TakeCases ==
  ASSUME TypeOK, fifo # <<>>, fifo' = Tail(fifo)
  PROVE  /\ Len(fifo) \in Nat \ {0}
         /\ Len(fifo') = Len(fifo) - 1
         /\ \A k \in 1 .. Len(fifo') : fifo'[k] = fifo[k + 1]
BY DEF TypeOK

\* A write keeps the order when the packet is of the phase the adapter is in,
\* or is a raw packet after the identification.
LEMMA WriteOrder ==
  ASSUME TypeOK, OrderInv, NEW p \in Packets, xbox_fifo_write(p),
         adapter_state' = adapter_state,
         \/ Phase(p.kind) = Rank
         \/ p.kind = "raw" /\ Rank >= 3
  PROVE  OrderInv'
<1>1. Rank' = Rank
  BY DEF Rank
<1>2. CASE fifo' = fifo
  BY <1>1, <1>2 DEF OrderInv, PhaseOrder, RankInv
<1>3. CASE /\ Len(fifo') = Len(fifo) + 1
           /\ fifo'[Len(fifo) + 1] = p
           /\ \A k \in 1 .. Len(fifo) : fifo'[k] = fifo[k]
  <2>1. Phase(p.kind) <= Rank
    BY PhaseValues, RankValues
  <2>2. Len(fifo) \in Nat
    BY DEF TypeOK
  <2>3. ASSUME NEW k \in 1 .. Len(fifo')
        PROVE  Phase(fifo'[k].kind) <= Rank
    <3>1. CASE k = Len(fifo) + 1
      BY <1>3, <2>1, <3>1
    <3>2. CASE k \in 1 .. Len(fifo)
      BY <1>3, <3>2 DEF OrderInv, RankInv
    <3> QED
      BY <1>3, <2>2, <3>1, <3>2
  <2>4. ASSUME NEW j \in 1 .. Len(fifo'), NEW k \in 1 .. Len(fifo'), j < k
        PROVE  \/ Phase(fifo'[j].kind) <= Phase(fifo'[k].kind)
               \/ fifo'[k].kind = "raw"
    <3>1. j \in 1 .. Len(fifo)
      BY <1>3, <2>2, <2>4
    <3>2. CASE k = Len(fifo) + 1
      BY <1>3, <3>1, <3>2 DEF OrderInv, RankInv
    <3>3. CASE k \in 1 .. Len(fifo)
      BY <1>3, <2>4, <3>1, <3>3 DEF OrderInv, PhaseOrder
    <3> QED
      BY <1>3, <2>2, <3>2, <3>3
  <2> QED
    BY <1>1, <2>3, <2>4 DEF OrderInv, PhaseOrder, RankInv
<1> QED
  BY <1>2, <1>3, WriteCases

\* A new adapter_state is always one phase further.
LEMMA StateOrder ==
  ASSUME TypeOK, TypeOK', OrderInv, UNCHANGED fifo, Rank <= Rank'
  PROVE  OrderInv'
<1>1. Rank \in 0 .. 4 /\ Rank' \in 0 .. 4
  BY RankValues DEF TypeOK, States, Rank
<1>2. \A k \in 1 .. Len(fifo) : Phase(fifo[k].kind) <= Rank'
  BY <1>1, PhaseValues DEF OrderInv, RankInv
<1> QED
  BY <1>2 DEF OrderInv, PhaseOrder, RankInv

\* Every step keeps the order: each packet that is written is of the phase the
\* adapter is in, and the phases only go forward.
LEMMA OrderStep == TypeOK /\ StageInv /\ OrderInv /\ [Next]_vars => OrderInv'
<1> SUFFICES ASSUME TypeOK, StageInv, OrderInv, [Next]_vars PROVE OrderInv'
  OBVIOUS
<1> USE DEF At0
<1>0. TypeOK'
  BY TypingStep
<1>1. CASE FinishInit \/ HandleInit \/ MoveToAuthenticate \/ Authenticated
  <2>1. Rank <= Rank'
    BY <1>1 DEF FinishInit, HandleInit, MoveToAuthenticate, Authenticated,
                Accepted, StageInv, Rank
  <2>2. UNCHANGED fifo
    BY <1>1 DEF FinishInit, HandleInit, MoveToAuthenticate, Authenticated
  <2> QED
    BY <1>0, <2>1, <2>2, StateOrder
<1>2. CASE WriteOutPacket
  <2>1. out_packet \in Packets
    BY DEF TypeOK
  <2>2. Phase(out_packet.kind) = Rank
    BY <1>2, PhaseValues, RankValues DEF WriteOutPacket, StageInv, Packet
  <2> QED
    BY <1>2, <2>1, <2>2, WriteOrder DEF WriteOutPacket
<1>3. CASE Notify
  <2>1. CASE xbox_fifo_write(Packet("notice"))
    <3>1. Phase(Packet("notice").kind) = Rank
      BY <1>3, PhaseValues, RankValues DEF Notify, StageInv, Packet
    <3> QED
      BY <1>3, <2>1, <3>1, PlainPackets, WriteOrder DEF Notify
  <2>2. CASE UNCHANGED fifo
    BY <1>3, <2>2 DEF Notify, OrderInv, PhaseOrder, RankInv, Rank
  <2> QED
    BY <1>3, <2>1, <2>2 DEF Notify
<1>4. CASE DrumTask
  <2>1. Phase(Packet("drum").kind) = Rank
    BY <1>4, PhaseValues, RankValues DEF DrumTask, Packet
  <2> QED
    BY <1>4, <2>1, PlainPackets, WriteOrder DEF DrumTask
<1>5. CASE Notice
  <2>1. Phase(Packet("notice").kind) = Rank
    BY <1>5, PhaseValues, RankValues DEF Notice, Packet
  <2> QED
    BY <1>5, <2>1, PlainPackets, WriteOrder DEF Notice
<1>6. CASE WriteRaw
  <2>1. Packet("raw").kind = "raw" /\ Rank >= 3
    BY <1>6, RankValues DEF WriteRaw, StageInv, Packet
  <2> QED
    BY <1>6, <2>1, PlainPackets, WriteOrder DEF WriteRaw
<1>7. CASE WriteGuide
  <2>1. Phase(Packet("guide").kind) = Rank
    BY <1>7, PhaseValues, RankValues DEF WriteGuide, StageInv, Packet
  <2> QED
    BY <1>7, <2>1, PlainPackets, WriteOrder DEF WriteGuide
<1>8. CASE WriteInput
  <2>1. Phase(out_packet.kind) = Rank /\ out_packet \in Packets
    BY <1>8, PhaseValues, RankValues DEF WriteInput, StageInv, Packet, TypeOK
  <2> QED
    BY <1>8, <2>1, WriteOrder DEF WriteInput
<1>9. CASE SendTask
  <2>1. /\ Len(fifo) \in Nat
        /\ Len(fifo') = Len(fifo) - 1
        /\ \A k \in 1 .. Len(fifo') : fifo'[k] = fifo[k + 1]
    BY <1>9, TakeCases DEF SendTask
  <2>2. Rank' = Rank
    BY <1>9 DEF SendTask, Rank
  <2>3. RankInv'
    BY <2>1, <2>2 DEF OrderInv, RankInv
  <2>4. ASSUME NEW j \in 1 .. Len(fifo'), NEW k \in 1 .. Len(fifo'), j < k
        PROVE  \/ Phase(fifo'[j].kind) <= Phase(fifo'[k].kind)
               \/ fifo'[k].kind = "raw"
    <3>1. /\ j + 1 \in 1 .. Len(fifo) /\ k + 1 \in 1 .. Len(fifo)
          /\ j + 1 < k + 1
      BY <2>1, <2>4
    <3> QED
      BY <2>1, <3>1 DEF OrderInv, PhaseOrder
  <2> QED
    BY <2>3, <2>4 DEF OrderInv, PhaseOrder
<1>10. CASE AnnounceTask \/ NextChunk \/ RelayAuth \/ Send \/ HandleRunning
            \/ Mount \/ Unmount \/ ControllerPacket \/ FillInput \/ AnnounceInterval
            \/ UNCHANGED vars
  <2>1. UNCHANGED <<fifo, adapter_state>>
    BY <1>10 DEF AnnounceTask, NextChunk, RelayAuth, Send, HandleRunning, Mount,
                 Unmount, ControllerPacket, FillInput, AnnounceInterval, vars
  <2> QED
    BY <2>1 DEF OrderInv, PhaseOrder, RankInv, Rank
<1> QED
  BY <1>1, <1>2, <1>3, <1>4, <1>5, <1>6, <1>7, <1>8, <1>9, <1>10
     DEF Next, Core0, Core1

\* The packets wait in the queue in the order of the handshake's phases, on
\* whichever core they were built; only a raw packet can be late.
THEOREM InOrder == Spec => []PhaseOrder
<1>1. Init => TypeOK /\ StageInv /\ OrderInv
  BY TypingInit, StageInit DEF Init, OrderInv, PhaseOrder, RankInv
<1>2. TypeOK /\ StageInv /\ OrderInv /\ [Next]_vars => (TypeOK /\ StageInv /\ OrderInv)'
  BY TypingStep, StageStep, OrderStep
<1>3. OrderInv => PhaseOrder
  BY DEF OrderInv
<1> QED
  BY <1>1, <1>2, <1>3, PTL DEF Spec

-----------------------------------------------------------------------------
(* The identify chunks.                                                    *)

\* Core 0 has built a chunk it has not queued yet.
HoldsChunk == At0("write") /\ out_packet.kind = "chunk"

\* The number of the chunk that will be queued next.
Upcoming == IF HoldsChunk THEN out_packet.n ELSE StartOver(identify_sequence)

LastIsChunk == Len(fifo) > 0 /\ fifo[Len(fifo)].kind = "chunk"

\* identify_sequence is one past the chunk in hand; if the last packet in the
\* queue is a chunk and none was refused, the next one follows it.
SequenceInv ==
  /\ HoldsChunk => identify_sequence = out_packet.n + 1
  /\ ~refused /\ LastIsChunk => Upcoming = (fifo[Len(fifo)].n + 1) % NChunks

ChunkInv == SequenceInv /\ ChunkOrder

\* Starting over at the end of the list is counting modulo its length.
LEMMA StartOverIsModulo ==
  ASSUME NEW n \in 0 .. NChunks - 1
  PROVE  StartOver(n + 1) = (n + 1) % NChunks
<1>1. CASE n + 1 = NChunks
  BY <1>1, AdapterAssumption DEF StartOver
<1>2. CASE n + 1 < NChunks
  BY <1>2, AdapterAssumption DEF StartOver
<1> QED
  BY <1>1, <1>2, AdapterAssumption

\* A packet that is no chunk leaves the sequence of chunks as it is.
LEMMA OtherWrite ==
  ASSUME TypeOK, ChunkInv, NEW p \in Packets, p.kind # "chunk",
         xbox_fifo_write(p), Upcoming' = Upcoming,
         HoldsChunk' => HoldsChunk /\ UNCHANGED <<identify_sequence, out_packet>>
  PROVE  ChunkInv'
<1>1. (HoldsChunk => identify_sequence = out_packet.n + 1)'
  BY DEF ChunkInv, SequenceInv
<1>2. refused' = refused
  BY DEF TypeOK, xbox_fifo_write
<1>3. CASE fifo' = fifo
  BY <1>1, <1>2, <1>3 DEF ChunkInv, SequenceInv, ChunkOrder, LastIsChunk
<1>4. CASE /\ Len(fifo') = Len(fifo) + 1
           /\ fifo'[Len(fifo) + 1] = p
           /\ \A k \in 1 .. Len(fifo) : fifo'[k] = fifo[k]
  <2>1. Len(fifo) \in Nat
    BY DEF TypeOK
  <2>2. ~LastIsChunk'
    BY <1>4 DEF LastIsChunk
  <2>3. ASSUME ~refused, NEW k \in 1 .. Len(fifo') - 1,
               fifo'[k].kind = "chunk" /\ fifo'[k + 1].kind = "chunk"
        PROVE  fifo'[k + 1].n = (fifo'[k].n + 1) % NChunks
    <3>1. k # Len(fifo)
      BY <1>4, <2>3
    <3>2. k \in 1 .. Len(fifo) - 1 /\ k + 1 \in 1 .. Len(fifo)
      BY <1>4, <2>1, <3>1
    <3> QED
      BY <1>4, <2>3, <3>2 DEF ChunkInv, ChunkOrder
  <2> QED
    BY <1>1, <1>2, <2>2, <2>3 DEF ChunkInv, SequenceInv, ChunkOrder
<1> QED
  BY <1>3, <1>4, WriteCases

\* The chunk in hand follows the last one in the queue, and the chunk after it
\* follows it.
LEMMA ChunkWrite ==
  ASSUME TypeOK, ChunkInv, HoldsChunk, xbox_fifo_write(out_packet),
         ~HoldsChunk', UNCHANGED identify_sequence
  PROVE  ChunkInv'
<1>1. out_packet \in Packets
  BY DEF TypeOK
<1>2. out_packet.n \in 0 .. NChunks - 1
  BY <1>1 DEF HoldsChunk, Packets
<1>3. identify_sequence = out_packet.n + 1
  BY DEF ChunkInv, SequenceInv
<1>4. Upcoming' = (out_packet.n + 1) % NChunks
  BY <1>2, <1>3, StartOverIsModulo DEF Upcoming, StartOver
<1>5. CASE refused'
  BY <1>5 DEF ChunkInv, SequenceInv, ChunkOrder
<1>6. CASE ~refused'
  <2>1. /\ Len(fifo') = Len(fifo) + 1
        /\ fifo'[Len(fifo) + 1] = out_packet
        /\ \A k \in 1 .. Len(fifo) : fifo'[k] = fifo[k]
        /\ ~refused
    BY <1>1, <1>6, WriteCases DEF HoldsChunk
  <2>2. Len(fifo) \in Nat
    BY DEF TypeOK
  <2>3. SequenceInv'
    BY <1>4, <2>1, <2>2 DEF SequenceInv
  <2>4. ASSUME NEW k \in 1 .. Len(fifo') - 1,
               fifo'[k].kind = "chunk" /\ fifo'[k + 1].kind = "chunk"
        PROVE  fifo'[k + 1].n = (fifo'[k].n + 1) % NChunks
    <3>1. CASE k = Len(fifo)
      <4>1. LastIsChunk
        BY <2>1, <2>2, <2>4, <3>1 DEF LastIsChunk
      <4>2. out_packet.n = (fifo[k].n + 1) % NChunks
        BY <2>1, <3>1, <4>1 DEF ChunkInv, SequenceInv, Upcoming
      <4> QED
        BY <2>1, <2>2, <3>1, <4>2
    <3>2. CASE k \in 1 .. Len(fifo) - 1
      <4>1. k + 1 \in 1 .. Len(fifo) /\ k \in 1 .. Len(fifo)
        BY <2>2, <3>2
      <4> QED
        BY <2>1, <2>4, <3>2, <4>1 DEF ChunkInv, ChunkOrder
    <3> QED
      BY <2>1, <2>2, <3>1, <3>2
  <2> QED
    BY <2>3, <2>4 DEF ChunkInv, ChunkOrder
<1> QED
  BY <1>5, <1>6

\* Every step keeps the sequence of the chunks.
LEMMA ChunkStep ==
  TypeOK /\ StageInv /\ ChunkInv /\ [Next]_vars => ChunkInv'
<1> SUFFICES ASSUME TypeOK, StageInv, ChunkInv, [Next]_vars PROVE ChunkInv'
  OBVIOUS
<1> USE DEF At0
<1>1. CASE WriteOutPacket
  <2>1. core0'.pc = "loop" /\ ~HoldsChunk'
    BY <1>1, Core0Moves DEF WriteOutPacket, HoldsChunk
  <2>2. CASE HoldsChunk
    BY <1>1, <2>1, <2>2, ChunkWrite DEF WriteOutPacket
  <2>3. CASE ~HoldsChunk
    <3>1. Upcoming' = Upcoming
      BY <1>1, <2>1, <2>3 DEF WriteOutPacket, Upcoming, StartOver
    <3>2. out_packet \in Packets /\ out_packet.kind # "chunk"
      BY <1>1, <2>3 DEF WriteOutPacket, HoldsChunk, TypeOK
    <3> QED
      BY <1>1, <2>1, <3>1, <3>2, OtherWrite DEF WriteOutPacket
  <2> QED
    BY <2>2, <2>3
<1>2. CASE NextChunk
  <2> DEFINE k == StartOver(identify_sequence)
  <2>1. /\ core0'.pc = "write"
        /\ core0.pc # "write"
        /\ out_packet' = Chunk(k)
        /\ identify_sequence' = k + 1
        /\ UNCHANGED <<fifo, refused>>
    BY <1>2, Core0Moves DEF NextChunk, Advance
  <2>2. HoldsChunk' /\ ~HoldsChunk /\ out_packet'.n = k
    BY <2>1 DEF HoldsChunk, Chunk
  <2>3. Upcoming' = Upcoming
    BY <2>2 DEF Upcoming
  <2> QED
    BY <2>1, <2>2, <2>3 DEF ChunkInv, SequenceInv, ChunkOrder, LastIsChunk
<1>3. CASE FillInput
  <2>1. ~HoldsChunk /\ ~HoldsChunk'
    BY <1>3 DEF FillInput, StageInv, HoldsChunk, Packet
  <2> QED
    BY <1>3, <2>1 DEF FillInput, ChunkInv, SequenceInv, ChunkOrder, LastIsChunk,
                      Upcoming, StartOver
<1>4. CASE DrumTask \/ Notice \/ WriteRaw \/ WriteGuide
  <2>1. PICK kind \in {"drum", "notice", "raw", "guide"} :
          /\ xbox_fifo_write(Packet(kind))
          /\ UNCHANGED <<core0, out_packet, identify_sequence>>
    BY <1>4 DEF DrumTask, Notice, WriteRaw, WriteGuide
  <2>2. Packet(kind) \in Packets /\ Packet(kind).kind # "chunk"
    BY PlainPackets DEF Packet
  <2>3. Upcoming' = Upcoming /\ HoldsChunk' = HoldsChunk
    BY <2>1 DEF Upcoming, HoldsChunk, StartOver
  <2> QED
    BY <2>1, <2>2, <2>3, OtherWrite
<1>5. CASE WriteInput
  <2>1. /\ xbox_fifo_write(out_packet)
        /\ UNCHANGED <<core0, out_packet, identify_sequence>>
        /\ out_packet \in Packets
        /\ out_packet.kind # "chunk"
    BY <1>5 DEF WriteInput, StageInv, Packet, TypeOK
  <2>2. Upcoming' = Upcoming /\ HoldsChunk' = HoldsChunk
    BY <2>1 DEF Upcoming, HoldsChunk, StartOver
  <2> QED
    BY <2>1, <2>2, OtherWrite
<1>6. CASE Notify
  <2>1. /\ UNCHANGED <<out_packet, identify_sequence>>
        /\ ~HoldsChunk /\ ~HoldsChunk'
        /\ xbox_fifo_write(Packet("notice")) \/ UNCHANGED <<fifo, refused>>
    BY <1>6 DEF Notify, TypeOK, HoldsChunk
  <2>2. Upcoming' = Upcoming
    BY <2>1 DEF Upcoming, StartOver
  <2>3. Packet("notice") \in Packets /\ Packet("notice").kind # "chunk"
    BY PlainPackets DEF Packet
  <2>4. CASE UNCHANGED <<fifo, refused>>
    BY <2>1, <2>2, <2>4 DEF ChunkInv, SequenceInv, ChunkOrder, LastIsChunk
  <2> QED
    BY <2>1, <2>2, <2>3, <2>4, OtherWrite
<1>7. CASE SendTask
  <2>1. /\ Len(fifo) \in Nat
        /\ Len(fifo') = Len(fifo) - 1
        /\ \A k \in 1 .. Len(fifo') : fifo'[k] = fifo[k + 1]
        /\ UNCHANGED <<core0, out_packet, identify_sequence, refused>>
    BY <1>7, TakeCases DEF SendTask
  <2>2. Upcoming' = Upcoming /\ HoldsChunk' = HoldsChunk
    BY <2>1 DEF Upcoming, HoldsChunk, StartOver
  <2>3. LastIsChunk' => LastIsChunk /\ fifo'[Len(fifo')] = fifo[Len(fifo)]
    BY <2>1 DEF LastIsChunk
  <2>4. SequenceInv'
    BY <2>1, <2>2, <2>3 DEF ChunkInv, SequenceInv
  <2>5. ASSUME ~refused, NEW k \in 1 .. Len(fifo') - 1,
               fifo'[k].kind = "chunk" /\ fifo'[k + 1].kind = "chunk"
        PROVE  fifo'[k + 1].n = (fifo'[k].n + 1) % NChunks
    <3>1. /\ k + 1 \in 1 .. Len(fifo) - 1
          /\ fifo'[k] = fifo[k + 1]
          /\ fifo'[k + 1] = fifo[(k + 1) + 1]
      BY <2>1
    <3> QED
      BY <2>5, <3>1 DEF ChunkInv, ChunkOrder
  <2> QED
    BY <2>1, <2>4, <2>5 DEF ChunkInv, ChunkOrder
<1>8. CASE \/ FinishInit \/ AnnounceTask \/ HandleInit \/ MoveToAuthenticate
           \/ RelayAuth \/ Authenticated \/ Send \/ HandleRunning
  <2>1. UNCHANGED <<fifo, refused, identify_sequence>>
    BY <1>8 DEF FinishInit, AnnounceTask, HandleInit, MoveToAuthenticate,
                RelayAuth, Authenticated, Send, HandleRunning
  <2>2. ~HoldsChunk
    BY <1>8 DEF FinishInit, AnnounceTask, HandleInit, MoveToAuthenticate,
                RelayAuth, Authenticated, Send, HandleRunning, HoldsChunk
  <2>3. ~HoldsChunk'
    <3>1. CASE AnnounceTask
      BY <3>1 DEF AnnounceTask, HoldsChunk, Packet
    <3>2. CASE \/ FinishInit \/ HandleInit \/ MoveToAuthenticate \/ RelayAuth
               \/ Authenticated \/ Send \/ HandleRunning
      BY <3>2, Core0Moves
         DEF FinishInit, HandleInit, MoveToAuthenticate, RelayAuth, Authenticated,
             Accepted, Send, HandleRunning, HoldsChunk
    <3> QED
      BY <1>8, <3>1, <3>2
  <2> QED
    BY <2>1, <2>2, <2>3 DEF ChunkInv, SequenceInv, ChunkOrder, LastIsChunk,
                            Upcoming, StartOver
<1>9. CASE Mount \/ Unmount \/ ControllerPacket \/ AnnounceInterval \/ UNCHANGED vars
  <2>1. UNCHANGED <<fifo, refused, identify_sequence, core0, out_packet>>
    BY <1>9 DEF Mount, Unmount, ControllerPacket, AnnounceInterval, vars
  <2> QED
    BY <2>1 DEF ChunkInv, SequenceInv, ChunkOrder, LastIsChunk, Upcoming,
                HoldsChunk, StartOver
<1> QED
  BY <1>1, <1>2, <1>3, <1>4, <1>5, <1>6, <1>7, <1>8, <1>9 DEF Next, Core0, Core1

\* As long as the queue refuses no chunk, the console gets the identify list
\* chunk by chunk, from the first again after the last, for a list of any
\* length and whatever is queued in between.
THEOREM ChunksInSequence == Spec => []ChunkOrder
<1>1. Init => TypeOK /\ StageInv /\ ChunkInv
  BY TypingInit, StageInit
     DEF Init, ChunkInv, SequenceInv, ChunkOrder, LastIsChunk, HoldsChunk, At0
<1>2. TypeOK /\ StageInv /\ ChunkInv /\ [Next]_vars => (TypeOK /\ StageInv /\ ChunkInv)'
  BY TypingStep, StageStep, ChunkStep
<1>3. ChunkInv => ChunkOrder
  BY DEF ChunkInv
<1> QED
  BY <1>1, <1>2, <1>3, PTL DEF Spec

=============================================================================
