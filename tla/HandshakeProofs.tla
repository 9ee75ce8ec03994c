--------------------------- MODULE HandshakeProofs ---------------------------
(***************************************************************************)
(* Proofs about Handshake, for queues of any size, any number of rounds,   *)
(* early requests and resets that satisfy HandshakeAssumption: the         *)
(* composition is an Adapter, the console gets the chunks it expects, and  *)
(* every answer of the controller fits into the queue.                     *)
(***************************************************************************)
EXTENDS Handshake, AdapterProofs

-----------------------------------------------------------------------------
(* The inductive invariants.                                               *)

\* What is in epin_buf has been in the queue: it is of no phase to come.
SlotInv == slot # <<>> => Phase(slot[1].kind) <= Rank

\* What the console will send fits what it is doing; a packet for the controller
\* is only relayed, and answered, once the adapter has left the identification.
PartnerInv ==
  /\ console.wants \in {IDENTIFY, ACKNOWLEDGE} => console.state = "identifying"
  /\ console.wants = AUTHENTICATE => console.state = "authenticating"
  /\ console.wants = ACCEPT => console.state = "done"
  /\ At0("send") \/ answer_due => adapter_state \in {"AUTHENTICATING", "RUNNING"}
  /\ core1 \in {"idle", "raw"}

\* No announcement will come any more: the adapter has left INIT, and what it had
\* queued before has gone.
NoAnnounce ==
  /\ adapter_state \notin {"NONE", "INIT"}
  /\ slot # <<>> => slot[1].kind # "announce"
  /\ \A k \in 1 .. Len(fifo) : fifo[k].kind # "announce"

\* The console authenticates only after the last announcement, and then never
\* identifies again.
Authenticates ==
  \/ console.state \in {"authenticating", "done"}
  \/ request \in {AUTHENTICATE, ACCEPT}
  \/ adapter_state \in {"AUTHENTICATING", "RUNNING"}

AnnounceInv ==
  /\ slot # <<>> /\ slot[1].kind # "announce" => NoAnnounce
  /\ Authenticates => NoAnnounce
  /\ console.state = "identifying" => ~Authenticates

Count(b) == IF b THEN 1 ELSE 0

\* The places where the one packet of the authentication can be, but for the
\* queue.
AuthPlaces ==
  Count(console.wants \in {AUTHENTICATE, ACCEPT}) + Count(request \in {AUTHENTICATE, ACCEPT})
    + Count(core0.pc \in {"auth", "send", "notify"}) + Count(answer_due)
    + Count(core1 = "raw") + Count(slot # <<>> /\ slot[1].kind = "raw")

RawAt(k) == fifo[k].kind = "raw"

\* There is only one, and once the adapter runs there is none but in core 0.
AuthInv ==
  /\ AuthPlaces <= 1
  /\ \A k \in 1 .. Len(fifo) :
       RawAt(k) => /\ AuthPlaces = 0
                   /\ \A j \in 1 .. Len(fifo) : RawAt(j) => j = k
  /\ adapter_state = "RUNNING" =>
       /\ AuthPlaces = Count(core0.pc \in {"auth", "send", "notify"})
       /\ \A k \in 1 .. Len(fifo) : ~RawAt(k)

\* Every request of the console, and every packet it leads to, outside the queue.
Load ==
  Count(console.wants # "none") + Count(request # "none")
    + Count(core0.pc \in {"identify", "auth", "send", "notify"}) + Count(HoldsChunk)
    + Count(answer_due) + Count(core1 = "raw")
    + Count(slot # <<>> /\ slot[1].kind # "announce")

\* The console has one request under way, one more for each time it asked too
\* early, and one for each time a reset made it start over.
Allowed ==
  early + resets + Count(console.state \in {"identifying", "authenticating", "done"})

\* With load requests outside the queue q, and with q's packets behind the last
\* announcement, no more than is allowed.
Fits(q, load, allowed) ==
  /\ load <= allowed
  /\ \A k \in 1 .. Len(q) : q[k].kind # "announce" => Len(q) - k + 1 + load <= allowed

\* Until the adapter runs, the queue holds besides announcements nothing but what
\* the console asked for.
LoadInv == adapter_state # "RUNNING" => Fits(fifo, Load, Allowed)

\* Before the first announcement came to the console it has asked for nothing.
FreshInv ==
  resets = 0 /\ console.state \in {"off", "waiting"} =>
    identify_sequence = 0 /\ request = "none" /\ adapter_state \in {"NONE", "INIT"}

SlotIsChunk == slot # <<>> /\ slot[1].kind = "chunk"

\* The chunk in epin_buf is followed by the first in the queue, or by the one that
\* will be queued next.
FollowInv ==
  SlotIsChunk /\ ~refused =>
    LET next == (slot[1].n + 1) % NChunks IN
    /\ fifo = <<>> => Upcoming = next
    /\ fifo # <<>> /\ fifo[1].kind = "chunk" => fifo[1].n = next

Expected(n) == Offsets[n + 1] = console.bytes

\* The next chunk is in epin_buf, or the first in the queue, or comes next.
StepInv ==
  console.state = "identifying" /\ ~refused /\ resets = 0 =>
    /\ SlotIsChunk => Expected(slot[1].n)
    /\ ~SlotIsChunk =>
         /\ (\A k \in 1 .. Len(fifo) : fifo[k].kind # "chunk") => Expected(Upcoming)
         /\ \A k \in 1 .. Len(fifo) :
              fifo[k].kind = "chunk" /\ (\A j \in 1 .. k - 1 : fifo[j].kind # "chunk")
                => Expected(fifo[k].n)

-----------------------------------------------------------------------------
(* The composition is an Adapter.                                          *)

\* Every step of the composition is one of the adapter's or leaves it alone.
LEMMA Joined == [HandshakeNext]_allVars => [Next]_vars
<1> SUFFICES ASSUME [HandshakeNext]_allVars PROVE [Next]_vars
  OBVIOUS
<1>1. CASE ConsoleOn \/ ConsoleTakes \/ ConsoleSends \/ AskAgain \/ AskEarly \/ BusReset
  BY <1>1 DEF ConsoleOn, ConsoleTakes, ConsoleSends, AskAgain, AskEarly, Asks, BusReset
<1>2. CASE HandlePacket
  BY <1>2 DEF HandlePacket, Next, Core0
<1>3. CASE SlotTask \/ Proceed \/ Announce \/ Interval \/ SendToController
  BY <1>3 DEF SlotTask, Proceed, Announce, Interval, SendToController, Next, Core0
<1>4. CASE Plug \/ Unplug \/ ControllerAnswers \/ RelayAnswer
  BY <1>4 DEF Plug, Unplug, ControllerAnswers, RelayAnswer, Next, Core1
<1>5. CASE UNCHANGED allVars
  BY <1>5 DEF allVars
<1> QED
  BY <1>1, <1>2, <1>3, <1>4, <1>5 DEF HandshakeNext

\* So what is proved of the adapter for every console and controller, is proved
\* for these: the types of its variables, the order of the phases, the sequence
\* of the chunks.
THEOREM IsAdapter == HandshakeSpec => Spec
<1>1. HandshakeInit => Init
  BY DEF HandshakeInit
<1> QED
  BY <1>1, Joined, PTL DEF HandshakeSpec, Spec

\* What AdapterProofs shows of every step of the adapter.
AdapterInv == TypeOK /\ StageInv /\ OrderInv /\ ChunkInv

LEMMA AdapterInit == HandshakeInit => AdapterInv
BY TypingInit, StageInit
   DEF AdapterInv, HandshakeInit, Init, ChunkInv, SequenceInv, ChunkOrder, LastIsChunk,
       HoldsChunk, At0, OrderInv, PhaseOrder, RankInv

LEMMA AdapterStep == AdapterInv /\ [HandshakeNext]_allVars => AdapterInv'
BY Joined, TypingStep, StageStep, OrderStep, ChunkStep DEF AdapterInv

-----------------------------------------------------------------------------
(* The fragments.                                                          *)

\* The list has seven chunks, each begins where the one before it ends, and the
\* last, which is empty, at the end.
LEMMA Fragments ==
  /\ NChunks = 7
  /\ Offsets[1] = 0 /\ Lengths[1] = Offsets[2] /\ Offsets[7] = Total
  /\ \A n \in 0 .. 5 : Offsets[n + 1] + Lengths[n + 1] = Offsets[n + 2]
  /\ Lengths[7] = 0
  /\ \A n \in 0 .. 6 : Offsets[n + 1] \in Nat
BY FragmentAssumption DEF Offsets, Lengths, Total

\* A fragment that belongs where the console is takes it to the next.
LEMMA TogetherStep ==
  ASSUME NEW bytes, NEW n \in 0 .. NChunks - 1, Offsets[n + 1] = bytes, ~Complete(bytes, n)
  PROVE  n \in 0 .. 5 /\ Offsets[n + 2] = Together(bytes, n)
<1>1. n \in 0 .. 5
  BY Fragments DEF Complete
<1> QED
  BY <1>1, Fragments DEF Together

\* What the console has put together is empty or ends where a fragment begins.
Sums == {0, Total} \union {Offsets[k] : k \in 1 .. NChunks}

LEMMA TogetherType ==
  ASSUME NEW bytes \in Sums, NEW n \in 0 .. NChunks - 1
  PROVE  Together(bytes, n) \in Sums
<1>1. CASE n = 0
  <2>1. Offsets[2] \in Sums
    BY Fragments DEF Sums
  <2> QED
    BY <1>1, <2>1, Fragments DEF Together
<1>2. CASE n # 0 /\ Offsets[n + 1] = bytes
  <2>1. CASE n = 6
    BY <1>2, <2>1, Fragments DEF Together, Sums
  <2>2. CASE n \in 0 .. 5
    <3>1. Together(bytes, n) = Offsets[n + 2]
      BY <1>2, <2>2, Fragments DEF Together
    <3> QED
      BY <2>2, <3>1, Fragments DEF Sums
  <2> QED
    BY <2>1, <2>2, Fragments
<1>3. CASE n # 0 /\ Offsets[n + 1] # bytes
  BY <1>3 DEF Together
<1> QED
  BY <1>1, <1>2, <1>3

-----------------------------------------------------------------------------
(* Types.                                                                  *)

ConsoleStates == {"off", "waiting", "identifying", "authenticating", "done"}

LEMMA CommandValues ==
  /\ {"none", IDENTIFY, ACKNOWLEDGE, AUTHENTICATE, ACCEPT} \subseteq Commands
  /\ "none" \notin {IDENTIFY, ACKNOWLEDGE, AUTHENTICATE, ACCEPT}
  /\ {IDENTIFY, ACKNOWLEDGE} \cap {AUTHENTICATE, ACCEPT} = {}
  /\ AUTHENTICATE # ACCEPT
  /\ ConsoleStates = {"off", "waiting", "identifying", "authenticating", "done"}
  /\ 0 \in Sums
BY DEF Commands, IDENTIFY, ACKNOWLEDGE, AUTHENTICATE, ACCEPT, ConsoleStates, Sums

\* What there is in epin_buf is a packet, and the only one.
LEMMA SlotPacket ==
  ASSUME HandshakeTypeOK, slot # <<>>
  PROVE  /\ Len(slot) = 1 /\ Head(slot) = slot[1] /\ slot[1] \in Packets
         /\ slot[1].kind = "chunk" => slot[1].n \in 0 .. NChunks - 1
<1>1. slot \in Seq(Packets) /\ Len(slot) <= 1
  BY DEF HandshakeTypeOK
<1>2. ASSUME NEW S, NEW s \in Seq(S), s # <<>>
      PROVE  Len(s) \in Nat \ {0} /\ Head(s) = s[1] /\ s[1] \in S
  BY <1>2
<1>3. \A p \in Packets : p.kind = "chunk" => p.n \in 0 .. NChunks - 1
  BY DEF Packets
<1>4. Len(slot) \in Nat \ {0} /\ Head(slot) = slot[1] /\ slot[1] \in Packets
  BY <1>1, <1>2
<1>5. Len(slot) = 1
  <2>1. \A n \in Nat \ {0} : n <= 1 => n = 1
    OBVIOUS
  <2> QED
    BY <1>1, <1>4, <2>1
<1> QED
  BY <1>3, <1>4, <1>5

\* What the console makes of a packet: it begins to identify, gets a chunk or the
\* last one, gets an answer of the controller or the last one, or ignores it.
LEMMA Reacts ==
  ASSUME HandshakeTypeOK, ConsoleTakes
  PROVE  /\ slot # <<>> /\ slot' = <<>> /\ console.state # "off"
         /\ UNCHANGED <<vars, request, answer_due, lost, early, resets>>
         /\ \/ /\ console.state = "waiting" /\ slot[1].kind = "announce"
               /\ console' = [console EXCEPT !.state = "identifying", !.bytes = 0,
                                             !.wants = IDENTIFY]
            \/ /\ console.state = "identifying" /\ slot[1].kind = "chunk"
               /\ Complete(console.bytes, slot[1].n)
               /\ console' = [console EXCEPT !.state = "authenticating", !.round = 1,
                                             !.wants = AUTHENTICATE]
            \/ /\ console.state = "identifying" /\ slot[1].kind = "chunk"
               /\ ~Complete(console.bytes, slot[1].n)
               /\ console' = [console EXCEPT !.bytes = Together(console.bytes, slot[1].n),
                                             !.wants = ACKNOWLEDGE]
            \/ /\ console.state = "authenticating" /\ slot[1].kind = "raw"
               /\ console' = [console EXCEPT !.state = "done", !.wants = ACCEPT]
            \/ /\ console.state = "authenticating" /\ slot[1].kind = "raw"
               /\ console.round # Rounds
               /\ console' = [console EXCEPT !.round = @ + 1, !.wants = AUTHENTICATE]
            \/ /\ console' = console
               /\ ~(console.state = "waiting" /\ slot[1].kind = "announce")
               /\ ~(console.state = "identifying" /\ slot[1].kind = "chunk")
<1>1. /\ slot # <<>> /\ slot' = <<>> /\ console.state # "off"
      /\ console' = Reaction(console, slot[1])
      /\ UNCHANGED <<vars, request, answer_due, lost, early, resets>>
  BY SlotPacket DEF ConsoleTakes
<1>2. CASE console.state = "waiting" /\ slot[1].kind = "announce"
  BY <1>1, <1>2 DEF Reaction
<1>3. CASE console.state = "identifying" /\ slot[1].kind = "chunk"
  BY <1>1, <1>3 DEF Reaction
<1>4. CASE console.state = "authenticating" /\ slot[1].kind = "raw"
  BY <1>1, <1>4 DEF Reaction
<1>5. CASE /\ ~(console.state = "waiting" /\ slot[1].kind = "announce")
           /\ ~(console.state = "identifying" /\ slot[1].kind = "chunk")
           /\ ~(console.state = "authenticating" /\ slot[1].kind = "raw")
  BY <1>1, <1>5 DEF Reaction
<1> QED
  BY <1>2, <1>3, <1>4, <1>5

\* The types of what is not the adapter's.
HostsType ==
  /\ console \in [state : ConsoleStates, bytes : Sums, round : 0 .. Rounds, wants : Commands]
  /\ request \in Commands
  /\ slot \in Seq(Packets) /\ Len(slot) <= 1
  /\ answer_due \in BOOLEAN /\ lost \in BOOLEAN
  /\ early \in 0 .. MaxEarly /\ resets \in 0 .. MaxResets

LEMMA TypeParts == HandshakeTypeOK <=> TypeOK /\ HostsType
BY DEF HandshakeTypeOK, HostsType, ConsoleStates, Sums

LEMMA HostsInit == HandshakeInit => HostsType
<1> SUFFICES ASSUME HandshakeInit PROVE HostsType
  OBVIOUS
<1>1. console \in [state : ConsoleStates, bytes : Sums, round : 0 .. Rounds, wants : Commands]
  <2>1. "off" \in ConsoleStates /\ 0 \in Sums /\ 0 \in 0 .. Rounds /\ "none" \in Commands
    BY CommandValues, HandshakeAssumption
  <2> QED
    BY <2>1 DEF HandshakeInit
<1>2. slot \in Seq(Packets) /\ Len(slot) <= 1
  BY DEF HandshakeInit
<1>3. 0 \in 0 .. MaxEarly /\ 0 \in 0 .. MaxResets
  BY HandshakeAssumption
<1> QED
  BY <1>1, <1>2, <1>3, CommandValues DEF HandshakeInit, HostsType

\* Every step keeps the types.
LEMMA HostsStep ==
  ASSUME TypeOK, HostsType, [HandshakeNext]_allVars
  PROVE  HostsType'
<1> DEFINE T == [state : ConsoleStates, bytes : Sums, round : 0 .. Rounds, wants : Commands]
<1>0. HandshakeTypeOK
  BY TypeParts
<1>1. ASSUME console' \in T, request' \in Commands, slot' \in Seq(Packets), Len(slot') <= 1,
             UNCHANGED <<answer_due, lost, early, resets>>
      PROVE  HostsType'
  BY <1>1 DEF HostsType
<1>2. /\ console \in T /\ request \in Commands /\ slot \in Seq(Packets) /\ Len(slot) <= 1
      /\ early \in 0 .. MaxEarly /\ resets \in 0 .. MaxResets
  BY DEF HostsType
<1>3. <<>> \in Seq(Packets) /\ Len(<<>>) <= 1
  OBVIOUS
<1> HIDE DEF T
<1>4. CASE ConsoleOn \/ ConsoleSends
  <2>1. console' \in T
    <3>1. "waiting" \in ConsoleStates /\ "none" \in Commands
      BY CommandValues
    <3> QED
      BY <1>2, <1>4, <3>1 DEF ConsoleOn, ConsoleSends, T
  <2>2. request' \in Commands
    BY <1>2, <1>4 DEF ConsoleOn, ConsoleSends, T
  <2> QED
    BY <1>1, <1>2, <1>4, <2>1, <2>2 DEF ConsoleOn, ConsoleSends
<1>5. CASE ConsoleTakes
  <2>1. /\ 0 \in Sums /\ 1 \in 0 .. Rounds
        /\ {"none", IDENTIFY, ACKNOWLEDGE, AUTHENTICATE, ACCEPT} \subseteq Commands
        /\ {"waiting", "identifying", "authenticating", "done"} \subseteq ConsoleStates
    BY CommandValues, HandshakeAssumption
  <2>2. console.bytes \in Sums /\ console.round \in 0 .. Rounds
    BY <1>2 DEF T
  <2>3. slot[1].kind = "chunk" => Together(console.bytes, slot[1].n) \in Sums
    BY <1>0, <1>5, <2>2, SlotPacket, TogetherType, Reacts
  <2>4. console.round # Rounds => console.round + 1 \in 0 .. Rounds
    BY <2>2, HandshakeAssumption
  <2>5. console' \in T
    <3>1. CASE console' = [console EXCEPT !.state = "identifying", !.bytes = 0, !.wants = IDENTIFY]
      BY <1>2, <2>1, <3>1 DEF T
    <3>2. CASE console' = [console EXCEPT !.state = "authenticating", !.round = 1,
                                          !.wants = AUTHENTICATE]
      BY <1>2, <2>1, <3>2 DEF T
    <3>3. CASE /\ slot[1].kind = "chunk"
               /\ console' = [console EXCEPT !.bytes = Together(console.bytes, slot[1].n),
                                             !.wants = ACKNOWLEDGE]
      BY <1>2, <2>1, <2>3, <3>3 DEF T
    <3>4. CASE console' = [console EXCEPT !.state = "done", !.wants = ACCEPT]
      BY <1>2, <2>1, <3>4 DEF T
    <3>5. CASE /\ console.round # Rounds
               /\ console' = [console EXCEPT !.round = @ + 1, !.wants = AUTHENTICATE]
      BY <1>2, <2>1, <2>4, <3>5 DEF T
    <3> QED
      BY <1>0, <1>2, <1>5, <3>1, <3>2, <3>3, <3>4, <3>5, Reacts
  <2>6. slot' = <<>> /\ UNCHANGED <<request, answer_due, lost, early, resets>>
    BY <1>0, <1>5, Reacts
  <2> QED
    BY <1>1, <1>2, <1>3, <2>5, <2>6
<1>6. CASE AskAgain \/ AskEarly
  <2>1. console' \in T
    <3>1. IDENTIFY \in Commands
      BY CommandValues
    <3> QED
      BY <1>2, <1>6, <3>1 DEF AskAgain, AskEarly, Asks, T
  <2>2. early' \in 0 .. MaxEarly
    BY <1>2, <1>6, HandshakeAssumption DEF AskAgain, AskEarly
  <2> QED
    BY <1>2, <1>6, <2>1, <2>2 DEF AskAgain, AskEarly, Asks, HostsType, T
<1>7. CASE BusReset
  <2>1. console' \in T
    <3>1. "off" \in ConsoleStates /\ 0 \in Sums /\ 0 \in 0 .. Rounds /\ "none" \in Commands
      BY CommandValues, HandshakeAssumption
    <3> QED
      BY <1>7, <3>1 DEF BusReset, T
  <2>2. request' \in Commands /\ slot' = <<>>
    BY <1>2, <1>7, CommandValues DEF BusReset
  <2>3. resets' \in 0 .. MaxResets
    BY <1>2, <1>7, HandshakeAssumption DEF BusReset
  <2> QED
    BY <1>3, <1>7, <2>1, <2>2, <2>3 DEF BusReset, HostsType, T
<1>8. CASE HandlePacket
  BY <1>1, <1>2, <1>8, CommandValues DEF HandlePacket
<1>9. CASE SlotTask
  <2>1. Head(fifo) \in Packets
    BY <1>9 DEF SlotTask, SendTask, TypeOK
  <2>2. <<Head(fifo)>> \in Seq(Packets) /\ Len(<<Head(fifo)>>) <= 1
    BY <2>1
  <2> QED
    BY <1>1, <1>2, <1>9, <2>2 DEF SlotTask
<1>10. CASE Proceed \/ Announce \/ Interval \/ Plug \/ UNCHANGED allVars
  BY <1>1, <1>2, <1>10 DEF Proceed, Announce, Interval, Plug, allVars, hosts
<1>11. CASE SendToController \/ Unplug \/ ControllerAnswers \/ RelayAnswer
  <2>1. answer_due' \in BOOLEAN /\ lost' \in BOOLEAN
    BY <1>11 DEF HostsType, SendToController, Unplug, ControllerAnswers, RelayAnswer
  <2>2. UNCHANGED <<console, request, slot, early, resets>>
    BY <1>11 DEF SendToController, Unplug, ControllerAnswers, RelayAnswer
  <2> QED
    BY <2>1, <2>2 DEF HostsType
<1> QED
  BY <1>4, <1>5, <1>6, <1>7, <1>8, <1>9, <1>10, <1>11 DEF HandshakeNext

\* Every variable keeps its type; in particular what the console puts together
\* always ends where one of the fragments does.
THEOREM HandshakeTyping == HandshakeSpec => []HandshakeTypeOK
<1>1. HandshakeInit => TypeOK /\ HostsType
  BY HostsInit, TypingInit DEF HandshakeInit
<1>2. TypeOK /\ HostsType /\ [HandshakeNext]_allVars => (TypeOK /\ HostsType)'
  BY Joined, TypingStep, HostsStep
<1> QED
  BY <1>1, <1>2, TypeParts, PTL DEF HandshakeSpec

-----------------------------------------------------------------------------
(* What a step changes.                                                    *)

\* A step of console and controller alone.
LEMMA ConsoleMoves ==
  ASSUME HandshakeTypeOK,
         ConsoleOn \/ ConsoleTakes \/ ConsoleSends \/ AskAgain \/ AskEarly \/ BusReset
  PROVE  /\ UNCHANGED <<vars, answer_due, lost>>
         /\ \/ /\ ConsoleOn /\ console.state = "off" /\ console'.state = "waiting"
               /\ console'.wants = console.wants /\ console'.bytes = console.bytes
               /\ UNCHANGED <<request, slot, early, resets>>
            \/ /\ ConsoleTakes /\ slot # <<>> /\ slot' = <<>>
               /\ UNCHANGED <<request, early, resets>>
               /\ \/ /\ console.state = "waiting" /\ slot[1].kind = "announce"
                     /\ console'.state = "identifying" /\ console'.bytes = 0
                     /\ console'.wants = IDENTIFY
                  \/ /\ console.state = "identifying" /\ slot[1].kind = "chunk"
                     /\ console'.state = "authenticating" /\ console'.wants = AUTHENTICATE
                  \/ /\ console.state = "identifying" /\ slot[1].kind = "chunk"
                     /\ console'.state = "identifying" /\ console'.wants = ACKNOWLEDGE
                     /\ console'.bytes = Together(console.bytes, slot[1].n)
                     /\ ~Complete(console.bytes, slot[1].n)
                  \/ /\ console.state = "authenticating" /\ slot[1].kind = "raw"
                     /\ \/ console'.state = "done" /\ console'.wants = ACCEPT
                        \/ console'.state = "authenticating" /\ console'.wants = AUTHENTICATE
                  \/ /\ console' = console
                     /\ ~(console.state = "identifying" /\ slot[1].kind = "chunk")
            \/ /\ ConsoleSends /\ console.wants # "none" /\ request = "none"
               /\ request' = console.wants /\ console'.wants = "none"
               /\ console'.state = console.state /\ console'.bytes = console.bytes
               /\ UNCHANGED <<slot, early, resets>>
            \/ /\ AskAgain \/ AskEarly
               /\ console.state = "identifying" /\ console.wants = "none"
               /\ console'.wants = IDENTIFY
               /\ console'.state = console.state /\ console'.bytes = console.bytes
               /\ UNCHANGED <<request, slot, resets>>
               /\ \/ Silence /\ early' = early
                  \/ early' = early + 1
            \/ /\ BusReset /\ console'.state = "off" /\ console'.wants = "none"
               /\ request' \in {request, "none"} /\ slot' = <<>>
               /\ resets' = resets + 1 /\ early' = early
<1>1. console \in [state : ConsoleStates, bytes : Sums, round : 0 .. Rounds, wants : Commands]
  BY TypeParts DEF HostsType
<1>2. CASE ConsoleOn
  BY <1>1, <1>2 DEF ConsoleOn
<1>3. CASE ConsoleTakes
  BY <1>1, <1>3, Reacts
<1>4. CASE ConsoleSends
  BY <1>1, <1>4 DEF ConsoleSends
<1>5. CASE AskAgain \/ AskEarly
  BY <1>1, <1>5 DEF AskAgain, AskEarly, Asks
<1>6. CASE BusReset
  BY <1>6 DEF BusReset
<1> QED
  BY <1>2, <1>3, <1>4, <1>5, <1>6

\* The adapter handles a packet of the console.
LEMMA HandleMoves ==
  ASSUME HandshakeTypeOK, StageInv, HandlePacket
  PROVE  /\ core0.pc = "loop" /\ request # "none" /\ request' = "none"
         /\ UNCHANGED <<fifo, refused, core1, console, slot, answer_due, early, resets>>
         /\ \/ /\ request = IDENTIFY /\ adapter_state = "INIT"
               /\ adapter_state' = "IDENTIFYING" /\ core0'.pc = "identify"
               /\ UNCHANGED <<out_packet, identify_sequence>>
            \/ /\ request \in {IDENTIFY, ACKNOWLEDGE} /\ NextChunk
               /\ adapter_state = "IDENTIFYING" /\ adapter_state' = adapter_state
               /\ core0'.pc = "write" /\ out_packet'.kind = "chunk"
            \/ /\ request = AUTHENTICATE /\ adapter_state = "IDENTIFYING"
               /\ adapter_state' = "AUTHENTICATING" /\ core0'.pc = "auth"
               /\ UNCHANGED <<out_packet, identify_sequence>>
            \/ /\ request = AUTHENTICATE /\ adapter_state = "AUTHENTICATING"
               /\ adapter_state' = adapter_state /\ core0'.pc = "send"
               /\ UNCHANGED <<out_packet, identify_sequence>>
            \/ /\ request = ACCEPT /\ adapter_state = "AUTHENTICATING"
               /\ adapter_state' = "RUNNING" /\ core0'.pc = "notify"
               /\ UNCHANGED <<out_packet, identify_sequence>>
<1>1. TypeOK
  BY TypeParts
<1>2. /\ core0.pc = "loop" /\ request # "none" /\ request' = "none"
      /\ UNCHANGED <<console, slot, answer_due, early, resets>>
  BY DEF HandlePacket, At0
<1>3. CASE request = IDENTIFY /\ HandleInit
  BY <1>1, <1>2, <1>3, Core0Moves DEF HandleInit
<1>4. CASE request \in {IDENTIFY, ACKNOWLEDGE} /\ NextChunk
  BY <1>1, <1>2, <1>4, Core0Moves DEF NextChunk, At0, Chunk
<1>5. CASE request = AUTHENTICATE /\ MoveToAuthenticate
  BY <1>1, <1>2, <1>5, Core0Moves DEF MoveToAuthenticate
<1>6. CASE request = AUTHENTICATE /\ RelayAuth
  BY <1>1, <1>2, <1>6, Core0Moves DEF RelayAuth, At0
<1>7. CASE request = ACCEPT /\ Authenticated
  BY <1>1, <1>2, <1>7, Core0Moves DEF Authenticated, Accepted, At0
<1> QED
  BY <1>3, <1>4, <1>5, <1>6, <1>7 DEF HandlePacket

\* The rest of core 0 but for the endpoint.
LEMMA Core0Steps ==
  ASSUME HandshakeTypeOK, StageInv, Proceed \/ Announce \/ Interval
  PROVE  /\ UNCHANGED hosts /\ UNCHANGED core1
         /\ \/ /\ core0.pc = "init" /\ core0'.pc = "loop" /\ adapter_state = "NONE"
               /\ adapter_state' = "INIT" /\ UNCHANGED <<fifo, refused, out_packet, identify_sequence>>
            \/ /\ WriteOutPacket /\ core0.pc = "write" /\ core0'.pc = "loop"
               /\ xbox_fifo_write(out_packet) /\ UNCHANGED <<adapter_state, out_packet, identify_sequence>>
            \/ /\ core0.pc = "notify" /\ core0'.pc \in {"notify", "loop", "send"}
               /\ adapter_state = "RUNNING" /\ UNCHANGED <<adapter_state, out_packet, identify_sequence>>
               /\ \/ UNCHANGED <<fifo, refused>>
                  \/ xbox_fifo_write(Packet("notice"))
            \/ /\ core0.pc = "identify" /\ NextChunk /\ core0'.pc = "write"
               /\ adapter_state = "IDENTIFYING"
               /\ out_packet'.kind = "chunk" /\ UNCHANGED <<adapter_state, fifo, refused>>
            \/ /\ core0.pc = "auth" /\ core0'.pc = "send" /\ adapter_state = "AUTHENTICATING"
               /\ UNCHANGED <<adapter_state, fifo, refused, out_packet, identify_sequence>>
            \/ /\ core0.pc = "loop" /\ core0'.pc = "write" /\ adapter_state = "INIT"
               /\ out_packet'.kind = "announce"
               /\ UNCHANGED <<adapter_state, fifo, refused, identify_sequence>>
            \/ UNCHANGED <<core0, adapter_state, fifo, refused, out_packet, identify_sequence>>
<1>1. TypeOK
  BY TypeParts
<1>2. UNCHANGED hosts
  BY DEF Proceed, Announce, Interval
<1>3. CASE FinishInit
  BY <1>1, <1>2, <1>3, Core0Moves DEF FinishInit, At0, StageInv
<1>4. CASE WriteOutPacket
  BY <1>1, <1>2, <1>4, Core0Moves DEF WriteOutPacket, At0
<1>5. CASE Notify
  <2>1. core0'.pc \in {"notify", "loop", "send"}
    BY <1>1, <1>5 DEF Notify, TypeOK, At0
  <2> QED
    BY <1>2, <1>5, <2>1 DEF Notify, At0, StageInv
<1>6. CASE At0("identify") /\ NextChunk
  BY <1>1, <1>2, <1>6, Core0Moves DEF NextChunk, At0, Chunk, StageInv
<1>7. CASE At0("auth") /\ RelayAuth
  BY <1>1, <1>2, <1>7, Core0Moves DEF RelayAuth, At0, StageInv
<1>8. CASE AnnounceTask
  BY <1>1, <1>2, <1>8, Core0Moves DEF AnnounceTask, AnnounceState, At0, Packet
<1>9. CASE AnnounceInterval
  BY <1>2, <1>9 DEF AnnounceInterval
<1> QED
  BY <1>3, <1>4, <1>5, <1>6, <1>7, <1>8, <1>9 DEF Proceed, Announce, Interval

\* The controller, and the packet on its way to it and back.
LEMMA ControllerMoves ==
  ASSUME HandshakeTypeOK, SendToController \/ Plug \/ Unplug \/ ControllerAnswers \/ RelayAnswer
  PROVE  /\ UNCHANGED <<adapter_state, identify_sequence, out_packet, console, request, slot,
                        early, resets>>
         /\ \/ /\ core0.pc = "send" /\ core0'.pc = "loop" /\ UNCHANGED <<fifo, refused, core1>>
               /\ answer_due' => answer_due \/ adapter_state = "AUTHENTICATING"
            \/ /\ UNCHANGED <<core0, fifo, refused, core1>>
               /\ answer_due' => answer_due
            \/ /\ answer_due /\ ~answer_due' /\ adapter_state = "AUTHENTICATING"
               /\ core1 = "idle" /\ core1' = "raw" /\ UNCHANGED <<core0, fifo, refused>>
            \/ /\ core1 = "raw" /\ core1' = "idle" /\ xbox_fifo_write(Packet("raw"))
               /\ UNCHANGED <<core0, answer_due>>
<1>1. TypeOK
  BY TypeParts
<1>2. CASE SendToController
  <2>1. answer_due' => answer_due \/ adapter_state = "AUTHENTICATING"
    BY <1>2, Zenon DEF SendToController
  <2> QED
    BY <1>1, <1>2, <2>1, Core0Moves DEF SendToController, Send, At0
<1>3. CASE Plug \/ Unplug
  BY <1>3 DEF Plug, Unplug, Mount, Unmount, hosts
<1>4. CASE ControllerAnswers
  BY <1>4 DEF ControllerAnswers, ControllerPacket, Relaying, Translating
<1>5. CASE RelayAnswer
  BY <1>5 DEF RelayAnswer, WriteRaw
<1> QED
  BY <1>2, <1>3, <1>4, <1>5

\* The next packet goes from the queue into epin_buf.
LEMMA SlotMoves ==
  ASSUME HandshakeTypeOK, SlotTask
  PROVE  /\ slot = <<>> /\ Len(slot') = 1 /\ slot'[1] = fifo[1] /\ slot' # <<>>
         /\ Len(fifo) \in Nat \ {0} /\ Len(fifo') = Len(fifo) - 1
         /\ \A k \in 1 .. Len(fifo') : fifo'[k] = fifo[k + 1]
         /\ UNCHANGED <<adapter_state, identify_sequence, out_packet, core0, core1, refused,
                        console, request, answer_due, early, resets>>
<1>1. TypeOK
  BY TypeParts
<1>2. fifo # <<>> /\ fifo' = Tail(fifo) /\ slot = <<>> /\ slot' = <<Head(fifo)>>
  BY DEF SlotTask, SendTask
<1>3. Head(fifo) = fifo[1]
  BY <1>1, <1>2 DEF TypeOK
<1>4. Len(slot') = 1 /\ slot'[1] = fifo[1] /\ slot' # <<>>
  BY <1>2, <1>3
<1> QED
  BY <1>1, <1>2, <1>4, TakeCases DEF SlotTask, SendTask

-----------------------------------------------------------------------------
(* The phases of what is in epin_buf, and the announcements.               *)

\* The state of the adapter only goes forward.
LEMMA RankGrows ==
  ASSUME HandshakeTypeOK, HandshakeTypeOK', StageInv, [HandshakeNext]_allVars
  PROVE  /\ Rank \in 0 .. 4 /\ Rank' \in 0 .. 4 /\ Rank <= Rank'
         /\ adapter_state = "RUNNING" => adapter_state' = "RUNNING"
         /\ adapter_state \in {"IDENTIFYING", "AUTHENTICATING"} => Rank' >= 2
         /\ Rank >= 2 <=> adapter_state \notin {"NONE", "INIT"}
         /\ Rank' >= 2 <=> adapter_state' \notin {"NONE", "INIT"}
<1>1. TypeOK /\ TypeOK'
  BY DEF HandshakeTypeOK
<1>2. /\ Rank \in 0 .. 4
      /\ Rank' \in 0 .. 4
      /\ adapter_state = "NONE" => Rank = 0
      /\ adapter_state = "INIT" => Rank = 1
      /\ adapter_state = "IDENTIFYING" => Rank = 2
      /\ adapter_state = "AUTHENTICATING" => Rank = 3
      /\ adapter_state = "RUNNING" => Rank = 4
      /\ adapter_state' = "NONE" => Rank' = 0
      /\ adapter_state' = "INIT" => Rank' = 1
      /\ adapter_state' = "IDENTIFYING" => Rank' = 2
      /\ adapter_state' = "AUTHENTICATING" => Rank' = 3
      /\ adapter_state' = "RUNNING" => Rank' = 4
  <2>1. adapter_state \in States /\ adapter_state' \in States
    BY <1>1 DEF TypeOK
  <2> QED
    BY <2>1 DEF States, Rank
<1>3. \/ adapter_state' = adapter_state
      \/ adapter_state = "NONE" /\ adapter_state' = "INIT"
      \/ adapter_state = "INIT" /\ adapter_state' = "IDENTIFYING"
      \/ adapter_state = "IDENTIFYING" /\ adapter_state' = "AUTHENTICATING"
      \/ adapter_state = "AUTHENTICATING" /\ adapter_state' = "RUNNING"
  <2>1. CASE ConsoleOn \/ ConsoleTakes \/ ConsoleSends \/ AskAgain \/ AskEarly \/ BusReset
    BY <2>1, ConsoleMoves DEF vars
  <2>2. CASE HandlePacket
    BY <2>2, HandleMoves
  <2>3. CASE Proceed \/ Announce \/ Interval
    BY <2>3, Core0Steps
  <2>4. CASE SlotTask
    BY <2>4, SlotMoves
  <2>5. CASE SendToController \/ Plug \/ Unplug \/ ControllerAnswers \/ RelayAnswer
    BY <2>5, ControllerMoves
  <2>6. CASE UNCHANGED allVars
    BY <2>6 DEF allVars, vars
  <2> QED
    BY <2>1, <2>2, <2>3, <2>4, <2>5, <2>6 DEF HandshakeNext
<1> QED
  BY <1>1, <1>2, <1>3 DEF TypeOK, States

LEMMA SlotStep ==
  ASSUME HandshakeTypeOK, HandshakeTypeOK', AdapterInv, SlotInv, [HandshakeNext]_allVars
  PROVE  SlotInv'
<1> USE DEF AdapterInv
<1>1. Rank <= Rank' /\ Rank \in 0 .. 4 /\ Rank' \in 0 .. 4
  BY RankGrows
<1>2. ASSUME slot' = slot \/ slot' = <<>>
      PROVE  SlotInv'
  <2>1. slot # <<>> => Phase(slot[1].kind) \in 1 .. 4
    BY PhaseValues
  <2> QED
    BY <1>1, <1>2, <2>1 DEF SlotInv
<1>3. CASE ConsoleOn \/ ConsoleTakes \/ ConsoleSends \/ AskAgain \/ AskEarly \/ BusReset
  BY <1>2, <1>3, ConsoleMoves
<1>4. CASE HandlePacket
  BY <1>2, <1>4, HandleMoves
<1>5. CASE Proceed \/ Announce \/ Interval
  BY <1>2, <1>5, Core0Steps DEF hosts
<1>6. CASE SlotTask
  <2>1. slot'[1] = fifo[1] /\ 1 \in 1 .. Len(fifo)
    BY <1>6, SlotMoves
  <2>2. Phase(fifo[1].kind) <= Rank /\ Phase(fifo[1].kind) \in 1 .. 4
    BY <2>1, PhaseValues DEF OrderInv, RankInv
  <2> QED
    BY <1>1, <2>1, <2>2 DEF SlotInv
<1>7. CASE SendToController \/ Plug \/ Unplug \/ ControllerAnswers \/ RelayAnswer
  BY <1>2, <1>7, ControllerMoves
<1>8. CASE UNCHANGED allVars
  BY <1>2, <1>8 DEF allVars, hosts
<1> QED
  BY <1>3, <1>4, <1>5, <1>6, <1>7, <1>8 DEF HandshakeNext

LEMMA PartnerStep ==
  ASSUME HandshakeTypeOK, StageInv, PartnerInv, [HandshakeNext]_allVars
  PROVE  PartnerInv'
<1>1. CASE ConsoleOn \/ ConsoleTakes \/ ConsoleSends \/ AskAgain \/ AskEarly \/ BusReset
  <2>1. UNCHANGED <<core0, core1, adapter_state, answer_due>>
    BY <1>1, ConsoleMoves DEF vars
  <2>2. /\ console'.wants \in {IDENTIFY, ACKNOWLEDGE} => console'.state = "identifying"
        /\ console'.wants = AUTHENTICATE => console'.state = "authenticating"
        /\ console'.wants = ACCEPT => console'.state = "done"
    BY <1>1, ConsoleMoves, CommandValues DEF PartnerInv
  <2> QED
    BY <2>1, <2>2 DEF PartnerInv, At0
<1>2. CASE HandlePacket
  BY <1>2, HandleMoves DEF PartnerInv, At0
<1>3. CASE Proceed \/ Announce \/ Interval
  BY <1>3, Core0Steps DEF hosts, PartnerInv, At0, StageInv
<1>4. CASE SlotTask
  BY <1>4, SlotMoves DEF PartnerInv, At0
<1>5. CASE SendToController \/ Plug \/ Unplug \/ ControllerAnswers \/ RelayAnswer
  BY <1>5, ControllerMoves DEF PartnerInv, At0
<1>6. CASE UNCHANGED allVars
  BY <1>6 DEF allVars, hosts, vars, PartnerInv, At0
<1> QED
  BY <1>1, <1>2, <1>3, <1>4, <1>5, <1>6 DEF HandshakeNext

\* Once no announcement will come, none does.
LEMMA NoAnnounceStays ==
  ASSUME HandshakeTypeOK, HandshakeTypeOK', StageInv, NoAnnounce, [HandshakeNext]_allVars
  PROVE  NoAnnounce'
<1>1. adapter_state' \notin {"NONE", "INIT"}
  BY RankGrows DEF NoAnnounce
<1>2. TypeOK
  BY TypeParts
<1>3. ASSUME UNCHANGED fifo, slot' = slot \/ slot' = <<>>
      PROVE  NoAnnounce'
  BY <1>1, <1>3 DEF NoAnnounce
<1>4. ASSUME NEW p \in Packets, xbox_fifo_write(p), p.kind # "announce", slot' = slot
      PROVE  NoAnnounce'
  <2>1. CASE fifo' = fifo
    BY <1>3, <1>4, <2>1
  <2>2. CASE /\ Len(fifo') = Len(fifo) + 1 /\ fifo'[Len(fifo) + 1] = p
             /\ \A k \in 1 .. Len(fifo) : fifo'[k] = fifo[k]
    <3>1. Len(fifo) \in Nat
      BY <1>2 DEF TypeOK
    <3>2. \A k \in 1 .. Len(fifo) : fifo'[k].kind # "announce"
      BY <2>2 DEF NoAnnounce
    <3>3. fifo'[Len(fifo) + 1].kind # "announce"
      BY <1>4, <2>2
    <3>4. \A k \in 1 .. Len(fifo) + 1 : k \in 1 .. Len(fifo) \/ k = Len(fifo) + 1
      BY <3>1
    <3>5. \A k \in 1 .. Len(fifo') : fifo'[k].kind # "announce"
      BY <2>2, <3>2, <3>3, <3>4
    <3> QED
      BY <1>1, <1>4, <3>5 DEF NoAnnounce
  <2> QED
    BY <1>2, <1>4, <2>1, <2>2, WriteCases
<1>5. CASE ConsoleOn \/ ConsoleTakes \/ ConsoleSends \/ AskAgain \/ AskEarly \/ BusReset
  BY <1>3, <1>5, ConsoleMoves DEF vars
<1>6. CASE HandlePacket
  BY <1>3, <1>6, HandleMoves
<1>7. CASE Proceed \/ Announce \/ Interval
  <2>1. slot' = slot
    BY <1>7, Core0Steps DEF hosts
  <2>2. Packet("notice") \in Packets /\ Packet("notice").kind = "notice"
    BY PlainPackets DEF Packet
  <2>3. CASE UNCHANGED fifo
    BY <1>3, <2>1, <2>3
  <2>4. CASE xbox_fifo_write(Packet("notice"))
    BY <1>4, <2>1, <2>2, <2>4
  <2>5. CASE core0.pc = "write" /\ xbox_fifo_write(out_packet)
    <3>1. out_packet \in Packets /\ out_packet.kind = "chunk"
      BY <1>2, <2>5 DEF TypeOK, StageInv, At0, NoAnnounce
    <3> QED
      BY <1>4, <2>1, <2>5, <3>1
  <2> QED
    BY <1>7, <2>3, <2>4, <2>5, Core0Steps
<1>8. CASE SlotTask
  <2>1. /\ slot'[1] = fifo[1] /\ Len(fifo) \in Nat \ {0} /\ Len(fifo') = Len(fifo) - 1
        /\ \A k \in 1 .. Len(fifo') : fifo'[k] = fifo[k + 1]
    BY <1>8, SlotMoves
  <2>2. 1 \in 1 .. Len(fifo) /\ \A k \in 1 .. Len(fifo) - 1 : k + 1 \in 1 .. Len(fifo)
    BY <2>1
  <2> QED
    BY <1>1, <2>1, <2>2 DEF NoAnnounce
<1>9. CASE SendToController \/ Plug \/ Unplug \/ ControllerAnswers \/ RelayAnswer
  <2>1. Packet("raw") \in Packets /\ Packet("raw").kind = "raw"
    BY PlainPackets DEF Packet
  <2> QED
    BY <1>3, <1>4, <1>9, <2>1, ControllerMoves
<1>10. CASE UNCHANGED allVars
  BY <1>3, <1>10 DEF allVars, hosts, vars
<1> QED
  BY <1>5, <1>6, <1>7, <1>8, <1>9, <1>10 DEF HandshakeNext

LEMMA AnnounceStep ==
  ASSUME HandshakeTypeOK, HandshakeTypeOK', AdapterInv, PartnerInv, AnnounceInv,
         [HandshakeNext]_allVars
  PROVE  AnnounceInv'
<1>0. StageInv
  BY DEF AdapterInv
<1>1. NoAnnounce => NoAnnounce'
  BY <1>0, NoAnnounceStays
<1>2. ASSUME slot' = slot \/ slot' = <<>>,
             Authenticates' => Authenticates \/ (slot # <<>> /\ slot[1].kind # "announce"),
             console'.state = "identifying" => ~Authenticates'
      PROVE  AnnounceInv'
  BY <1>1, <1>2 DEF AnnounceInv
<1>3. CASE ConsoleOn \/ ConsoleTakes \/ ConsoleSends \/ AskAgain \/ AskEarly \/ BusReset
  <2>1. adapter_state' = adapter_state
    BY <1>3, ConsoleMoves DEF vars
  <2>2. slot' = slot \/ slot' = <<>>
    BY <1>3, ConsoleMoves
  <2>3. request' \in {request, "none"} \/ request' = console.wants
    BY <1>3, ConsoleMoves
  <2>4. request' \in {AUTHENTICATE, ACCEPT} => Authenticates
    BY <2>3, CommandValues DEF PartnerInv, Authenticates
  <2>5. console'.state \in {"authenticating", "done"}
          => Authenticates \/ (slot # <<>> /\ slot[1].kind # "announce")
    BY <1>3, ConsoleMoves DEF Authenticates
  <2>6. console'.state = "identifying" => ~Authenticates
    <3>1. CASE console.state = "identifying"
      BY <3>1 DEF AnnounceInv
    <3>2. CASE console'.state = "identifying" /\ console.state # "identifying"
      <4>1. slot # <<>> /\ slot[1].kind = "announce"
        BY <1>3, <3>2, ConsoleMoves
      <4> QED
        BY <4>1 DEF NoAnnounce, AnnounceInv
    <3> QED
      BY <3>1, <3>2
  <2>7. Authenticates' => Authenticates \/ (slot # <<>> /\ slot[1].kind # "announce")
    BY <2>1, <2>4, <2>5 DEF Authenticates
  <2>8. console'.state = "identifying" => ~Authenticates'
    BY <2>1, <2>4, <2>6 DEF Authenticates
  <2> QED
    BY <1>2, <2>2, <2>7, <2>8
<1>4. CASE HandlePacket
  <2>1. Authenticates' => Authenticates
    BY <1>0, <1>4, HandleMoves, CommandValues DEF Authenticates
  <2>2. slot' = slot /\ console' = console
    BY <1>0, <1>4, HandleMoves
  <2> QED
    BY <1>2, <2>1, <2>2 DEF AnnounceInv
<1>5. CASE \/ Proceed \/ Announce \/ Interval
           \/ SendToController \/ Plug \/ Unplug \/ ControllerAnswers \/ RelayAnswer
           \/ UNCHANGED allVars
  <2>1. slot' = slot /\ console' = console /\ request' = request
    BY <1>0, <1>5, Core0Steps, ControllerMoves DEF allVars, hosts
  <2>2. adapter_state' = adapter_state \/ adapter_state' = "INIT"
    BY <1>0, <1>5, Core0Steps, ControllerMoves DEF allVars, vars
  <2>3. Authenticates' => Authenticates
    BY <2>1, <2>2 DEF Authenticates
  <2> QED
    BY <1>2, <2>1, <2>3 DEF AnnounceInv
<1>6. CASE SlotTask
  <2>1. /\ slot'[1] = fifo[1] /\ Len(fifo) \in Nat \ {0} /\ Len(fifo') = Len(fifo) - 1
        /\ \A k \in 1 .. Len(fifo') : fifo'[k] = fifo[k + 1]
        /\ UNCHANGED <<adapter_state, console, request>>
    BY <1>6, SlotMoves
  <2>2. Authenticates' <=> Authenticates
    BY <2>1 DEF Authenticates
  <2>3. ASSUME slot'[1].kind # "announce"
        PROVE  NoAnnounce'
    <3>1. 1 \in 1 .. Len(fifo) /\ fifo[1].kind # "announce"
      BY <2>1, <2>3
    <3>2. Phase(fifo[1].kind) \in 2 .. 4
      BY <3>1 DEF Phase
    <3>3. \A k \in 1 .. Len(fifo') : /\ k + 1 \in 1 .. Len(fifo) /\ 1 < k + 1
                                     /\ fifo'[k] = fifo[k + 1]
      BY <2>1
    <3>4. \A k \in 1 .. Len(fifo') : \/ Phase(fifo[1].kind) <= Phase(fifo'[k].kind)
                                     \/ fifo'[k].kind = "raw"
      BY <3>1, <3>3 DEF AdapterInv, OrderInv, PhaseOrder
    <3>5. \A k \in 1 .. Len(fifo') : fifo'[k].kind # "announce"
      BY <3>2, <3>4, PhaseValues
    <3>6. Rank >= 2
      <4>1. Phase(fifo[1].kind) <= Rank /\ Rank \in 0 .. 4
        BY <1>0, <3>1, RankGrows DEF AdapterInv, OrderInv, RankInv
      <4> QED
        BY <3>2, <4>1
    <3>7. adapter_state \notin {"NONE", "INIT"}
      BY <1>0, <3>6, RankGrows
    <3> QED
      BY <2>1, <2>3, <3>5, <3>7 DEF NoAnnounce
  <2> QED
    BY <1>1, <2>1, <2>2, <2>3 DEF AnnounceInv
<1> QED
  BY <1>3, <1>4, <1>5, <1>6 DEF HandshakeNext

-----------------------------------------------------------------------------
(* The packet of the authentication.                                       *)

\* As long as the console identifies, nobody authenticates.
LEMMA NothingYet ==
  ASSUME HandshakeTypeOK, AdapterInv, SlotInv, PartnerInv, AnnounceInv,
         console.state = "identifying"
  PROVE  /\ adapter_state \notin {"AUTHENTICATING", "RUNNING"}
         /\ Rank \in 0 .. 2
         /\ console.wants \notin {AUTHENTICATE, ACCEPT} /\ request \notin {AUTHENTICATE, ACCEPT}
         /\ core0.pc \notin {"auth", "send", "notify"} /\ ~answer_due /\ core1 # "raw"
         /\ slot # <<>> => slot[1].kind \in {"announce", "chunk"}
         /\ \A k \in 1 .. Len(fifo) : fifo[k].kind \in {"announce", "chunk"}
<1>1. ~Authenticates
  BY DEF AnnounceInv
<1>2. /\ adapter_state \notin {"AUTHENTICATING", "RUNNING"}
      /\ request \notin {AUTHENTICATE, ACCEPT}
  BY <1>1 DEF Authenticates
<1>3. console.wants \notin {AUTHENTICATE, ACCEPT}
  BY DEF PartnerInv
<1>4. core0.pc \notin {"auth", "send", "notify"} /\ ~answer_due /\ core1 # "raw"
  BY <1>2 DEF AdapterInv, StageInv, PartnerInv, At0
<1>5. Rank \in 0 .. 2
  BY <1>2, RankValues DEF AdapterInv, TypeOK, States
<1>6. \A kind : Phase(kind) <= 2 => kind \in {"announce", "chunk"}
  BY DEF Phase
<1>7. \A kind : Phase(kind) <= Rank => kind \in {"announce", "chunk"}
  <2>1. \A kind : Phase(kind) \in 1 .. 4
    BY PhaseValues
  <2>2. \A i \in 1 .. 4 : \A r \in 0 .. 2 : i <= r => i <= 2
    OBVIOUS
  <2> QED
    BY <1>5, <1>6, <2>1, <2>2
<1> QED
  BY <1>2, <1>3, <1>4, <1>5, <1>7 DEF SlotInv, AdapterInv, OrderInv, RankInv

\* Unless an answer of the controller is written, the queue holds none it did not
\* hold before.
LEMMA NoMoreRaw ==
  ASSUME TypeOK,
         \/ fifo' = fifo
         \/ \E p \in Packets : p.kind # "raw" /\ xbox_fifo_write(p)
  PROVE  \A k \in 1 .. Len(fifo') : RawAt(k)' => k \in 1 .. Len(fifo) /\ RawAt(k)
<1>1. CASE fifo' = fifo
  BY <1>1 DEF RawAt
<1>2. ASSUME NEW p \in Packets, p.kind # "raw", Len(fifo') = Len(fifo) + 1,
             fifo'[Len(fifo) + 1] = p, \A k \in 1 .. Len(fifo) : fifo'[k] = fifo[k]
      PROVE  \A k \in 1 .. Len(fifo') : RawAt(k)' => k \in 1 .. Len(fifo) /\ RawAt(k)
  <2>1. Len(fifo) \in Nat
    BY DEF TypeOK
  <2>2. \A k \in 1 .. Len(fifo) + 1 : k \in 1 .. Len(fifo) \/ k = Len(fifo) + 1
    BY <2>1
  <2> QED
    BY <1>2, <2>2 DEF RawAt
<1> QED
  BY <1>1, <1>2, WriteCases

\* How many places there are.
LEMMA PlaceValues ==
  /\ \A b : Count(b) \in {0, 1}
  /\ \A b : Count(b) = 1 <=> b
  /\ AuthPlaces \in 0 .. 6
BY DEF Count, AuthPlaces

LEMMA AuthStep ==
  ASSUME HandshakeTypeOK, HandshakeTypeOK', AdapterInv, SlotInv, PartnerInv, AnnounceInv,
         AuthInv, [HandshakeNext]_allVars
  PROVE  AuthInv'
<1>0. StageInv /\ TypeOK
  BY DEF AdapterInv
<1>1. ASSUME \/ fifo' = fifo
             \/ \E p \in Packets : p.kind # "raw" /\ xbox_fifo_write(p),
             AuthPlaces' <= AuthPlaces,
             adapter_state' = "RUNNING" =>
               /\ AuthPlaces' = Count(core0'.pc \in {"auth", "send", "notify"})
               /\ \A k \in 1 .. Len(fifo) : ~RawAt(k)
      PROVE  AuthInv'
  <2>1. \A k \in 1 .. Len(fifo') : RawAt(k)' => k \in 1 .. Len(fifo) /\ RawAt(k)
    BY <1>0, <1>1, NoMoreRaw
  <2>2. AuthPlaces \in 0 .. 6 /\ AuthPlaces' \in 0 .. 6
    BY DEF AuthPlaces, Count
  <2>3. AuthPlaces' <= 1
    BY <1>1, <2>2 DEF AuthInv
  <2>4. ASSUME NEW k \in 1 .. Len(fifo'), RawAt(k)'
        PROVE  AuthPlaces' = 0 /\ \A j \in 1 .. Len(fifo') : RawAt(j)' => j = k
    <3>1. AuthPlaces = 0 /\ \A j \in 1 .. Len(fifo) : RawAt(j) => j = k
      BY <2>1, <2>4 DEF AuthInv
    <3>2. AuthPlaces' = 0
      BY <1>1, <2>2, <3>1
    <3> QED
      BY <2>1, <3>1, <3>2
  <2>5. adapter_state' = "RUNNING" => \A k \in 1 .. Len(fifo') : ~RawAt(k)'
    BY <1>1, <2>1
  <2> QED
    BY <1>1, <2>3, <2>4, <2>5 DEF AuthInv
<1>2. CASE ConsoleOn \/ ConsoleTakes \/ ConsoleSends \/ AskAgain \/ AskEarly \/ BusReset
  <2>1. UNCHANGED <<fifo, adapter_state, core0, core1, answer_due>>
    BY <1>2, ConsoleMoves DEF vars
  <2>2. ASSUME console.state = "identifying", slot # <<>>, slot' = <<>>,
               slot[1].kind = "chunk", UNCHANGED request
        PROVE  AuthInv'
    <3>1. AuthPlaces' \in {0, 1}
      BY <2>1, <2>2, NothingYet DEF AuthPlaces, Count
    <3> QED
      BY <2>1, <2>2, <3>1, NothingYet DEF AuthInv, RawAt
  <2>3. CASE ~(/\ console.state = "identifying" /\ slot # <<>> /\ slot' = <<>>
               /\ slot[1].kind = "chunk" /\ UNCHANGED request)
    <3>0. \/ /\ console'.wants \in {console.wants, "none", IDENTIFY, ACKNOWLEDGE}
             /\ request' \in {request, "none"}
             /\ slot' = slot \/ slot' = <<>>
          \/ /\ console'.wants = "none" /\ request = "none" /\ request' = console.wants
             /\ slot' = slot
          \/ slot # <<>> /\ slot[1].kind = "raw" /\ slot' = <<>> /\ request' = request
      <4>1. CASE ConsoleTakes
        BY <2>3, <4>1, ConsoleMoves
      <4>2. CASE ConsoleSends
        BY <4>2, ConsoleMoves DEF ConsoleSends
      <4>3. CASE ConsoleOn \/ AskAgain \/ AskEarly \/ BusReset
        <5>1. /\ console'.wants \in {console.wants, "none", IDENTIFY}
              /\ request' \in {request, "none"}
              /\ slot' = slot \/ slot' = <<>>
          BY <4>3, TypeParts DEF ConsoleOn, AskAgain, AskEarly, Asks, BusReset, HostsType
        <5> QED
          BY <5>1
      <4> QED
        BY <1>2, <4>1, <4>2, <4>3
    <3>1. AuthPlaces' <= AuthPlaces
      <4>1. "none" \notin {AUTHENTICATE, ACCEPT} /\ IDENTIFY \notin {AUTHENTICATE, ACCEPT}
            /\ ACKNOWLEDGE \notin {AUTHENTICATE, ACCEPT}
        BY CommandValues
      <4> QED
        BY <2>1, <3>0, <4>1 DEF AuthPlaces, Count
    <3>2. AuthPlaces' >= Count(core0'.pc \in {"auth", "send", "notify"})
      BY DEF AuthPlaces, Count
    <3>3. AuthPlaces \in 0 .. 6 /\ AuthPlaces' \in 0 .. 6
      BY DEF AuthPlaces, Count
    <3> QED
      BY <1>1, <2>1, <3>1, <3>2, <3>3 DEF AuthInv, Count
  <2> QED
    BY <2>2, <2>3
<1>3. CASE HandlePacket
  <2>1. /\ UNCHANGED <<fifo, core1, console, slot, answer_due>>
        /\ request # "none" /\ request' = "none" /\ core0.pc = "loop"
        /\ \/ request \in {AUTHENTICATE, ACCEPT}
           \/ core0'.pc \notin {"auth", "send", "notify"}
        /\ adapter_state' = "RUNNING" => request = ACCEPT
    BY <1>0, <1>3, HandleMoves
  <2>2. AuthPlaces' <= AuthPlaces
    BY <2>1, CommandValues DEF AuthPlaces, Count
  <2>3. ASSUME adapter_state' = "RUNNING"
        PROVE  /\ AuthPlaces' = Count(core0'.pc \in {"auth", "send", "notify"})
               /\ \A k \in 1 .. Len(fifo) : ~RawAt(k)
    <3>1. AuthPlaces = 1
      BY <2>1, <2>3 DEF AuthInv, AuthPlaces, Count
    <3>2. core0'.pc \in {"auth", "send", "notify"}
      BY <1>0, <1>3, <2>3, HandleMoves
    <3>3. AuthPlaces' = 1
      BY <2>1, <3>1, <3>2, CommandValues, <2>3 DEF AuthPlaces, Count
    <3>4. \A k \in 1 .. Len(fifo) : ~RawAt(k)
      BY <3>1 DEF AuthInv
    <3> QED
      BY <3>2, <3>3, <3>4 DEF Count
  <2> QED
    BY <1>1, <2>1, <2>2, <2>3
<1>4. CASE Proceed \/ Announce \/ Interval
  <2>1. /\ UNCHANGED <<console, request, slot, answer_due, core1>>
        /\ \/ core0.pc \in {"auth", "send", "notify"}
           \/ core0' = core0 \/ core0'.pc \notin {"auth", "send", "notify"}
        /\ adapter_state' = adapter_state \/ adapter_state' = "INIT"
    BY <1>0, <1>4, Core0Steps DEF hosts
  <2>2. AuthPlaces' <= AuthPlaces
    BY <2>1 DEF AuthPlaces, Count
  <2>3. \/ fifo' = fifo
        \/ \E p \in Packets : p.kind # "raw" /\ xbox_fifo_write(p)
    <3>1. Packet("notice") \in Packets /\ Packet("notice").kind # "raw"
      BY PlainPackets DEF Packet
    <3>2. core0.pc = "write" => out_packet \in Packets /\ out_packet.kind # "raw"
      BY <1>0 DEF TypeOK, StageInv, At0, Packet
    <3> QED
      BY <1>0, <1>4, <3>1, <3>2, Core0Steps
  <2>4. AuthPlaces' >= Count(core0'.pc \in {"auth", "send", "notify"})
    BY DEF AuthPlaces, Count
  <2>5. AuthPlaces = Count(core0.pc \in {"auth", "send", "notify"})
          => AuthPlaces' = Count(core0'.pc \in {"auth", "send", "notify"})
    BY <2>1 DEF AuthPlaces, Count
  <2> QED
    BY <1>1, <2>1, <2>2, <2>3, <2>5 DEF AuthInv
<1>5. CASE SlotTask
  <2>1. /\ slot = <<>> /\ slot'[1] = fifo[1] /\ slot' # <<>>
        /\ Len(fifo) \in Nat \ {0} /\ Len(fifo') = Len(fifo) - 1
        /\ \A k \in 1 .. Len(fifo') : fifo'[k] = fifo[k + 1]
        /\ UNCHANGED <<adapter_state, core0, core1, console, request, answer_due>>
    BY <1>5, SlotMoves
  <2>2. 1 \in 1 .. Len(fifo) /\ \A k \in 1 .. Len(fifo') : k + 1 \in 1 .. Len(fifo)
    BY <2>1
  <2>3. \A k \in 1 .. Len(fifo') : RawAt(k)' <=> RawAt(k + 1)
    BY <2>1 DEF RawAt
  <2>4. CASE RawAt(1)
    <3>1. AuthPlaces = 0 /\ \A j \in 1 .. Len(fifo) : RawAt(j) => j = 1
      BY <2>2, <2>4 DEF AuthInv
    <3>2. \A k \in 1 .. Len(fifo') : ~RawAt(k)'
      <4>1. \A k \in 1 .. Len(fifo') : k + 1 # 1
        BY <2>1
      <4> QED
        BY <2>2, <2>3, <3>1, <4>1
    <3>3. AuthPlaces' = 1
      BY <2>1, <2>4, <3>1 DEF AuthPlaces, Count, RawAt
    <3>4. adapter_state' # "RUNNING"
      BY <2>1, <2>2, <2>4 DEF AuthInv
    <3> QED
      BY <3>2, <3>3, <3>4 DEF AuthInv
  <2>5. CASE ~RawAt(1)
    <3>1. AuthPlaces' = AuthPlaces
      BY <2>1, <2>5 DEF AuthPlaces, Count, RawAt
    <3>2. ASSUME NEW k \in 1 .. Len(fifo'), RawAt(k)'
          PROVE  AuthPlaces' = 0 /\ \A j \in 1 .. Len(fifo') : RawAt(j)' => j = k
      <4>1. AuthPlaces = 0 /\ \A j \in 1 .. Len(fifo) : RawAt(j) => j = k + 1
        BY <2>2, <2>3, <3>2 DEF AuthInv
      <4>2. \A j \in 1 .. Len(fifo') : j + 1 = k + 1 => j = k
        BY <2>1
      <4> QED
        BY <2>2, <2>3, <3>1, <4>1, <4>2
    <3>3. adapter_state' = "RUNNING" =>
            /\ AuthPlaces' = Count(core0'.pc \in {"auth", "send", "notify"})
            /\ \A k \in 1 .. Len(fifo') : ~RawAt(k)'
      BY <2>1, <2>2, <2>3, <3>1 DEF AuthInv
    <3>4. AuthPlaces' <= 1
      BY <3>1 DEF AuthInv
    <3> QED
      BY <3>2, <3>3, <3>4 DEF AuthInv
  <2> QED
    BY <2>4, <2>5
<1>6. CASE SendToController \/ Plug \/ Unplug \/ ControllerAnswers \/ RelayAnswer
  <2>0. UNCHANGED <<adapter_state, console, request, slot>>
    BY <1>6, ControllerMoves
  <2>1. ASSUME core0.pc = "send", core0'.pc = "loop", UNCHANGED <<fifo, core1>>,
               answer_due' => answer_due \/ adapter_state = "AUTHENTICATING"
        PROVE  AuthInv'
    <3>1. AuthPlaces' <= AuthPlaces
      BY <2>0, <2>1 DEF AuthPlaces, Count
    <3>2. adapter_state = "RUNNING" /\ AuthPlaces = 1 => AuthPlaces' = 0
      BY <2>0, <2>1 DEF AuthPlaces, Count
    <3>3. AuthPlaces = Count(core0.pc \in {"auth", "send", "notify"}) => AuthPlaces = 1
      BY <2>1 DEF Count
    <3> QED
      BY <1>1, <2>0, <2>1, <3>1, <3>2, <3>3 DEF AuthInv, Count
  <2>2. ASSUME UNCHANGED <<core0, fifo, core1>>, answer_due' => answer_due
        PROVE  AuthInv'
    <3>1. AuthPlaces' <= AuthPlaces
      BY <2>0, <2>2 DEF AuthPlaces, Count
    <3>2. AuthPlaces = Count(core0.pc \in {"auth", "send", "notify"})
            => AuthPlaces' = Count(core0'.pc \in {"auth", "send", "notify"})
      BY <2>0, <2>2 DEF AuthPlaces, Count
    <3> QED
      BY <1>1, <2>0, <2>2, <3>1, <3>2 DEF AuthInv
  <2>3. ASSUME answer_due, ~answer_due', adapter_state = "AUTHENTICATING",
               core1 = "idle", core1' = "raw", UNCHANGED <<core0, fifo>>
        PROVE  AuthInv'
    <3>1. AuthPlaces' <= AuthPlaces
      BY <2>0, <2>3 DEF AuthPlaces, Count
    <3> QED
      BY <1>1, <2>0, <2>3, <3>1
  <2>4. ASSUME core1 = "raw", core1' = "idle", xbox_fifo_write(Packet("raw")),
               UNCHANGED <<core0, answer_due>>
        PROVE  AuthInv'
    <3>1. AuthPlaces' = 0 /\ AuthPlaces = 1
      BY <2>0, <2>4 DEF AuthInv, AuthPlaces, Count
    <3>2. \A k \in 1 .. Len(fifo) : ~RawAt(k)
      BY <3>1 DEF AuthInv
    <3>3. adapter_state' # "RUNNING"
      BY <2>0, <2>4 DEF AuthInv, AuthPlaces, Count
    <3>4. \A j, k \in 1 .. Len(fifo') : RawAt(j)' /\ RawAt(k)' => j = k
      <4>1. CASE fifo' = fifo
        BY <3>2, <4>1 DEF RawAt
      <4>2. CASE /\ Len(fifo') = Len(fifo) + 1
                 /\ \A k \in 1 .. Len(fifo) : fifo'[k] = fifo[k]
        <5>1. \A k \in 1 .. Len(fifo') : k \in 1 .. Len(fifo) \/ k = Len(fifo) + 1
          BY <1>0, <4>2 DEF TypeOK
        <5> QED
          BY <3>2, <4>2, <5>1 DEF RawAt
      <4> QED
        BY <1>0, <2>4, <4>1, <4>2, WriteCases, PlainPackets
    <3> QED
      BY <3>1, <3>3, <3>4 DEF AuthInv
  <2> QED
    BY <1>6, <2>1, <2>2, <2>3, <2>4, ControllerMoves
<1>7. CASE UNCHANGED allVars
  <2>1. UNCHANGED <<adapter_state, console, request, slot, fifo, core0, core1, answer_due>>
    BY <1>7 DEF allVars, vars, hosts
  <2>2. AuthPlaces' = AuthPlaces /\ AuthPlaces \in 0 .. 6
    BY <2>1, PlaceValues DEF AuthPlaces
  <2> QED
    BY <1>1, <2>1, <2>2 DEF AuthInv
<1> QED
  BY <1>2, <1>3, <1>4, <1>5, <1>6, <1>7 DEF HandshakeNext

-----------------------------------------------------------------------------
(* What the console asked for.                                             *)

\* What is on the way is what is in epin_buf, what is in the queue, and the packet
\* core 0 is about to write.
LEMMA OnTheWayParts ==
  ASSUME HandshakeTypeOK
  PROVE  /\ Len(slot) \in 0 .. 1 /\ Len(fifo) \in Nat
         /\ DOMAIN OnTheWay = 1 .. Len(slot) + Len(fifo) + Count(At0("write"))
         /\ slot # <<>> => Len(slot) = 1 /\ OnTheWay[1] = slot[1]
         /\ slot = <<>> => Len(slot) = 0
         /\ \A k \in 1 .. Len(fifo) : OnTheWay[Len(slot) + k] = fifo[k]
         /\ At0("write") => OnTheWay[Len(slot) + Len(fifo) + 1] = out_packet
<1>1. slot \in Seq(Packets) /\ Len(slot) <= 1 /\ fifo \in Seq(Packets) /\ out_packet \in Packets
  BY DEF HandshakeTypeOK, TypeOK
<1>2. ASSUME NEW S, NEW r \in Seq(S), NEW s \in Seq(S), NEW t \in Seq(S)
      PROVE  /\ r \o s \o t \in Seq(S)
             /\ DOMAIN (r \o s \o t) = 1 .. Len(r) + Len(s) + Len(t)
             /\ \A k \in 1 .. Len(r) : (r \o s \o t)[k] = r[k]
             /\ \A k \in 1 .. Len(s) : (r \o s \o t)[Len(r) + k] = s[k]
             /\ \A k \in 1 .. Len(t) : (r \o s \o t)[Len(r) + Len(s) + k] = t[k]
             /\ Len(r) \in Nat /\ Len(s) \in Nat /\ (r # <<>> => Len(r) > 0)
  <2>1. r \o s \in Seq(S) /\ Len(r \o s) = Len(r) + Len(s)
    BY <1>2
  <2>2. r \o s \o t \in Seq(S) /\ Len(r \o s \o t) = Len(r) + Len(s) + Len(t)
    BY <1>2, <2>1
  <2>3. \A k \in 1 .. Len(r) + Len(s) : (r \o s \o t)[k] = (r \o s)[k]
    BY <1>2, <2>1
  <2>4. \A k \in 1 .. Len(r) : (r \o s)[k] = r[k] /\ k \in 1 .. Len(r) + Len(s)
    BY <1>2, <2>1
  <2>5. \A k \in 1 .. Len(s) : /\ (r \o s)[Len(r) + k] = s[k]
                               /\ Len(r) + k \in 1 .. Len(r) + Len(s)
    BY <1>2, <2>1
  <2>6. \A k \in 1 .. Len(t) : (r \o s \o t)[Len(r) + Len(s) + k] = t[k]
    BY <1>2, <2>1
  <2> QED
    BY <1>2, <2>2, <2>3, <2>4, <2>5, <2>6
<1> DEFINE held == IF At0("write") THEN <<out_packet>> ELSE <<>>
<1>3. /\ held \in Seq(Packets) /\ Len(held) = Count(At0("write"))
      /\ At0("write") => held[1] = out_packet /\ 1 \in 1 .. Len(held)
  BY <1>1 DEF Count
<1>4. OnTheWay = slot \o fifo \o held
  BY DEF OnTheWay
<1> HIDE DEF held
<1>5. /\ Len(slot) \in Nat /\ Len(fifo) \in Nat /\ (slot # <<>> => Len(slot) > 0)
      /\ DOMAIN OnTheWay = 1 .. Len(slot) + Len(fifo) + Len(held)
      /\ \A k \in 1 .. Len(slot) : OnTheWay[k] = slot[k]
      /\ \A k \in 1 .. Len(fifo) : OnTheWay[Len(slot) + k] = fifo[k]
      /\ \A k \in 1 .. Len(held) : OnTheWay[Len(slot) + Len(fifo) + k] = held[k]
  BY <1>1, <1>2, <1>3, <1>4
<1>6. Len(slot) \in 0 .. 1 /\ (slot # <<>> => Len(slot) = 1) /\ (slot = <<>> => Len(slot) = 0)
  <2>1. Len(<<>>) = 0
    OBVIOUS
  <2>2. Len(slot) <= 1 /\ Len(slot) \in Nat /\ (slot # <<>> => Len(slot) > 0)
    BY <1>1, <1>5
  <2>3. \A n \in Nat : n <= 1 => n \in 0 .. 1 /\ (n > 0 => n = 1)
    OBVIOUS
  <2>4. Len(slot) \in 0 .. 1 /\ (slot # <<>> => Len(slot) = 1)
    BY <2>2, <2>3
  <2> QED
    BY <2>1, <2>4
<1>7. slot # <<>> => OnTheWay[1] = slot[1]
  BY <1>5, <1>6
<1>8. At0("write") => OnTheWay[Len(slot) + Len(fifo) + 1] = out_packet
  BY <1>3, <1>5
<1>9. DOMAIN OnTheWay = 1 .. Len(slot) + Len(fifo) + Count(At0("write"))
  BY <1>3, <1>5
<1> QED
  BY <1>5, <1>6, <1>7, <1>8, <1>9

\* No chunk is on the way when there is none in any of these places.
LEMMA NoChunkParts ==
  ASSUME HandshakeTypeOK
  PROVE  NoChunk <=> /\ ~SlotIsChunk
                     /\ \A k \in 1 .. Len(fifo) : fifo[k].kind # "chunk"
                     /\ ~HoldsChunk
<1>1. ASSUME NoChunk
      PROVE  /\ ~SlotIsChunk
             /\ \A k \in 1 .. Len(fifo) : fifo[k].kind # "chunk"
             /\ ~HoldsChunk
  <2>1. \A k \in 1 .. Len(slot) + Len(fifo) + Count(At0("write")) : OnTheWay[k].kind # "chunk"
    BY <1>1, OnTheWayParts DEF NoChunk, ChunkAt
  <2>2. ~SlotIsChunk
    BY <2>1, OnTheWayParts DEF SlotIsChunk, Count
  <2>3. \A k \in 1 .. Len(fifo) : fifo[k].kind # "chunk"
    BY <2>1, OnTheWayParts DEF Count
  <2>4. ~HoldsChunk
    BY <2>1, OnTheWayParts DEF Count, HoldsChunk
  <2> QED
    BY <2>2, <2>3, <2>4
<1>2. ASSUME ~SlotIsChunk, \A k \in 1 .. Len(fifo) : fifo[k].kind # "chunk", ~HoldsChunk
      PROVE  NoChunk
  <2> SUFFICES ASSUME NEW k \in 1 .. Len(slot) + Len(fifo) + Count(At0("write"))
               PROVE  OnTheWay[k].kind # "chunk"
    BY OnTheWayParts DEF NoChunk, ChunkAt
  <2>0. k \in Nat /\ k >= 1
    BY OnTheWayParts DEF Count
  <2>1. CASE k <= Len(slot)
    <3>1. Len(slot) \in 0 .. 1 /\ (slot = <<>> => Len(slot) = 0)
      BY OnTheWayParts
    <3>2. Len(slot) = 1 /\ k = 1
      <4>1. \A n \in 0 .. 1, i \in Nat : i >= 1 /\ i <= n => n = 1 /\ i = 1
        OBVIOUS
      <4> QED
        BY <2>0, <2>1, <3>1, <4>1
    <3>3. slot # <<>>
      <4>1. Len(slot) # 0
        BY <3>2
      <4> QED
        BY <3>1, <4>1, Zenon
    <3> QED
      BY <1>2, <3>2, <3>3, OnTheWayParts DEF SlotIsChunk
  <2>2. CASE k > Len(slot) /\ k <= Len(slot) + Len(fifo)
    <3>1. k - Len(slot) \in 1 .. Len(fifo) /\ k = Len(slot) + (k - Len(slot))
      BY <2>2, OnTheWayParts
    <3> QED
      BY <1>2, <3>1, OnTheWayParts
  <2>3. CASE k > Len(slot) + Len(fifo)
    <3>1. At0("write") /\ k = Len(slot) + Len(fifo) + 1
      BY <2>3, OnTheWayParts DEF Count
    <3> QED
      BY <1>2, <3>1, OnTheWayParts DEF HoldsChunk
  <2> QED
    BY <2>1, <2>2, <2>3, OnTheWayParts
<1> QED
  BY <1>1, <1>2

LEMMA LoadValues ==
  ASSUME HandshakeTypeOK
  PROVE  Load \in 0 .. 7 /\ Allowed \in Nat /\ Len(fifo) \in Nat
<1>1. early \in Nat /\ resets \in Nat /\ Len(fifo) \in Nat
  BY HandshakeAssumption DEF HandshakeTypeOK, TypeOK
<1> QED
  BY <1>1 DEF Load, Allowed, Count

\* The queue stays as it is, and what is outside it grows by no more than what is
\* allowed.
LEMMA FitsKept ==
  ASSUME NEW q \in Seq(Packets), NEW l \in Nat, NEW a \in Nat, NEW l2 \in Nat, NEW a2 \in Nat,
         Fits(q, l, a), l2 + a <= l + a2
  PROVE  Fits(q, l2, a2)
<1>1. Len(q) \in Nat
  OBVIOUS
<1> QED
  BY <1>1 DEF Fits

\* A packet that was outside the queue is written to it.
LEMMA FitsWritten ==
  ASSUME NEW q \in Seq(Packets), NEW q2, NEW l \in Nat, NEW a \in Nat, NEW l2 \in Nat,
         Fits(q, l, a), l2 + 1 <= l,
         Len(q2) = Len(q) + 1, \A k \in 1 .. Len(q) : q2[k] = q[k]
  PROVE  Fits(q2, l2, a)
<1>1. Len(q) \in Nat
  OBVIOUS
<1>2. \A k \in 1 .. Len(q2) : k \in 1 .. Len(q) \/ k = Len(q) + 1
  BY <1>1
<1>3. \A k \in 1 .. Len(q) : q[k].kind # "announce" => Len(q2) - k + 1 + l2 <= a
  BY <1>1 DEF Fits
<1>4. Len(q2) - (Len(q) + 1) + 1 + l2 <= a /\ l2 <= a
  BY <1>1 DEF Fits
<1> QED
  BY <1>2, <1>3, <1>4 DEF Fits

\* An announcement is written to it, with nothing but announcements before it.
LEMMA FitsAnnounced ==
  ASSUME NEW q, NEW l \in Nat, NEW a \in Nat, l <= a,
         \A k \in 1 .. Len(q) : q[k].kind = "announce"
  PROVE  Fits(q, l, a)
BY DEF Fits

\* The first packet is taken; it counts when it is not an announcement.
LEMMA FitsTaken ==
  ASSUME NEW q \in Seq(Packets), NEW q2, NEW l \in Nat, NEW a \in Nat, NEW l2 \in Nat,
         Fits(q, l, a), Len(q) \in Nat \ {0},
         l2 <= l + 1, q[1].kind = "announce" => l2 <= l,
         Len(q2) = Len(q) - 1, \A k \in 1 .. Len(q2) : q2[k] = q[k + 1]
  PROVE  Fits(q2, l2, a)
<1>1. \A k \in 1 .. Len(q2) : k + 1 \in 1 .. Len(q)
  OBVIOUS
<1>2. 1 \in 1 .. Len(q)
  OBVIOUS
<1>3. l2 <= a
  BY <1>2 DEF Fits
<1>4. ASSUME NEW k \in 1 .. Len(q2), q2[k].kind # "announce"
      PROVE  Len(q2) - k + 1 + l2 <= a
  <2>1. Len(q) - (k + 1) + 1 + l <= a
    BY <1>1, <1>4 DEF Fits
  <2>2. q[1].kind # "announce" => Len(q) - 1 + 1 + l <= a
    BY <1>2 DEF Fits
  <2> QED
    BY <2>1, <2>2
<1> QED
  BY <1>3, <1>4 DEF Fits

\* What the console takes, field by field.
LEMMA Takes ==
  ASSUME HandshakeTypeOK, ConsoleTakes
  PROVE  /\ slot # <<>> /\ slot' = <<>> /\ UNCHANGED <<request, early, resets>>
         /\ \/ /\ console.state = "waiting" /\ slot[1].kind = "announce"
               /\ console'.state = "identifying" /\ console'.bytes = 0
               /\ console'.wants = IDENTIFY
            \/ /\ console.state = "identifying" /\ slot[1].kind = "chunk"
               /\ console'.state = "authenticating" /\ console'.wants = AUTHENTICATE
            \/ /\ console.state = "identifying" /\ slot[1].kind = "chunk"
               /\ console'.state = "identifying" /\ console'.wants = ACKNOWLEDGE
               /\ console'.bytes = Together(console.bytes, slot[1].n)
               /\ ~Complete(console.bytes, slot[1].n)
            \/ /\ console.state = "authenticating" /\ slot[1].kind = "raw"
               /\ \/ console'.state = "done" /\ console'.wants = ACCEPT
                  \/ console'.state = "authenticating" /\ console'.wants = AUTHENTICATE
            \/ /\ console' = console
               /\ ~(console.state = "identifying" /\ slot[1].kind = "chunk")
<1>1. console \in [state : ConsoleStates, bytes : Sums, round : 0 .. Rounds, wants : Commands]
  BY TypeParts DEF HostsType
<1> QED
  BY <1>1, Reacts

LEMMA LoadStep ==
  ASSUME HandshakeTypeOK, HandshakeTypeOK', AdapterInv, SlotInv, PartnerInv, AnnounceInv,
         LoadInv, [HandshakeNext]_allVars
  PROVE  LoadInv'
<1> SUFFICES ASSUME adapter_state' # "RUNNING"
             PROVE  Fits(fifo', Load', Allowed')
  BY DEF LoadInv
<1>0. StageInv /\ TypeOK /\ adapter_state # "RUNNING"
  BY RankGrows DEF AdapterInv
<1>1. Load \in Nat /\ Allowed \in Nat /\ fifo \in Seq(Packets) /\ Len(fifo) \in Nat
  BY <1>0, LoadValues DEF TypeOK
<1>2. Load' \in Nat
  BY DEF Load, Count
<1>3. Allowed' \in Nat
  <2>1. early' \in 0 .. MaxEarly /\ resets' \in 0 .. MaxResets
    BY DEF HandshakeTypeOK
  <2>2. early' \in Nat /\ resets' \in Nat
    BY <2>1, HandshakeAssumption
  <2>3. Count(console.state \in {"identifying", "authenticating", "done"})' \in Nat
    BY DEF Count
  <2>4. \A a, b, c \in Nat : a + b + c \in Nat
    OBVIOUS
  <2>5. (early + resets + Count(console.state \in {"identifying", "authenticating", "done"}))' \in Nat
    BY <2>2, <2>3, <2>4
  <2> QED
    BY <2>5 DEF Allowed
<1>4. Fits(fifo, Load, Allowed)
  BY <1>0 DEF LoadInv
<1>5. ASSUME fifo' = fifo, Load' + Allowed <= Load + Allowed'
      PROVE  Fits(fifo', Load', Allowed')
  BY <1>1, <1>2, <1>3, <1>4, <1>5, FitsKept
<1>5a. ASSUME fifo' = fifo,
              \/ Load' <= Load /\ (Allowed' = Allowed \/ Allowed <= Allowed')
              \/ Load' <= Load + 1 /\ Allowed' = Allowed + 1
       PROVE  Fits(fifo', Load', Allowed')
  <2>1. \A l, a, l2, a2 \in Nat : \/ l2 <= l /\ (a2 = a \/ a <= a2)
                                  \/ l2 <= l + 1 /\ a2 = a + 1
                                  => l2 + a <= l + a2
    OBVIOUS
  <2>2. Load' + Allowed <= Load + Allowed'
    BY <1>1, <1>2, <1>3, <1>5a, <2>1
  <2> QED
    BY <1>5, <1>5a, <2>2
<1>6. ASSUME NEW p \in Packets, xbox_fifo_write(p), Load' + 1 <= Load, Allowed' = Allowed
      PROVE  Fits(fifo', Load', Allowed')
  <2>1. CASE fifo' = fifo
    <3>1. Load' + Allowed <= Load + Allowed'
      <4>1. \A l, a, l2 \in Nat : l2 + 1 <= l => l2 + a <= l + a
        OBVIOUS
      <4> QED
        BY <1>1, <1>2, <1>6, <4>1
    <3> QED
      BY <1>5, <2>1, <3>1
  <2>2. CASE Len(fifo') = Len(fifo) + 1 /\ \A k \in 1 .. Len(fifo) : fifo'[k] = fifo[k]
    BY <1>1, <1>2, <1>4, <1>6, <2>2, FitsWritten
  <2> QED
    BY <1>0, <1>6, <2>1, <2>2, WriteCases
<1>7. CASE ConsoleOn \/ ConsoleTakes \/ ConsoleSends \/ AskAgain \/ AskEarly \/ BusReset
  <2>1. /\ UNCHANGED <<fifo, adapter_state, core0, core1, answer_due, out_packet>>
        /\ HoldsChunk' <=> HoldsChunk
    BY <1>7, ConsoleMoves DEF vars, HoldsChunk, At0
  <2>2. early \in Nat /\ resets \in Nat
    BY HandshakeAssumption DEF HandshakeTypeOK
  <2>3. CASE ConsoleOn
    <3>1. /\ console.state = "off" /\ console'.state = "waiting" /\ console'.wants = console.wants
          /\ UNCHANGED <<request, slot, early, resets>>
      BY <2>3, TypeParts DEF ConsoleOn, HostsType
    <3>2. Load' = Load /\ Allowed' = Allowed
      BY <2>1, <2>2, <3>1 DEF Load, Allowed, Count
    <3> QED
      BY <1>1, <1>5, <2>1, <3>2
  <2>4. CASE ConsoleTakes
    <3>1. slot # <<>> /\ slot' = <<>> /\ UNCHANGED <<request, early, resets>>
      BY <2>4, Reacts
    <3>2. CASE /\ console.state = "waiting" /\ slot[1].kind = "announce"
               /\ console'.state = "identifying" /\ console'.wants = IDENTIFY
      <4>1. Load' <= Load + 1
        BY <2>1, <3>1, <3>2 DEF Load, Count
      <4>2. Allowed' = Allowed + 1
        BY <2>2, <3>1, <3>2 DEF Allowed, Count
      <4> QED
        BY <1>5a, <2>1, <4>1, <4>2
    <3>3. CASE /\ slot[1].kind # "announce"
               /\ console.state \in {"identifying", "authenticating"}
               /\ console'.state \in {"identifying", "authenticating", "done"}
      <4>1. Load' <= Load
        BY <2>1, <3>1, <3>3 DEF Load, Count
      <4>2. Allowed' = Allowed
        BY <2>2, <3>1, <3>3 DEF Allowed, Count
      <4> QED
        BY <1>5a, <2>1, <4>1, <4>2
    <3>4. CASE console' = console
      <4>1. Load' <= Load
        BY <2>1, <3>1, <3>4 DEF Load, Count
      <4>2. Allowed' = Allowed
        BY <2>2, <3>1, <3>4 DEF Allowed, Count
      <4> QED
        BY <1>5a, <2>1, <4>1, <4>2
    <3> QED
      BY <2>4, <3>2, <3>3, <3>4, Takes
  <2>5. CASE ConsoleSends
    <3>1. /\ console.wants # "none" /\ request = "none" /\ request' = console.wants
          /\ console'.wants = "none" /\ console'.state = console.state
          /\ UNCHANGED <<slot, early, resets>>
      BY <2>5, TypeParts DEF ConsoleSends, HostsType
    <3>2. Load' = Load /\ Allowed' = Allowed
      BY <2>1, <2>2, <3>1 DEF Load, Allowed, Count
    <3> QED
      BY <1>1, <1>5, <2>1, <3>2
  <2>6. CASE AskAgain \/ AskEarly
    <3>1. /\ console.state = "identifying" /\ console.wants = "none"
          /\ console'.state = "identifying" /\ UNCHANGED <<request, slot, resets>>
      BY <2>6, ConsoleMoves, TypeParts DEF AskAgain, AskEarly, Asks, HostsType
    <3>2. CASE AskAgain
      <4>1. early' = early /\ Silence
        BY <3>2 DEF AskAgain
      <4>2. /\ request = "none" /\ ~SlotIsChunk /\ ~HoldsChunk /\ core0.pc # "identify"
            /\ \A k \in 1 .. Len(fifo) : fifo[k].kind # "chunk"
        BY <4>1, NoChunkParts DEF Silence, At0
      <4>3. /\ \A k \in 1 .. Len(fifo) : fifo[k].kind = "announce"
            /\ ~(slot # <<>> /\ slot[1].kind # "announce")
        BY <3>1, <4>2, NothingYet DEF SlotIsChunk
      <4>4. Load' <= 1
        BY <2>1, <3>1, <4>2, <4>3, NothingYet DEF Load, Count
      <4>5. 1 <= Allowed'
        BY <2>2, <3>1, <4>1 DEF Allowed, Count
      <4>6. Load' <= Allowed'
        <5>1. \A l, a \in Nat : l <= 1 /\ 1 <= a => l <= a
          OBVIOUS
        <5> QED
          BY <1>2, <1>3, <4>4, <4>5, <5>1
      <4> QED
        BY <1>2, <1>3, <2>1, <4>3, <4>6, FitsAnnounced
    <3>3. CASE AskEarly
      <4>1. early' = early + 1
        BY <3>3 DEF AskEarly
      <4>2. Load' <= Load + 1
        BY <2>1, <3>1 DEF Load, Count
      <4>3. Allowed' = Allowed + 1
        BY <2>2, <3>1, <4>1 DEF Allowed, Count
      <4> QED
        BY <1>5a, <2>1, <4>2, <4>3
    <3> QED
      BY <2>6, <3>2, <3>3
  <2>7. CASE BusReset
    <3>1. /\ console'.state = "off" /\ console'.wants = "none" /\ request' \in {request, "none"}
          /\ slot' = <<>> /\ resets' = resets + 1 /\ early' = early
      BY <2>7 DEF BusReset
    <3>2. Load' <= Load
      BY <2>1, <3>1 DEF Load, Count
    <3>3. Allowed <= Allowed'
      BY <2>2, <3>1 DEF Allowed, Count
    <3> QED
      BY <1>5a, <2>1, <3>2, <3>3
  <2> QED
    BY <1>7, <2>3, <2>4, <2>5, <2>6, <2>7
<1>8. CASE HandlePacket
  <2>1. /\ request # "none" /\ request' = "none" /\ core0.pc = "loop"
        /\ UNCHANGED <<fifo, core1, console, slot, answer_due, early, resets>>
    BY <1>0, <1>8, HandleMoves
  <2>2. core0'.pc \in {"identify", "write", "auth", "send", "notify"}
    BY <1>0, <1>8, HandleMoves
  <2>3. Load' <= Load /\ Allowed' = Allowed
    BY <2>1, <2>2 DEF Load, Allowed, Count, HoldsChunk, At0
  <2> QED
    BY <1>5a, <2>1, <2>3
<1>9. CASE Proceed \/ Announce \/ Interval
  <2>1. UNCHANGED <<console, request, slot, answer_due, early, resets, core1>>
    BY <1>0, <1>9, Core0Steps DEF hosts
  <2>2. Allowed' = Allowed
    BY <2>1 DEF Allowed
  <2>3. ASSUME UNCHANGED fifo,
               \/ core0'.pc = "loop" /\ core0.pc \notin {"write", "identify"}
               \/ core0.pc \in {"identify", "auth"} /\ core0'.pc \in {"write", "send"}
               \/ core0.pc = "loop" /\ core0'.pc = "write" /\ out_packet'.kind = "announce"
               \/ core0' = core0 /\ out_packet' = out_packet
        PROVE  Fits(fifo', Load', Allowed')
    <3>1. Load' <= Load
      BY <2>1, <2>3 DEF Load, Count, HoldsChunk, At0
    <3> QED
      BY <1>5a, <2>3, <2>2, <3>1
  <2>4. CASE core0.pc = "write" /\ core0'.pc = "loop" /\ xbox_fifo_write(out_packet)
    <3>1. out_packet \in Packets
      BY <1>0 DEF TypeOK
    <3>2. CASE HoldsChunk
      <4>1. Load' + 1 <= Load
        BY <2>1, <2>4, <3>2 DEF Load, Count, HoldsChunk, At0
      <4> QED
        BY <1>6, <2>2, <2>4, <3>1, <4>1
    <3>3. CASE ~HoldsChunk
      <4>1. adapter_state = "INIT" /\ out_packet.kind = "announce"
        BY <1>0, <2>4, <3>3 DEF StageInv, HoldsChunk, At0, Packet
      <4>2. \A k \in 1 .. Len(fifo) : fifo[k].kind = "announce"
        <5>1. \A kind : Phase(kind) <= 1 => kind = "announce"
          BY DEF Phase
        <5> QED
          BY <1>0, <4>1, <5>1, RankValues DEF AdapterInv, OrderInv, RankInv
      <4>3. \A k \in 1 .. Len(fifo') : fifo'[k].kind = "announce"
        <5>1. CASE fifo' = fifo
          BY <4>2, <5>1
        <5>2. CASE /\ Len(fifo') = Len(fifo) + 1 /\ fifo'[Len(fifo) + 1] = out_packet
                   /\ \A k \in 1 .. Len(fifo) : fifo'[k] = fifo[k]
          <6>1. \A k \in 1 .. Len(fifo') : k \in 1 .. Len(fifo) \/ k = Len(fifo) + 1
            BY <1>1, <5>2
          <6> QED
            BY <4>1, <4>2, <5>2, <6>1
        <5> QED
          BY <1>0, <2>4, <3>1, <5>1, <5>2, WriteCases
      <4>4. Load' <= Allowed'
        <5>1. Load' <= Load
          BY <2>1, <2>4, <3>3 DEF Load, Count, HoldsChunk, At0
        <5>2. Load <= Allowed
          BY <1>4 DEF Fits
        <5>3. \A l, a, l2, a2 \in Nat : l2 <= l /\ l <= a /\ a2 = a => l2 <= a2
          OBVIOUS
        <5> QED
          BY <1>1, <1>2, <1>3, <2>2, <5>1, <5>2, <5>3
      <4> QED
        BY <1>2, <1>3, <4>3, <4>4, FitsAnnounced
    <3> QED
      BY <3>2, <3>3
  <2> QED
    BY <1>0, <1>9, <2>3, <2>4, Core0Steps
<1>10. CASE SlotTask
  <2>1. /\ slot = <<>> /\ slot'[1] = fifo[1] /\ slot' # <<>>
        /\ Len(fifo) \in Nat \ {0} /\ Len(fifo') = Len(fifo) - 1
        /\ \A k \in 1 .. Len(fifo') : fifo'[k] = fifo[k + 1]
        /\ UNCHANGED <<out_packet, core0, core1, console, request, answer_due, early, resets>>
    BY <1>10, SlotMoves
  <2>2. Allowed' = Allowed
    BY <2>1 DEF Allowed
  <2>3. Load' <= Load + 1 /\ (fifo[1].kind = "announce" => Load' <= Load)
    BY <2>1 DEF Load, Count, HoldsChunk, At0
  <2> QED
    BY <1>1, <1>2, <1>4, <2>1, <2>2, <2>3, FitsTaken
<1>11. CASE SendToController \/ Plug \/ Unplug \/ ControllerAnswers \/ RelayAnswer
  <2>1. UNCHANGED <<adapter_state, out_packet, console, request, slot, early, resets>>
    BY <1>11, ControllerMoves
  <2>2. Allowed' = Allowed
    BY <2>1 DEF Allowed
  <2>3. ASSUME UNCHANGED fifo,
               \/ core0.pc = "send" /\ core0'.pc = "loop" /\ UNCHANGED core1
               \/ UNCHANGED <<core0, core1>> /\ (answer_due' => answer_due)
               \/ UNCHANGED core0 /\ answer_due /\ ~answer_due'
        PROVE  Fits(fifo', Load', Allowed')
    <3>1. Load' <= Load
      BY <2>1, <2>3 DEF Load, Count, HoldsChunk, At0
    <3> QED
      BY <1>5a, <2>3, <2>2, <3>1
  <2>4. ASSUME core1 = "raw", core1' = "idle", xbox_fifo_write(Packet("raw")),
               UNCHANGED <<core0, answer_due>>
        PROVE  Fits(fifo', Load', Allowed')
    <3>1. Load' + 1 <= Load
      BY <2>1, <2>4 DEF Load, Count, HoldsChunk, At0
    <3> QED
      BY <1>6, <2>2, <2>4, <3>1, PlainPackets
  <2> QED
    BY <1>11, <2>3, <2>4, ControllerMoves
<1>12. CASE UNCHANGED allVars
  <2>1. /\ UNCHANGED <<adapter_state, console, request, slot, fifo, core1, answer_due>>
        /\ UNCHANGED <<early, resets, core0>> /\ (HoldsChunk' <=> HoldsChunk)
    BY <1>12 DEF allVars, vars, hosts, HoldsChunk, At0
  <2>2. Load' = Load /\ Allowed' = Allowed
    BY <2>1 DEF Load, Allowed, Count
  <2> QED
    BY <1>1, <1>5, <2>1, <2>2
<1> QED
  BY <1>7, <1>8, <1>9, <1>10, <1>11, <1>12 DEF HandshakeNext

\* The composition's invariant up to here.
WayInv == HandshakeTypeOK /\ AdapterInv /\ SlotInv /\ PartnerInv /\ AnnounceInv

LEMMA WayInit == HandshakeInit => WayInv
<1> SUFFICES ASSUME HandshakeInit PROVE WayInv
  OBVIOUS
<1>1. HandshakeTypeOK
  BY HostsInit, TypingInit, TypeParts DEF HandshakeInit
<1>2. SlotInv
  BY DEF HandshakeInit, SlotInv
<1>3. PartnerInv
  BY CommandValues DEF HandshakeInit, Init, PartnerInv, At0
<1>4. AnnounceInv
  BY CommandValues DEF HandshakeInit, Init, AnnounceInv, Authenticates
<1> QED
  BY <1>1, <1>2, <1>3, <1>4, AdapterInit DEF WayInv

LEMMA WayStep == WayInv /\ [HandshakeNext]_allVars => WayInv'
<1> SUFFICES ASSUME WayInv, [HandshakeNext]_allVars PROVE WayInv'
  OBVIOUS
<1>1. HandshakeTypeOK /\ AdapterInv /\ StageInv /\ TypeOK /\ HostsType
  BY TypeParts DEF WayInv, AdapterInv
<1>2. TypeOK' /\ HostsType'
  BY <1>1, Joined, TypingStep, HostsStep
<1>3. HandshakeTypeOK'
  BY <1>2 DEF HandshakeTypeOK, HostsType, ConsoleStates, Sums
<1>4. AdapterInv'
  BY <1>1, AdapterStep
<1> QED
  BY <1>1, <1>3, <1>4, SlotStep, PartnerStep, AnnounceStep DEF WayInv

LEMMA BoundInit == HandshakeInit => AuthInv /\ LoadInv
<1> SUFFICES ASSUME HandshakeInit PROVE AuthInv /\ LoadInv
  OBVIOUS
<1>1. /\ console.wants = "none" /\ request = "none" /\ core0.pc = "init" /\ answer_due = FALSE
      /\ core1 = "idle" /\ slot = <<>> /\ fifo = <<>> /\ adapter_state = "NONE"
      /\ early = 0 /\ resets = 0 /\ console.state = "off"
  BY DEF HandshakeInit, Init
<1>2. AuthPlaces = 0
  BY <1>1, CommandValues DEF AuthPlaces, Count
<1>3. Load = 0 /\ Allowed = 0
  BY <1>1 DEF Load, Allowed, Count, HoldsChunk, At0
<1> QED
  BY <1>1, <1>2, <1>3 DEF AuthInv, LoadInv, Fits

\* When core 1 has an answer for the queue, the adapter authenticates, so that all
\* of the queue is what the console asked for, and the answer is part of that.
LEMMA RoomForAnswer ==
  ASSUME WayInv, AuthInv, LoadInv
  PROVE  AnswerFits
<1> SUFFICES ASSUME core1 = "raw" PROVE Len(fifo) < FifoSize
  BY DEF AnswerFits
<1>1. /\ HandshakeTypeOK /\ StageInv /\ TypeOK /\ AnnounceInv
      /\ Load \in 0 .. 7 /\ Len(fifo) \in Nat
  BY LoadValues DEF WayInv, AdapterInv
<1>2. adapter_state # "RUNNING"
  BY DEF AuthInv, AuthPlaces, Count
<1>3. NoAnnounce
  BY <1>1, <1>2 DEF StageInv, AnnounceInv, Authenticates
<1>4. Allowed \in Nat /\ Allowed <= MaxEarly + MaxResets + 1
  <2>1. early \in 0 .. MaxEarly /\ resets \in 0 .. MaxResets
    BY <1>1 DEF HandshakeTypeOK
  <2> QED
    BY <2>1, HandshakeAssumption DEF Allowed, Count
<1>5. 1 <= Load
  BY DEF Load, Count
<1>6. CASE Len(fifo) = 0
  BY <1>6, AdapterAssumption
<1>7. CASE Len(fifo) # 0
  <2>1. 1 \in 1 .. Len(fifo)
    BY <1>1, <1>7
  <2>2. Len(fifo) - 1 + 1 + Load <= Allowed
    BY <1>2, <1>3, <2>1 DEF NoAnnounce, LoadInv, Fits
  <2>3. Len(fifo) <= MaxEarly + MaxResets
    BY <1>1, <1>4, <1>5, <2>2, HandshakeAssumption
  <2> QED
    BY <1>1, <2>3, HandshakeAssumption, AdapterAssumption
<1> QED
  BY <1>6, <1>7

\* The queue has room for each answer of the controller, for any size that
\* HandshakeAssumption allows.
THEOREM AnswersFit == HandshakeSpec => []AnswerFits
<1>1. HandshakeInit => WayInv /\ AuthInv /\ LoadInv
  BY WayInit, BoundInit
<1>2. WayInv /\ AuthInv /\ LoadInv /\ [HandshakeNext]_allVars => (WayInv /\ AuthInv /\ LoadInv)'
  BY WayStep, AuthStep, LoadStep DEF WayInv
<1>3. WayInv /\ AuthInv /\ LoadInv => AnswerFits
  BY RoomForAnswer
<1> QED
  BY <1>1, <1>2, <1>3, PTL DEF HandshakeSpec

-----------------------------------------------------------------------------
(* The chunk the console gets next.                                        *)

\* What a step does to the chunks: nothing; or the console takes what is in
\* epin_buf, or a reset drops it; or a packet is queued that is no chunk; or the
\* upcoming chunk is; or the first packet goes into epin_buf.
LEMMA ChunkMoves ==
  ASSUME WayInv, [HandshakeNext]_allVars
  PROVE  \/ /\ Upcoming' = Upcoming /\ UNCHANGED <<fifo, refused, slot>>
            /\ console'.state = "identifying" /\ resets' = 0 =>
                 /\ console.state = "identifying" /\ console'.bytes = console.bytes
                 /\ resets = 0
         \/ ConsoleTakes /\ Upcoming' = Upcoming /\ UNCHANGED <<fifo, refused>>
         \/ slot' = <<>> /\ console'.state = "off"
         \/ /\ Upcoming' = Upcoming /\ UNCHANGED <<slot, console, resets>>
            /\ \E p \in Packets : p.kind # "chunk" /\ xbox_fifo_write(p)
         \/ /\ HoldsChunk /\ Upcoming = out_packet.n /\ out_packet.n \in 0 .. NChunks - 1
            /\ Upcoming' = (out_packet.n + 1) % NChunks
            /\ xbox_fifo_write(out_packet) /\ UNCHANGED <<slot, console, resets>>
         \/ SlotTask /\ Upcoming' = Upcoming
<1>1. HandshakeTypeOK /\ TypeOK /\ StageInv /\ ChunkInv /\ AdapterInv
  BY DEF WayInv, AdapterInv
<1>2. CASE ConsoleOn \/ ConsoleTakes \/ ConsoleSends \/ AskAgain \/ AskEarly \/ BusReset
  <2>1. Upcoming' = Upcoming /\ UNCHANGED <<fifo, refused>>
    BY <1>1, <1>2, ConsoleMoves DEF vars, Upcoming, HoldsChunk, At0
  <2>2. CASE ConsoleTakes
    BY <2>1, <2>2
  <2>3. CASE BusReset
    BY <2>3 DEF BusReset
  <2>4. CASE ConsoleOn \/ ConsoleSends \/ AskAgain \/ AskEarly
    <3>1. console \in [state : ConsoleStates, bytes : Sums, round : 0 .. Rounds, wants : Commands]
      BY <1>1, TypeParts DEF HostsType
    <3> QED
      BY <2>1, <2>4, <3>1 DEF ConsoleOn, ConsoleSends, AskAgain, AskEarly, Asks
  <2> QED
    BY <1>2, <2>2, <2>3, <2>4
<1>3. CASE HandlePacket
  <2>1. UNCHANGED <<fifo, refused, slot, console, resets>>
    BY <1>1, <1>3, HandleMoves
  <2>2. Upcoming' = Upcoming
    <3>1. CASE UNCHANGED <<out_packet, identify_sequence>> /\ core0.pc = "loop" /\ core0'.pc # "write"
      BY <3>1 DEF Upcoming, HoldsChunk, At0
    <3>2. CASE NextChunk /\ core0.pc = "loop" /\ core0'.pc = "write"
      BY <3>2 DEF NextChunk, Chunk, Upcoming, HoldsChunk, At0
    <3> QED
      BY <1>1, <1>3, <3>1, <3>2, HandleMoves
  <2> QED
    BY <2>1, <2>2
<1>4. CASE Proceed \/ Announce \/ Interval
  <2>1. UNCHANGED <<console, slot, resets>>
    BY <1>1, <1>4, Core0Steps DEF hosts
  <2>2. CASE /\ UNCHANGED <<out_packet, identify_sequence>>
             /\ core0.pc # "write" /\ core0'.pc # "write"
    <3>1. Upcoming' = Upcoming
      BY <2>2 DEF Upcoming, HoldsChunk, At0
    <3>2. Packet("notice") \in Packets /\ Packet("notice").kind = "notice"
      BY PlainPackets DEF Packet
    <3>3. UNCHANGED <<fifo, refused>> \/ xbox_fifo_write(Packet("notice"))
      BY <1>1, <1>4, <2>2, Core0Steps
    <3> QED
      BY <2>1, <3>1, <3>2, <3>3
  <2>3. CASE NextChunk /\ core0.pc = "identify" /\ core0'.pc = "write"
    <3>1. Upcoming' = Upcoming
      BY <2>3 DEF NextChunk, Chunk, Upcoming, HoldsChunk, At0
    <3>2. UNCHANGED <<fifo, refused>>
      BY <2>3 DEF NextChunk
    <3> QED
      BY <2>1, <3>1, <3>2
  <2>4. CASE /\ core0.pc = "loop" /\ core0'.pc = "write" /\ out_packet'.kind = "announce"
             /\ UNCHANGED <<fifo, refused, identify_sequence>>
    <3>1. Upcoming' = Upcoming
      BY <2>4 DEF Upcoming, HoldsChunk, At0
    <3> QED
      BY <2>1, <2>4, <3>1
  <2>5. CASE UNCHANGED <<core0, fifo, refused, out_packet, identify_sequence>>
    <3>1. Upcoming' = Upcoming
      BY <2>5 DEF Upcoming, HoldsChunk, At0
    <3> QED
      BY <2>1, <2>5, <3>1
  <2>6. CASE /\ core0.pc = "write" /\ core0'.pc = "loop" /\ xbox_fifo_write(out_packet)
             /\ UNCHANGED <<out_packet, identify_sequence>>
    <3>1. out_packet \in Packets
      BY <1>1 DEF TypeOK
    <3>2. CASE HoldsChunk
      <4>1. out_packet.n \in 0 .. NChunks - 1
        BY <3>1, <3>2 DEF Packets, HoldsChunk
      <4>2. identify_sequence = out_packet.n + 1 /\ Upcoming = out_packet.n
        BY <1>1, <3>2 DEF ChunkInv, SequenceInv, Upcoming
      <4>3. Upcoming' = StartOver(identify_sequence)
        BY <2>6 DEF Upcoming, HoldsChunk, At0
      <4>4. Upcoming' = (out_packet.n + 1) % NChunks
        BY <4>1, <4>2, <4>3, StartOverIsModulo
      <4> QED
        BY <2>1, <2>6, <3>2, <4>1, <4>2, <4>4
    <3>3. CASE ~HoldsChunk
      <4>1. Upcoming' = Upcoming /\ out_packet.kind # "chunk"
        BY <2>6, <3>3 DEF Upcoming, HoldsChunk, At0
      <4> QED
        BY <2>1, <2>6, <3>1, <4>1
    <3> QED
      BY <3>2, <3>3
  <2> QED
    BY <1>1, <1>4, <2>2, <2>3, <2>4, <2>5, <2>6, Core0Steps
<1>5. CASE SlotTask
  BY <1>1, <1>5, SlotMoves DEF Upcoming, HoldsChunk, At0
<1>6. CASE SendToController \/ Plug \/ Unplug \/ ControllerAnswers \/ RelayAnswer
  <2>1. UNCHANGED <<out_packet, identify_sequence, console, slot, resets>>
    BY <1>1, <1>6, ControllerMoves
  <2>2. core0' = core0 \/ (core0.pc = "send" /\ core0'.pc = "loop")
    BY <1>1, <1>6, ControllerMoves
  <2>3. Upcoming' = Upcoming
    BY <2>1, <2>2 DEF Upcoming, HoldsChunk, At0
  <2>4. Packet("raw") \in Packets /\ Packet("raw").kind = "raw"
    BY PlainPackets DEF Packet
  <2>5. UNCHANGED <<fifo, refused>> \/ xbox_fifo_write(Packet("raw"))
    BY <1>1, <1>6, ControllerMoves
  <2> QED
    BY <2>1, <2>3, <2>4, <2>5
<1>7. CASE UNCHANGED allVars
  BY <1>7 DEF allVars, vars, hosts, Upcoming, HoldsChunk, At0
<1> QED
  BY <1>2, <1>3, <1>4, <1>5, <1>6, <1>7 DEF HandshakeNext

\* Until the console identifies, the sequence has not begun.
LEMMA FreshStep ==
  ASSUME WayInv, FreshInv, [HandshakeNext]_allVars
  PROVE  FreshInv'
<1> SUFFICES ASSUME resets' = 0, console'.state \in {"off", "waiting"}
             PROVE  identify_sequence' = 0 /\ request' = "none" /\ adapter_state' \in {"NONE", "INIT"}
  BY DEF FreshInv
<1>1. HandshakeTypeOK /\ TypeOK /\ StageInv
  BY DEF WayInv, AdapterInv
<1>2. CASE ConsoleOn \/ ConsoleTakes \/ ConsoleSends \/ AskAgain \/ AskEarly \/ BusReset
  <2>1. UNCHANGED <<identify_sequence, adapter_state>>
    BY <1>1, <1>2, ConsoleMoves DEF vars
  <2>2. CASE ConsoleOn
    BY <2>1, <2>2 DEF ConsoleOn, FreshInv
  <2>3. CASE ConsoleTakes
    BY <1>1, <2>1, <2>3, Takes DEF FreshInv
  <2>4. CASE ConsoleSends
    <3>1. console.wants # "none" /\ console'.state = console.state /\ resets' = resets
      BY <1>1, <2>4, TypeParts DEF ConsoleSends, HostsType
    <3>2. console.wants \in Commands
      BY <1>1, TypeParts DEF HostsType
    <3> QED
      BY <3>1, <3>2 DEF WayInv, PartnerInv, Commands
  <2>5. CASE AskAgain \/ AskEarly
    BY <1>1, <2>5, TypeParts DEF AskAgain, AskEarly, Asks, HostsType
  <2>6. CASE BusReset
    <3>1. \A r \in Nat : r + 1 # 0
      OBVIOUS
    <3>2. resets \in Nat
      BY <1>1, HandshakeAssumption DEF HandshakeTypeOK
    <3> QED
      BY <2>6, <3>1, <3>2 DEF BusReset
  <2> QED
    BY <1>2, <2>2, <2>3, <2>4, <2>5, <2>6
<1>3. CASE HandlePacket
  BY <1>1, <1>3, HandleMoves DEF FreshInv
<1>4. CASE Proceed \/ Announce \/ Interval
  BY <1>1, <1>4, Core0Steps DEF FreshInv, hosts
<1>5. CASE SlotTask
  BY <1>1, <1>5, SlotMoves DEF FreshInv
<1>6. CASE SendToController \/ Plug \/ Unplug \/ ControllerAnswers \/ RelayAnswer
  BY <1>1, <1>6, ControllerMoves DEF FreshInv
<1>7. CASE UNCHANGED allVars
  BY <1>7 DEF allVars, vars, hosts, FreshInv
<1> QED
  BY <1>2, <1>3, <1>4, <1>5, <1>6, <1>7 DEF HandshakeNext

\* A chunk in epin_buf is still followed by the next one.
LEMMA FollowStep ==
  ASSUME WayInv, FollowInv, [HandshakeNext]_allVars
  PROVE  FollowInv'
<1>1. HandshakeTypeOK /\ TypeOK /\ ChunkInv /\ Len(fifo) \in Nat
  BY DEF WayInv, AdapterInv, TypeOK
<1>2. ASSUME slot' = slot, refused' = refused, Upcoming' = Upcoming,
             fifo' = fifo \/ (fifo # <<>> /\ fifo' # <<>> /\ fifo'[1] = fifo[1])
                          \/ (fifo = <<>> /\ fifo' # <<>> /\ fifo'[1].kind # "chunk")
      PROVE  FollowInv'
  BY <1>2 DEF FollowInv, SlotIsChunk
<1>3. CASE slot' = <<>>
  BY <1>3 DEF FollowInv, SlotIsChunk
<1>4. ASSUME NEW p \in Packets, xbox_fifo_write(p), slot' = slot,
             p.kind = "chunk" => /\ Upcoming = p.n
                                 /\ Upcoming' = (p.n + 1) % NChunks,
             p.kind # "chunk" => Upcoming' = Upcoming
      PROVE  FollowInv'
  <2>1. CASE fifo' = fifo /\ (p.kind = "chunk" => refused')
    <3>1. CASE p.kind = "chunk"
      BY <2>1, <3>1 DEF FollowInv
    <3>2. CASE p.kind # "chunk"
      <4>1. ~refused' => ~refused
        BY <1>4 DEF xbox_fifo_write
      <4> QED
        BY <1>4, <2>1, <3>2, <4>1 DEF FollowInv, SlotIsChunk
    <3> QED
      BY <3>1, <3>2
  <2>2. CASE /\ Len(fifo') = Len(fifo) + 1 /\ fifo'[Len(fifo) + 1] = p
             /\ \A k \in 1 .. Len(fifo) : fifo'[k] = fifo[k]
             /\ refused' = refused
    <3>1. fifo' # <<>>
      BY <1>1, <2>2
    <3>2. CASE fifo = <<>>
      <4>1. fifo'[1] = p
        BY <2>2, <3>2
      <4> QED
        BY <1>4, <2>2, <3>1, <3>2, <4>1 DEF FollowInv, SlotIsChunk
    <3>3. CASE fifo # <<>>
      <4>1. fifo'[1] = fifo[1]
        BY <1>1, <2>2, <3>3 DEF TypeOK
      <4> QED
        BY <1>4, <2>2, <3>1, <3>3, <4>1 DEF FollowInv, SlotIsChunk
    <3> QED
      BY <3>2, <3>3
  <2> QED
    BY <1>1, <1>4, <2>1, <2>2, WriteCases
<1>5. CASE SlotTask /\ Upcoming' = Upcoming
  <2>1. /\ slot'[1] = fifo[1] /\ slot' # <<>> /\ refused' = refused
        /\ Len(fifo) \in Nat \ {0} /\ Len(fifo') = Len(fifo) - 1
        /\ \A k \in 1 .. Len(fifo') : fifo'[k] = fifo[k + 1]
    BY <1>1, <1>5, SlotMoves
  <2>2. ASSUME fifo[1].kind = "chunk", ~refused
        PROVE  /\ fifo' = <<>> => Upcoming = (fifo[1].n + 1) % NChunks
               /\ fifo' # <<>> /\ fifo'[1].kind = "chunk"
                    => fifo'[1].n = (fifo[1].n + 1) % NChunks
    <3>1. fifo' \in Seq(Packets)
      BY <1>1, <1>5 DEF SlotTask, SendTask, TypeOK
    <3>2. CASE fifo' = <<>>
      <4>1. Len(fifo) = 1
        BY <2>1, <3>2
      <4> QED
        BY <1>1, <2>2, <3>2, <4>1 DEF ChunkInv, SequenceInv, LastIsChunk
    <3>3. CASE fifo' # <<>>
      <4>1. 1 \in 1 .. Len(fifo') /\ 1 \in 1 .. Len(fifo) - 1
        BY <2>1, <3>1, <3>3
      <4>2. fifo'[1] = fifo[2]
        BY <2>1, <4>1
      <4> QED
        BY <1>1, <2>2, <3>3, <4>1, <4>2 DEF ChunkInv, ChunkOrder
    <3> QED
      BY <3>2, <3>3
  <2> QED
    BY <1>5, <2>1, <2>2 DEF FollowInv, SlotIsChunk
<1>6. out_packet \in Packets
  BY <1>1 DEF TypeOK
<1> QED
  BY <1>1, <1>2, <1>3, <1>4, <1>5, <1>6, ChunkMoves, Takes DEF HoldsChunk

\* The first chunk in the queue is the one expected; without one there, the upcoming
\* one is.
LEMMA StepStep ==
  ASSUME WayInv, FreshInv, FollowInv, StepInv, [HandshakeNext]_allVars
  PROVE  StepInv'
<1> SUFFICES ASSUME console'.state = "identifying", ~refused', resets' = 0
             PROVE  /\ SlotIsChunk' => Expected(slot[1].n)'
                    /\ ~SlotIsChunk' =>
                         /\ (\A k \in 1 .. Len(fifo') : fifo'[k].kind # "chunk")
                              => Expected(Upcoming)'
                         /\ \A k \in 1 .. Len(fifo') :
                              /\ fifo'[k].kind = "chunk"
                              /\ \A j \in 1 .. k - 1 : fifo'[j].kind # "chunk"
                              => Expected(fifo[k].n)'
  BY DEF StepInv
<1>1. /\ HandshakeTypeOK /\ TypeOK /\ StageInv /\ AdapterInv /\ Len(fifo) \in Nat
      /\ SlotInv /\ PartnerInv /\ AnnounceInv
  BY DEF WayInv, AdapterInv, TypeOK
<1>2. ASSUME console.state = "identifying", ~refused, resets = 0
      PROVE  /\ SlotIsChunk => Expected(slot[1].n)
             /\ ~SlotIsChunk =>
                  /\ (\A k \in 1 .. Len(fifo) : fifo[k].kind # "chunk") => Expected(Upcoming)
                  /\ \A k \in 1 .. Len(fifo) :
                       /\ fifo[k].kind = "chunk"
                       /\ \A j \in 1 .. k - 1 : fifo[j].kind # "chunk"
                       => Expected(fifo[k].n)
  BY <1>2 DEF StepInv
<1>3. CASE /\ UNCHANGED <<fifo, refused, slot>> /\ Upcoming' = Upcoming
           /\ console.state = "identifying" /\ console'.bytes = console.bytes /\ resets = 0
  BY <1>2, <1>3 DEF SlotIsChunk, Expected
<1>4. CASE ConsoleTakes /\ UNCHANGED <<fifo, refused>> /\ Upcoming' = Upcoming
  <2>1. slot # <<>> /\ ~SlotIsChunk' /\ resets = 0
    BY <1>1, <1>4, Takes DEF SlotIsChunk
  <2>2. CASE console.state = "waiting" /\ console'.bytes = 0
    <3>1. identify_sequence = 0 /\ adapter_state \in {"NONE", "INIT"}
      BY <2>1, <2>2 DEF FreshInv
    <3>2. Upcoming = 0
      BY <1>1, <3>1, AdapterAssumption DEF Upcoming, HoldsChunk, StageInv, StartOver, At0, Packet
    <3>3. \A k \in 1 .. Len(fifo) : fifo[k].kind # "chunk"
      <4>1. Rank \in 0 .. 1
        BY <1>1, <3>1, RankValues
      <4>2. \A r \in 0 .. 1 : ~(2 <= r)
        OBVIOUS
      <4> QED
        BY <1>1, <4>1, <4>2, PhaseValues DEF AdapterInv, OrderInv, RankInv
    <3> QED
      BY <1>4, <2>1, <2>2, <3>2, <3>3, Fragments DEF Expected
  <2>3. CASE /\ console.state = "identifying" /\ slot[1].kind = "chunk"
             /\ console'.bytes = Together(console.bytes, slot[1].n)
             /\ ~Complete(console.bytes, slot[1].n)
    <3>1. SlotIsChunk /\ slot[1].n \in 0 .. NChunks - 1
      BY <1>1, <2>1, <2>3, SlotPacket DEF SlotIsChunk
    <3>2. Offsets[slot[1].n + 1] = console.bytes
      BY <1>2, <1>4, <2>1, <2>3, <3>1 DEF Expected
    <3>3. slot[1].n \in 0 .. 5 /\ Offsets[slot[1].n + 2] = console'.bytes
      BY <2>3, <3>1, <3>2, TogetherStep
    <3> DEFINE next == (slot[1].n + 1) % NChunks
    <3>4. Offsets[next + 1] = console'.bytes
      <4>1. next = slot[1].n + 1
        BY <3>3, Fragments
      <4>2. next + 1 = slot[1].n + 2
        BY <3>3, <4>1
      <4> QED
        BY <3>3, <4>2
    <3>5. /\ fifo = <<>> => Upcoming = next
          /\ fifo # <<>> /\ fifo[1].kind = "chunk" => fifo[1].n = next
      BY <1>4, <3>1 DEF FollowInv
    <3> HIDE DEF next
    <3>6. \A k \in 1 .. Len(fifo) : fifo[k].kind = "chunk"
      BY <1>1, <2>1, <2>3, NothingYet DEF AnnounceInv, NoAnnounce
    <3>7. CASE fifo = <<>>
      BY <1>4, <2>1, <3>4, <3>5, <3>7 DEF Expected
    <3>8. CASE fifo # <<>>
      <4>1. 1 \in 1 .. Len(fifo) /\ fifo[1].kind = "chunk"
        BY <1>1, <3>6, <3>8 DEF TypeOK
      <4>2. Expected(fifo[1].n)'
        BY <1>4, <3>4, <3>5, <3>8, <4>1 DEF Expected
      <4>3. \A k \in 1 .. Len(fifo) :
              (\A j \in 1 .. k - 1 : fifo[j].kind # "chunk") => k = 1
        <5>1. \A k \in 1 .. Len(fifo) : k # 1 => 1 \in 1 .. k - 1
          BY <1>1
        <5> QED
          BY <4>1, <5>1
      <4> QED
        BY <1>4, <2>1, <4>1, <4>2, <4>3
    <3> QED
      BY <3>7, <3>8
  <2>4. CASE console' = console /\ ~(console.state = "identifying" /\ slot[1].kind = "chunk")
    <3>1. ~SlotIsChunk
      BY <2>4 DEF SlotIsChunk
    <3> QED
      BY <1>2, <1>4, <2>1, <2>4, <3>1 DEF Expected
  <2> QED
    BY <1>1, <1>4, <2>2, <2>3, <2>4, Takes
<1>5. ASSUME NEW p \in Packets, xbox_fifo_write(p), UNCHANGED <<slot, console, resets>>,
             \/ p.kind # "chunk" /\ Upcoming' = Upcoming
             \/ p.kind = "chunk" /\ Upcoming = p.n
      PROVE  StepInv'
  <2>1. ~refused /\ resets = 0 /\ console.state = "identifying"
    BY <1>5 DEF xbox_fifo_write
  <2>2. SlotIsChunk' = SlotIsChunk /\ (Expected(slot[1].n)' <=> Expected(slot[1].n))
    BY <1>5 DEF SlotIsChunk, Expected
  <2>3. CASE fifo' = fifo
    <3>1. p.kind # "chunk"
      BY <1>1, <1>5, <2>3, WriteCases
    <3> QED
      BY <1>5, <2>1, <2>2, <2>3, <3>1 DEF StepInv, Expected
  <2>4. CASE /\ Len(fifo') = Len(fifo) + 1 /\ fifo'[Len(fifo) + 1] = p
             /\ \A k \in 1 .. Len(fifo) : fifo'[k] = fifo[k]
    <3>0. Len(fifo) + 1 \in 1 .. Len(fifo') /\ 1 .. Len(fifo) \subseteq 1 .. Len(fifo')
      BY <1>1, <2>4
    <3>1. ASSUME ~SlotIsChunk, \A k \in 1 .. Len(fifo') : fifo'[k].kind # "chunk"
          PROVE  Expected(Upcoming)'
      <4>1. p.kind # "chunk"
        BY <2>4, <3>0, <3>1
      <4>2. \A k \in 1 .. Len(fifo) : fifo[k].kind # "chunk"
        BY <2>4, <3>0, <3>1
      <4>3. Expected(Upcoming)
        BY <1>2, <2>1, <3>1, <4>2
      <4> QED
        BY <1>5, <4>1, <4>3 DEF Expected
    <3>2. ASSUME ~SlotIsChunk, NEW k \in 1 .. Len(fifo'), fifo'[k].kind = "chunk",
                 \A j \in 1 .. k - 1 : fifo'[j].kind # "chunk"
          PROVE  Expected(fifo[k].n)'
      <4>1. CASE k \in 1 .. Len(fifo)
        <5>1. \A j \in 1 .. k - 1 : j \in 1 .. Len(fifo)
          BY <1>1, <4>1
        <5>2. fifo'[k] = fifo[k] /\ \A j \in 1 .. k - 1 : fifo[j].kind # "chunk"
          BY <2>4, <3>2, <4>1, <5>1
        <5>3. Expected(fifo[k].n)
          BY <1>2, <2>1, <3>2, <4>1, <5>2
        <5> QED
          BY <1>5, <5>2, <5>3 DEF Expected
      <4>2. CASE k = Len(fifo) + 1
        <5>1. \A j \in 1 .. Len(fifo) : j \in 1 .. k - 1
          BY <1>1, <4>2
        <5>2. \A j \in 1 .. Len(fifo) : fifo[j].kind # "chunk"
          BY <2>4, <3>2, <5>1
        <5>3. Expected(Upcoming)
          BY <1>2, <2>1, <3>2, <5>2
        <5>4. p.kind = "chunk" /\ fifo'[k] = p
          BY <2>4, <3>2, <4>2
        <5> QED
          BY <1>5, <5>3, <5>4 DEF Expected
      <4> QED
        BY <1>1, <2>4, <4>1, <4>2
    <3>3. SlotIsChunk => Expected(slot[1].n)'
      BY <1>2, <2>1, <2>2
    <3> QED
      BY <2>2, <3>1, <3>2, <3>3 DEF StepInv
  <2> QED
    BY <1>1, <1>5, <2>3, <2>4, WriteCases
<1>6. CASE SlotTask /\ Upcoming' = Upcoming
  <2>1. /\ slot = <<>> /\ slot'[1] = fifo[1] /\ slot' # <<>>
        /\ Len(fifo) \in Nat \ {0} /\ Len(fifo') = Len(fifo) - 1
        /\ \A k \in 1 .. Len(fifo') : fifo'[k] = fifo[k + 1]
        /\ console.state = "identifying" /\ ~refused /\ resets = 0
        /\ console' = console
    BY <1>1, <1>6, SlotMoves
  <2>2. ~SlotIsChunk /\ 1 \in 1 .. Len(fifo)
    BY <2>1 DEF SlotIsChunk
  <2>3. SlotIsChunk' <=> fifo[1].kind = "chunk"
    BY <2>1 DEF SlotIsChunk
  <2>4. SlotIsChunk' => Expected(slot[1].n)'
    <3>1. \A j \in 1 .. 1 - 1 : fifo[j].kind # "chunk"
      OBVIOUS
    <3>2. fifo[1].kind = "chunk" => Expected(fifo[1].n)
      BY <1>2, <2>1, <2>2, <3>1
    <3> QED
      BY <2>1, <2>3, <3>2 DEF Expected
  <2>5. ASSUME fifo[1].kind # "chunk", \A k \in 1 .. Len(fifo') : fifo'[k].kind # "chunk"
        PROVE  Expected(Upcoming)'
    <3>1. \A k \in 1 .. Len(fifo) : k = 1 \/ (k - 1 \in 1 .. Len(fifo') /\ k = (k - 1) + 1)
      BY <2>1
    <3>2. \A k \in 1 .. Len(fifo) : fifo[k].kind # "chunk"
      BY <2>1, <2>5, <3>1
    <3> QED
      BY <1>2, <1>6, <2>1, <2>2, <3>2 DEF Expected
  <2>6. ASSUME fifo[1].kind # "chunk", NEW k \in 1 .. Len(fifo'), fifo'[k].kind = "chunk",
               \A j \in 1 .. k - 1 : fifo'[j].kind # "chunk"
        PROVE  Expected(fifo[k].n)'
    <3>1. k + 1 \in 1 .. Len(fifo) /\ fifo'[k] = fifo[k + 1]
      BY <2>1
    <3>2. \A j \in 1 .. (k + 1) - 1 :
            j = 1 \/ (j - 1 \in 1 .. k - 1 /\ j - 1 \in 1 .. Len(fifo') /\ j = (j - 1) + 1)
      BY <2>1
    <3>3. \A j \in 1 .. (k + 1) - 1 : fifo[j].kind # "chunk"
      BY <2>1, <2>6, <3>2
    <3>4. Expected(fifo[k + 1].n)
      BY <1>2, <2>1, <2>2, <2>6, <3>1, <3>3
    <3> QED
      BY <2>1, <3>1, <3>4 DEF Expected
  <2> QED
    BY <2>3, <2>4, <2>5, <2>6
<1>7. out_packet \in Packets
  BY <1>1 DEF TypeOK
<1> QED
  BY <1>1, <1>3, <1>4, <1>5, <1>6, <1>7, ChunkMoves DEF HoldsChunk, StepInv

LEMMA NextChunkInit == HandshakeInit => FreshInv /\ FollowInv /\ StepInv
BY DEF HandshakeInit, Init, FreshInv, FollowInv, StepInv, SlotIsChunk

\* The first chunk on the way is in epin_buf, or the first in the queue, or the one
\* core 0 holds.
LEMMA FirstOnTheWay ==
  ASSUME WayInv, StepInv
  PROVE  InStep
<1> SUFFICES ASSUME console.state = "identifying", ~refused, resets = 0
             PROVE  /\ NoChunk => Offsets[StartOver(identify_sequence) + 1] = console.bytes
                    /\ \A k \in DOMAIN OnTheWay :
                         ChunkAt(k) /\ (\A j \in 1 .. k - 1 : ~ChunkAt(j))
                           => Offsets[OnTheWay[k].n + 1] = console.bytes
  BY DEF InStep
<1>1. HandshakeTypeOK
  BY DEF WayInv
<1>2. /\ SlotIsChunk => Expected(slot[1].n)
      /\ ~SlotIsChunk =>
           /\ (\A k \in 1 .. Len(fifo) : fifo[k].kind # "chunk") => Expected(Upcoming)
           /\ \A k \in 1 .. Len(fifo) :
                fifo[k].kind = "chunk" /\ (\A j \in 1 .. k - 1 : fifo[j].kind # "chunk")
                  => Expected(fifo[k].n)
  BY DEF StepInv
<1>3. NoChunk => Offsets[StartOver(identify_sequence) + 1] = console.bytes
  BY <1>1, <1>2, NoChunkParts DEF Upcoming, Expected
<1>4. ASSUME NEW k \in DOMAIN OnTheWay, ChunkAt(k), \A j \in 1 .. k - 1 : ~ChunkAt(j)
      PROVE  Offsets[OnTheWay[k].n + 1] = console.bytes
  <2>1. /\ Len(slot) \in 0 .. 1 /\ Len(fifo) \in Nat /\ Count(At0("write")) \in {0, 1}
        /\ k \in 1 .. Len(slot) + Len(fifo) + Count(At0("write"))
    BY <1>1, <1>4, OnTheWayParts DEF Count
  <2>2. \A l \in 0 .. 1, f \in Nat, c \in {0, 1} : \A i \in 1 .. l + f + c :
          \/ l = 1 /\ i = 1
          \/ i - l \in 1 .. f /\ i = l + (i - l) /\ (l = 1 => 1 \in 1 .. i - 1)
          \/ c = 1 /\ i = l + f + 1 /\ (l = 1 => 1 \in 1 .. i - 1)
    OBVIOUS
  <2>3. CASE Len(slot) = 1 /\ k = 1
    <3>1. slot # <<>>
      BY <1>1, <2>3, OnTheWayParts
    <3> QED
      BY <1>1, <1>2, <1>4, <2>3, <3>1, OnTheWayParts DEF ChunkAt, SlotIsChunk, Expected
  <2>4. ASSUME Len(slot) = 1 => 1 \in 1 .. k - 1
        PROVE  ~SlotIsChunk
    <3>1. SlotIsChunk => Len(slot) = 1 /\ OnTheWay[1].kind = "chunk"
      BY <1>1, OnTheWayParts DEF SlotIsChunk
    <3> QED
      BY <1>4, <2>4, <3>1 DEF ChunkAt
  <2>5. CASE /\ k - Len(slot) \in 1 .. Len(fifo) /\ k = Len(slot) + (k - Len(slot))
             /\ Len(slot) = 1 => 1 \in 1 .. k - 1
    <3>1. ~SlotIsChunk
      BY <2>4, <2>5
    <3>2. OnTheWay[k] = fifo[k - Len(slot)]
      BY <1>1, <2>5, OnTheWayParts
    <3>3. \A j \in 1 .. (k - Len(slot)) - 1 : fifo[j].kind # "chunk"
      <4>1. \A j \in 1 .. (k - Len(slot)) - 1 : j \in 1 .. Len(fifo) /\ Len(slot) + j \in 1 .. k - 1
        BY <2>1, <2>5
      <4> QED
        BY <1>1, <1>4, <4>1, OnTheWayParts DEF ChunkAt
    <3> QED
      BY <1>2, <1>4, <2>5, <3>1, <3>2, <3>3 DEF ChunkAt, Expected
  <2>6. CASE /\ Count(At0("write")) = 1 /\ k = Len(slot) + Len(fifo) + 1
             /\ Len(slot) = 1 => 1 \in 1 .. k - 1
    <3>1. ~SlotIsChunk
      BY <2>4, <2>6
    <3>2. OnTheWay[k] = out_packet /\ HoldsChunk
      BY <1>1, <1>4, <2>6, OnTheWayParts DEF Count, HoldsChunk, ChunkAt
    <3>3. \A j \in 1 .. Len(fifo) : fifo[j].kind # "chunk"
      <4>1. \A j \in 1 .. Len(fifo) : Len(slot) + j \in 1 .. k - 1
        BY <2>1, <2>6
      <4> QED
        BY <1>1, <1>4, <4>1, OnTheWayParts DEF ChunkAt
    <3> QED
      BY <1>2, <3>1, <3>2, <3>3 DEF Upcoming, Expected
  <2>7. \/ Len(slot) = 1 /\ k = 1
        \/ /\ k - Len(slot) \in 1 .. Len(fifo) /\ k = Len(slot) + (k - Len(slot))
           /\ Len(slot) = 1 => 1 \in 1 .. k - 1
        \/ /\ Count(At0("write")) = 1 /\ k = Len(slot) + Len(fifo) + 1
           /\ Len(slot) = 1 => 1 \in 1 .. k - 1
    BY <2>1, <2>2
  <2> QED
    BY <2>3, <2>5, <2>6, <2>7
<1> QED
  BY <1>3, <1>4

\* As long as the queue takes every chunk and the bus is not reset, the next chunk
\* the console gets continues what it has put together.
THEOREM ChunksContinue == HandshakeSpec => []InStep
<1>1. HandshakeInit => WayInv /\ FreshInv /\ FollowInv /\ StepInv
  BY WayInit, NextChunkInit
<1>2. WayInv /\ FreshInv /\ FollowInv /\ StepInv /\ [HandshakeNext]_allVars
        => (WayInv /\ FreshInv /\ FollowInv /\ StepInv)'
  BY WayStep, FreshStep, FollowStep, StepStep
<1>3. WayInv /\ StepInv => InStep
  BY FirstOnTheWay
<1> QED
  BY <1>1, <1>2, <1>3, PTL DEF HandshakeSpec

=============================================================================
