---------------------- MODULE InstrumentManagerProofs ----------------------
(***************************************************************************)
(* Proofs about InstrumentManager, for any number of instruments, MIDI     *)
(* devices and queue slots.                                                *)
(***************************************************************************)
EXTENDS InstrumentManager, TLAPS

-----------------------------------------------------------------------------
(* The inductive invariant.                                                *)

\* How the calls nest: only core 0's thread scans, always to announce, and
\* the interrupt always ends by forgetting the serial kit.
NestingInv ==
  /\ \A c \in Contexts :
       /\ frame[c].pc = "scan" => frame[c].then = "scan"
       /\ frame[c].then = "scan" =>
            /\ c = "main"
            /\ frame[c].connect
            /\ frame[c].pc \in {"scan", "copy", "tail", "lock", "push"}
  /\ frame["alarm"].pc \notin {"idle", "clear"} => frame["alarm"].then = "clear"

\* The scan has yet to come to instrument i.
WillScan(i) ==
  \/ frame["main"].pc = "scan" /\ frame["main"].instrument <= i
  \/ /\ frame["main"].pc \in {"copy", "tail", "lock", "push"}
     /\ frame["main"].then = "scan"
     /\ frame["main"].instrument < i

\* A context has set the flag of i and has yet to read adapter_state.
WillRead(i) ==
  \E c \in Contexts : /\ frame[c].pc = "state"
                      /\ frame[c].instrument = i
                      /\ frame[c].connect

AnnounceInv ==
  running => \A i \in connected_instruments \ announced : WillScan(i) \/ WillRead(i)

\* In an orderly history one context at a time builds the packet, and what it
\* has built so far is its own.
PacketInv ==
  orderly =>
    /\ \A c, d \in Contexts :
         frame[c].pc \in Building /\ frame[d].pc \in Building => c = d
    /\ \A c \in Contexts :
         /\ frame[c].pc \in Building => out_packet.command = CommandOf(frame[c])
         /\ frame[c].pc \in {"lock", "push"} => out_packet.instrument = frame[c].instrument

\* In an orderly history a context that will send a notice will send the truth.
NoticeInv ==
  orderly =>
    \A c \in Contexts : frame[c].pc \in Committed =>
      (frame[c].connect <=> frame[c].instrument \in connected_instruments)

WillNotify(i) == \E c \in Contexts : frame[c].pc \in Committed /\ frame[c].instrument = i

\* Nothing is sent before the adapter runs; afterwards the console is right
\* about every instrument nobody is about to send a notice for.
ToldInv ==
  /\ ~running =>
       /\ told = {}
       /\ \A c \in Contexts : frame[c].pc \notin {"copy", "tail", "lock", "push", "scan"}
  /\ orderly /\ running =>
       \A i \in Instruments : \/ WillNotify(i)
                              \/ i \in connected_instruments /\ WillScan(i)
                              \/ i \in told <=> i \in connected_instruments

\* Before the flag is changed: it is that of the drums, the interrupt clears it,
\* the thread sets it for the serial kit, core 1 sets it for a kit in use.
CallInv ==
  \A c \in Contexts : frame[c].pc \in {"check", "set"} =>
    /\ frame[c].instrument = DRUMS
    /\ c = "alarm" => ~frame[c].connect
    /\ c = "main" => frame[c].connect /\ frame[c].then = "mark"
    /\ c = "host" /\ frame[c].connect => midi_dev_addr # 0

\* The serial kit is being connected, and will be marked.
WillMark == \/ frame["main"].pc = "mark"
            \/ frame["main"].pc \in {"check", "set"} \union Committed /\ frame["main"].then = "mark"

\* The USB kit has gone, and core 1 is about to clear the flag.
WillDrop == frame["host"].pc \in {"check", "set"} /\ ~frame["host"].connect

\* The flag of the drums has a reason; once the interrupt has cleared it, another
\* than the serial kit, which it is about to forget.
SourceInv ==
  DRUMS \in connected_instruments =>
    /\ drums_connected \/ midi_dev_addr # 0 \/ WillDrop \/ WillMark
    /\ frame["alarm"].pc \in Committed \union {"clear"}
         => midi_dev_addr # 0 \/ WillDrop \/ WillMark

-----------------------------------------------------------------------------
(* What a step does to the frames.                                         *)

\* The numbers the frames start from are in range: there is at least one
\* instrument, and DRUMS is the last.
LEMMA IndexType == /\ DRUMS \in Instruments
                   /\ 0 \in 0 .. NInstruments
                   /\ DRUMS \in 0 .. NInstruments
                   /\ Instruments \subseteq 0 .. NInstruments
BY RosterAssumption DEF DRUMS, Instruments

\* Goto moves one context and leaves its arguments and the others alone.
LEMMA GotoFrame ==
  ASSUME frame \in [Contexts -> Frames], NEW c \in Contexts, NEW pc \in Labels,
         Goto(c, pc)
  PROVE  /\ frame' \in [Contexts -> Frames]
         /\ frame'[c].pc = pc
         /\ frame'[c].instrument = frame[c].instrument
         /\ frame'[c].connect = frame[c].connect
         /\ frame'[c].then = frame[c].then
         /\ \A d \in Contexts \ {c} : frame'[d] = frame[d]
BY DEF Goto, Frames

\* Connecting, Disconnecting and Leave replace one context's frame.
LEMMA ConnectingFrame ==
  ASSUME frame \in [Contexts -> Frames], NEW c \in Contexts, NEW pc \in Labels,
         NEW i \in 0 .. NInstruments, NEW then \in Returns,
         Connecting(c, pc, i, then)
  PROVE  /\ frame' \in [Contexts -> Frames]
         /\ frame'[c].pc = pc
         /\ frame'[c].instrument = i
         /\ frame'[c].connect
         /\ frame'[c].then = then
         /\ \A d \in Contexts \ {c} : frame'[d] = frame[d]
BY DEF Connecting, Enter, Frames

\* Disconnecting begins a disconnect_instrument in one context.
LEMMA DisconnectingFrame ==
  ASSUME frame \in [Contexts -> Frames], NEW c \in Contexts,
         NEW i \in 0 .. NInstruments, NEW then \in Returns,
         Disconnecting(c, i, then)
  PROVE  /\ frame' \in [Contexts -> Frames]
         /\ frame'[c].pc = "check"
         /\ frame'[c].instrument = i
         /\ ~frame'[c].connect
         /\ frame'[c].then = then
         /\ \A d \in Contexts \ {c} : frame'[d] = frame[d]
BY DEF Disconnecting, Enter, Frames, Labels

\* Leave takes one context out of the roster's functions.
LEMMA LeaveFrame ==
  ASSUME frame \in [Contexts -> Frames], NEW c \in Contexts, NEW pc \in Labels,
         Leave(c, pc)
  PROVE  /\ frame' \in [Contexts -> Frames]
         /\ frame'[c].pc = pc
         /\ frame'[c].instrument = DRUMS
         /\ frame'[c].then = "idle"
         /\ \A d \in Contexts \ {c} : frame'[d] = frame[d]
BY IndexType DEF Leave, Outside, Enter, Frames, Returns

\* Return ends the call: the scan goes on with the next instrument, any other
\* caller resumes.
LEMMA ReturnFrame ==
  ASSUME TypeOK, NEW c \in Contexts, Return(c),
         frame[c].instrument \in Instruments
  PROVE  /\ frame' \in [Contexts -> Frames]
         /\ frame[c].then = "scan" =>
              /\ frame'[c].pc = "scan"
              /\ frame'[c].instrument = frame[c].instrument + 1
              /\ frame'[c].connect = frame[c].connect
              /\ frame'[c].then = "scan"
         /\ frame[c].then # "scan" =>
              /\ frame'[c].pc = frame[c].then
              /\ frame'[c].instrument = DRUMS
              /\ frame'[c].then = "idle"
         /\ \A d \in Contexts \ {c} : frame'[d] = frame[d]
<1> DEFINE g == ReturnTo(frame[c])
<1>1. frame' = [frame EXCEPT ![c] = g]
  BY DEF Return
<1>2. /\ frame \in [Contexts -> Frames]
      /\ frame[c] \in Frames
  BY DEF TypeOK
<1>3. CASE frame[c].then = "scan"
  <2>1. g = Enter("scan", frame[c].instrument + 1, frame[c].connect, "scan")
    BY <1>3 DEF ReturnTo
  <2>2. frame[c].instrument + 1 \in 0 .. NInstruments
    BY RosterAssumption DEF Instruments
  <2>3. frame[c].connect \in BOOLEAN
    BY <1>2 DEF Frames
  <2>4. g \in Frames
    BY <2>1, <2>2, <2>3 DEF Enter, Frames, Labels, Returns
  <2>5. /\ g.pc = "scan"
        /\ g.instrument = frame[c].instrument + 1
        /\ g.connect = frame[c].connect
        /\ g.then = "scan"
    BY <2>1 DEF Enter
  <2> HIDE DEF g
  <2>6. QED
    BY <1>1, <1>2, <1>3, <2>4, <2>5
<1>4. CASE frame[c].then # "scan"
  <2>1. g = Enter(frame[c].then, DRUMS, FALSE, "idle")
    BY <1>4 DEF ReturnTo, Outside
  <2>2. frame[c].then \in Returns
    BY <1>2 DEF Frames
  <2>3. g \in Frames
    BY <2>1, <2>2, IndexType DEF Enter, Frames, Labels, Returns
  <2>4. /\ g.pc = frame[c].then
        /\ g.instrument = DRUMS
        /\ g.then = "idle"
    BY <2>1 DEF Enter
  <2> HIDE DEF g
  <2>5. QED
    BY <1>1, <1>2, <1>4, <2>3, <2>4
<1>5. QED
  BY <1>3, <1>4

\* The two ways core 0 begins the scan.
LEMMA ScanStartFrame ==
  ASSUME frame \in [Contexts -> Frames], Authenticated \/ ListConnected
  PROVE  /\ frame' \in [Contexts -> Frames]
         /\ frame'["main"].pc = "scan"
         /\ frame'["main"].instrument = 0
         /\ frame'["main"].connect
         /\ frame'["main"].then = "scan"
         /\ \A d \in Contexts \ {"main"} : frame'[d] = frame[d]
<1>1. Connecting("main", "scan", 0, "scan")
  BY DEF Authenticated, ListConnected
<1>2. "main" \in Contexts /\ "scan" \in Labels /\ "scan" \in Returns
  BY DEF Contexts, Labels, Returns
<1>3. QED
  BY <1>1, <1>2, IndexType, ConnectingFrame

\* A status byte restarts the timer of a kit that is connected, and connects
\* one that is not.
LEMMA StatusByteFrame ==
  ASSUME frame \in [Contexts -> Frames], StatusByte
  PROVE  /\ frame' \in [Contexts -> Frames]
         /\ \/ /\ drums_connected
               /\ frame'["main"].pc = "rearm"
               /\ frame'["main"].then = "idle"
            \/ /\ frame'["main"].pc = "check"
               /\ frame'["main"].then = "mark"
         /\ frame'["main"].instrument = DRUMS
         /\ \A d \in Contexts \ {"main"} : frame'[d] = frame[d]
<1>1. /\ "main" \in Contexts
      /\ "rearm" \in Labels /\ "check" \in Labels
      /\ "mark" \in Returns
  BY DEF Contexts, Labels, Returns
<1>2. CASE drums_connected
  <2>1. Leave("main", "rearm")
    BY <1>2 DEF StatusByte
  <2>2. QED
    BY <1>1, <1>2, <2>1, LeaveFrame
<1>3. CASE ~drums_connected
  <2>1. Connecting("main", "check", DRUMS, "mark")
    BY <1>3 DEF StatusByte
  <2>2. QED
    BY <1>1, <2>1, IndexType, ConnectingFrame
<1>4. QED
  BY <1>2, <1>3

\* The console asks for one instrument: core 0 goes straight to its notice.
LEMMA ListInstrumentFrame ==
  ASSUME frame \in [Contexts -> Frames], NEW i \in Instruments, ListInstrument(i)
  PROVE  /\ frame' \in [Contexts -> Frames]
         /\ frame'["main"].pc = "copy"
         /\ frame'["main"].instrument = i
         /\ frame'["main"].connect
         /\ frame'["main"].then = "idle"
         /\ \A d \in Contexts \ {"main"} : frame'[d] = frame[d]
<1>1. Connecting("main", "copy", i, "idle")
  BY DEF ListInstrument
<1>2. "main" \in Contexts /\ "copy" \in Labels /\ "idle" \in Returns
  BY DEF Contexts, Labels, Returns
<1>3. QED
  BY <1>1, <1>2, IndexType, ConnectingFrame

\* The interrupt disconnects the serial kit if there is one.
LEMMA AlarmFrame ==
  ASSUME frame \in [Contexts -> Frames], AlarmFires
  PROVE  /\ frame' \in [Contexts -> Frames]
         /\ \/ ~drums_connected /\ frame' = frame
            \/ /\ frame'["alarm"].pc = "check"
               /\ frame'["alarm"].instrument = DRUMS
               /\ frame'["alarm"].then = "clear"
         /\ \A d \in Contexts \ {"alarm"} : frame'[d] = frame[d]
<1>1. "alarm" \in Contexts /\ "clear" \in Returns
  BY DEF Contexts, Returns
<1>2. CASE drums_connected
  <2>1. Disconnecting("alarm", DRUMS, "clear")
    BY <1>2 DEF AlarmFires, DisconnectSerial
  <2>2. QED
    BY <1>1, <2>1, IndexType, DisconnectingFrame
<1>3. CASE ~drums_connected
  BY <1>3 DEF AlarmFires
<1>4. QED
  BY <1>2, <1>3

\* A MIDI device comes or goes: core 1 calls the roster only about the device
\* in use.
LEMMA MidiFrame ==
  ASSUME frame \in [Contexts -> Frames], NEW d \in MidiDevices,
         MidiMount(d) \/ MidiUnmount(d)
  PROVE  /\ frame' \in [Contexts -> Frames]
         /\ \/ frame' = frame
            \/ /\ frame'["host"].pc = "check"
               /\ frame'["host"].instrument = DRUMS
               /\ frame'["host"].then = "idle"
         /\ \A c \in Contexts \ {"host"} : frame'[c] = frame[c]
<1>1. /\ "host" \in Contexts
      /\ "check" \in Labels
      /\ "idle" \in Returns
  BY DEF Contexts, Labels, Returns
<1>2. CASE UNCHANGED frame
  BY <1>2
<1>3. CASE Connecting("host", "check", DRUMS, "idle")
  BY <1>1, <1>3, IndexType, ConnectingFrame
<1>4. CASE Disconnecting("host", DRUMS, "idle")
  BY <1>1, <1>4, IndexType, DisconnectingFrame
<1>5. QED
  BY <1>2, <1>3, <1>4 DEF MidiMount, MidiUnmount

\* A writer of another packet moves between the labels of that write, and changes
\* nothing of the roster.
LEMMA OtherFrame ==
  ASSUME frame \in [Contexts -> Frames], NEW c \in {"main", "host"},
         BeginWrite(c) \/ Writes(c)
  PROVE  /\ c \in Contexts
         /\ frame' \in [Contexts -> Frames]
         /\ frame[c].pc \in {"idle", "wait", "write"}
         /\ frame'[c].pc \in {"idle", "wait", "write"}
         /\ frame'[c].instrument = frame[c].instrument
         /\ frame'[c].connect = frame[c].connect
         /\ frame'[c].then = frame[c].then
         /\ \A d \in Contexts \ {c} : frame'[d] = frame[d]
         /\ UNCHANGED <<running, connected_instruments, out_packet, told, drums_connected,
                        alarm_armed, midi_dev_addr, mounted, announced, orderly>>
<1>1. c \in Contexts /\ {"idle", "wait", "write"} \subseteq Labels
  BY DEF Contexts, Labels
<1>2. \E pc \in {"idle", "wait", "write"} :
        frame[c].pc \in {"idle", "wait", "write"} /\ Goto(c, pc)
  BY DEF BeginWrite, Writes, LockOther, PushOther, At
<1>3. QED
  BY <1>1, <1>2, GotoFrame
  DEF BeginWrite, Writes, LockOther, PushOther, queueVars, serialVars, usbVars

-----------------------------------------------------------------------------
(* Type correctness.                                                       *)

\* The initial values have their types.
LEMMA TypingInit == Init => TypeOK
<1> SUFFICES ASSUME Init PROVE TypeOK
  OBVIOUS
<1>1. /\ Idle \in Frames
      /\ Idle.instrument = DRUMS
  BY IndexType DEF Idle, Outside, Enter, Frames, Labels, Returns
<1>2. /\ frame \in [Contexts -> Frames]
      /\ \A c \in Contexts : frame[c].instrument \in Instruments
  BY <1>1, IndexType DEF Init
<1>3. out_packet \in Packets
  BY RosterAssumption DEF Init, Packets, Instruments
<1>4. queued \in 0 .. FifoSize
  BY RosterAssumption DEF Init
<1>5. QED
  BY <1>2, <1>3, <1>4 DEF Init, TypeOK

\* No step of any context takes a variable out of its type: the checks before
\* a write keep the queue in its bounds, those of the loop the index.
LEMMA TypingStep ==
  ASSUME TypeOK, [Next]_vars
  PROVE  TypeOK'
<1> USE IndexType
<1> USE DEF queueVars, serialVars, usbVars, Labels, Returns
<1>0. CASE UNCHANGED vars
  BY <1>0 DEF vars, TypeOK
<1>1. ASSUME NEW c \in Contexts, Check(c) PROVE TypeOK'
  <2>1. frame[c].instrument \in Instruments
    BY <1>1 DEF Check, At, TypeOK
  <2>2. CASE Return(c)
    BY <1>1, <2>1, <2>2, ReturnFrame DEF Check, TypeOK
  <2>3. CASE Goto(c, "set")
    BY <1>1, <2>1, <2>3, GotoFrame DEF Check, TypeOK
  <2>4. QED
    BY <1>1, <2>2, <2>3 DEF Check
<1>2. ASSUME NEW c \in Contexts, Set(c) PROVE TypeOK'
  <2>1. frame[c].instrument \in Instruments
    BY <1>2 DEF Set, At, TypeOK
  <2>2. QED
    BY <1>2, <2>1, GotoFrame DEF Set, TypeOK, ChangesUnderNotice
<1>3. ASSUME NEW c \in Contexts, State(c) PROVE TypeOK'
  <2>1. frame[c].instrument \in Instruments
    BY <1>3 DEF State, At, TypeOK
  <2>2. CASE running
    BY <1>3, <2>1, <2>2, GotoFrame DEF State, TypeOK
  <2>3. CASE ~running
    BY <1>3, <2>1, <2>3, ReturnFrame DEF State, TypeOK
  <2>4. QED
    BY <2>2, <2>3
<1>4. ASSUME NEW c \in Contexts, Copy(c) PROVE TypeOK'
  <2>1. CommandOf(frame[c]) \in {CMD_ADD_PLAYER, CMD_DROP_PLAYER}
    BY DEF CommandOf
  <2>2. out_packet' \in Packets
    BY <1>4, <2>1 DEF Copy, TypeOK, Packets
  <2>3. orderly' \in BOOLEAN
    BY <1>4 DEF Copy, SharesPacket
  <2>4. QED
    BY <1>4, <2>2, <2>3, GotoFrame DEF Copy, At, TypeOK
<1>5. ASSUME NEW c \in Contexts, Tail(c) PROVE TypeOK'
  <2>1. out_packet' \in Packets
    BY <1>5 DEF Tail, At, TypeOK, Packets
  <2>2. QED
    BY <1>5, <2>1, GotoFrame DEF Tail, At, TypeOK, SharesPacket
<1>6. ASSUME NEW c \in Contexts, Lock(c) PROVE TypeOK'
  BY <1>6, GotoFrame DEF Lock, At, TypeOK
<1>7. ASSUME NEW c \in Contexts, Push(c) PROVE TypeOK'
  <2>1. frame[c].instrument \in Instruments
    BY <1>7 DEF Push, At, TypeOK
  <2>2. queued' \in 0 .. FifoSize
    BY <1>7, RosterAssumption DEF Push, Full, TypeOK
  <2>3. Believe(told, out_packet) \in SUBSET Instruments
    BY DEF Believe, TypeOK, Packets
  <2>4. /\ told' \in SUBSET Instruments
        /\ orderly' \in BOOLEAN
    BY <1>7, <2>3 DEF Push, TypeOK
  <2>5. frame' \in [Contexts -> Frames]
        /\ \A d \in Contexts : frame'[d].pc # "scan" => frame'[d].instrument \in Instruments
    BY <1>7, <2>1, ReturnFrame DEF Push, TypeOK
  <2>6. QED
    BY <1>7, <2>2, <2>4, <2>5 DEF Push, AfterWrite, TypeOK
<1>8. ASSUME NEW c \in Contexts, Scan(c) PROVE TypeOK'
  <2>1. frame[c].instrument \in 0 .. NInstruments
    BY DEF TypeOK, Frames
  <2>2. CASE ScanDone(frame[c].instrument)
    <3>1. Leave(c, "idle") /\ announced' = announced
      BY <1>8, <2>2 DEF Scan
    <3>2. QED
      BY <1>8, <3>1, LeaveFrame DEF Scan, TypeOK
  <2>3. CASE ~ScanDone(frame[c].instrument)
    <3>1. frame[c].instrument \in Instruments
      BY <2>1, <2>3, RosterAssumption DEF ScanDone, Instruments
    <3>2. CASE frame[c].instrument \in connected_instruments
      <4>1. /\ Goto(c, "copy")
            /\ announced' = announced \union {frame[c].instrument}
        BY <1>8, <2>3, <3>2 DEF Scan
      <4>2. QED
        BY <1>8, <3>1, <4>1, GotoFrame DEF Scan, TypeOK
    <3>3. CASE frame[c].instrument \notin connected_instruments
      <4>1. Return(c) /\ announced' = announced
        BY <1>8, <2>3, <3>3 DEF Scan
      <4>2. QED
        BY <1>8, <3>1, <4>1, ReturnFrame DEF Scan, TypeOK
    <3>4. QED
      BY <3>2, <3>3
  <2>4. QED
    BY <2>2, <2>3
<1>9. ASSUME Authenticated \/ ListConnected PROVE TypeOK'
  <2>1. /\ frame' \in [Contexts -> Frames]
        /\ frame'["main"].pc = "scan"
        /\ \A d \in Contexts \ {"main"} : frame'[d] = frame[d]
    BY <1>9, ScanStartFrame DEF TypeOK
  <2>2. QED
    BY <1>9, <2>1 DEF Authenticated, ListConnected, TypeOK
<1>10. ASSUME NEW i \in Instruments, ListInstrument(i) PROVE TypeOK'
  BY <1>10, ListInstrumentFrame DEF ListInstrument, TypeOK, Contexts
<1>11. ASSUME StatusByte PROVE TypeOK'
  <2>1. /\ frame' \in [Contexts -> Frames]
        /\ frame'["main"].instrument \in Instruments
        /\ \A d \in Contexts \ {"main"} : frame'[d] = frame[d]
    BY <1>11, StatusByteFrame, IndexType DEF TypeOK
  <2>2. QED
    BY <1>11, <2>1 DEF StatusByte, TypeOK, Contexts
<1>12. ASSUME Mark PROVE TypeOK'
  BY <1>12, GotoFrame DEF Mark, AfterMark, At, TypeOK, Contexts
<1>13. ASSUME Rearm PROVE TypeOK'
  BY <1>13, LeaveFrame DEF Rearm, TypeOK, Contexts
<1>14. ASSUME Drain PROVE TypeOK'
  BY <1>14, RosterAssumption DEF Drain, TypeOK
<1>15. ASSUME AlarmFires PROVE TypeOK'
  <2>1. /\ frame' \in [Contexts -> Frames]
        /\ \A c \in Contexts : frame'[c].pc # "scan" => frame'[c].instrument \in Instruments
    BY <1>15, AlarmFrame, IndexType DEF TypeOK
  <2>2. QED
    BY <1>15, <2>1 DEF AlarmFires, TypeOK
<1>16. ASSUME Clear PROVE TypeOK'
  BY <1>16, LeaveFrame DEF Clear, TypeOK, Contexts
<1>17. ASSUME NEW d \in MidiDevices, MidiMount(d) PROVE TypeOK'
  BY <1>17, ConnectingFrame DEF MidiMount, TypeOK, Contexts
<1>18. ASSUME NEW d \in MidiDevices, MidiUnmount(d) PROVE TypeOK'
  BY <1>18, DisconnectingFrame DEF MidiUnmount, TypeOK, Contexts
<1>19. ASSUME NEW c \in {"main", "host"}, BeginWrite(c) \/ Writes(c) PROVE TypeOK'
  <2>1. wr_mutex' \in Contexts \union {"free"} /\ queued' \in 0 .. FifoSize
    BY <1>19, RosterAssumption DEF BeginWrite, Writes, LockOther, PushOther, AfterWrite,
       Full, TypeOK, Contexts
  <2>2. QED
    BY <1>19, <2>1, OtherFrame DEF TypeOK
<1>20. QED
  BY <1>0, <1>1, <1>2, <1>3, <1>4, <1>5, <1>6, <1>7, <1>8, <1>9, <1>10, <1>11,
     <1>12, <1>13, <1>14, <1>15, <1>16, <1>17, <1>18, <1>19
  DEF Next, Main, Alarm, Host, Roster, Environment, Contexts

\* Every variable keeps its type.  In particular the queue holds at most
\* FifoSize packets and no index runs past N_INSTRUMENTS.
THEOREM Typing == Spec => []TypeOK
<1>1. Init => TypeOK
  BY TypingInit
<1>2. TypeOK /\ [Next]_vars => TypeOK'
  BY TypingStep
<1>3. QED
  BY <1>1, <1>2, PTL DEF Spec

-----------------------------------------------------------------------------
(* A serial kit that is taken to be connected has a running timer.         *)

\* At the start no context is in a call and no kit has been heard.
LEMMA NestingInit == Init => NestingInv /\ TimerCoversSerial
<1> SUFFICES ASSUME Init PROVE NestingInv /\ TimerCoversSerial
  OBVIOUS
<1>1. \A c \in Contexts : frame[c].pc = "idle" /\ frame[c].then = "idle"
  BY DEF Init, Idle, Outside, Enter
<1>2. QED
  BY <1>1 DEF Init, NestingInv, TimerCoversSerial, Contexts

\* One iteration of the loop: it is over, passes an instrument that is not
\* connected, or begins to announce one that is.
LEMMA ScanCases ==
  ASSUME TypeOK, NestingInv, NEW c \in Contexts, Scan(c)
  PROVE  /\ c = "main" /\ frame[c].pc = "scan" /\ frame[c].then = "scan"
         /\ \/ /\ frame[c].instrument = NInstruments
               /\ Leave(c, "idle")
               /\ announced' = announced
            \/ /\ frame[c].instrument \in Instruments \ connected_instruments
               /\ Return(c)
               /\ announced' = announced
            \/ /\ frame[c].instrument \in Instruments \intersect connected_instruments
               /\ Goto(c, "copy")
               /\ announced' = announced \union {frame[c].instrument}
<1>1. frame[c].instrument \in 0 .. NInstruments
  BY DEF TypeOK, Frames
<1>2. ScanDone(frame[c].instrument) <=> frame[c].instrument = NInstruments
  BY <1>1, RosterAssumption DEF ScanDone
<1>3. frame[c].instrument # NInstruments => frame[c].instrument \in Instruments
  BY <1>1, RosterAssumption DEF Instruments
<1>4. QED
  BY <1>2, <1>3 DEF Scan, At, NestingInv

\* Every call returns to where its caller expects, and no step of the thread
\* or the interrupt leaves a connected kit without a timer.
LEMMA NestingStep ==
  ASSUME TypeOK, NestingInv, TimerCoversSerial, [Next]_vars
  PROVE  NestingInv' /\ TimerCoversSerial'
<1> USE DEF TypeOK, NestingInv, TimerCoversSerial, queueVars, serialVars, usbVars,
            Labels, Returns, Contexts, At
<1> USE IndexType
<1>0. CASE UNCHANGED vars
  BY <1>0 DEF vars
<1>1. ASSUME NEW c \in Contexts, Check(c) PROVE NestingInv' /\ TimerCoversSerial'
  BY <1>1, GotoFrame, ReturnFrame DEF Check
<1>2. ASSUME NEW c \in Contexts, Set(c) PROVE NestingInv' /\ TimerCoversSerial'
  BY <1>2, GotoFrame DEF Set
<1>3. ASSUME NEW c \in Contexts, State(c) PROVE NestingInv' /\ TimerCoversSerial'
  BY <1>3, GotoFrame, ReturnFrame DEF State
<1>4. ASSUME NEW c \in Contexts, Copy(c) \/ Tail(c) \/ Lock(c)
      PROVE  NestingInv' /\ TimerCoversSerial'
  BY <1>4, GotoFrame DEF Copy, Tail, Lock
<1>5. ASSUME NEW c \in Contexts, Push(c) PROVE NestingInv' /\ TimerCoversSerial'
  BY <1>5, ReturnFrame DEF Push
<1>6. ASSUME NEW c \in Contexts, Scan(c) PROVE NestingInv' /\ TimerCoversSerial'
  BY <1>6, ScanCases, GotoFrame, ReturnFrame, LeaveFrame DEF Scan
<1>7. ASSUME Authenticated \/ ListConnected PROVE NestingInv' /\ TimerCoversSerial'
  <2>1. /\ drums_connected' = drums_connected /\ alarm_armed' = alarm_armed
        /\ frame["main"].pc = "idle"
    BY <1>7 DEF Authenticated, ListConnected
  <2>2. QED
    BY <1>7, <2>1, ScanStartFrame
<1>8. ASSUME NEW i \in Instruments, ListInstrument(i) PROVE NestingInv' /\ TimerCoversSerial'
  BY <1>8, ListInstrumentFrame DEF ListInstrument
<1>9. ASSUME StatusByte PROVE NestingInv' /\ TimerCoversSerial'
  BY <1>9, StatusByteFrame DEF StatusByte
<1>10. ASSUME Mark PROVE NestingInv' /\ TimerCoversSerial'
  BY <1>10, GotoFrame DEF Mark, AfterMark
<1>11. ASSUME Rearm PROVE NestingInv' /\ TimerCoversSerial'
  BY <1>11, LeaveFrame DEF Rearm
<1>12. ASSUME Drain PROVE NestingInv' /\ TimerCoversSerial'
  BY <1>12 DEF Drain
<1>13. ASSUME AlarmFires PROVE NestingInv' /\ TimerCoversSerial'
  BY <1>13, AlarmFrame DEF AlarmFires
<1>14. ASSUME Clear PROVE NestingInv' /\ TimerCoversSerial'
  BY <1>14, LeaveFrame DEF Clear
<1>15. ASSUME NEW d \in MidiDevices, MidiMount(d) \/ MidiUnmount(d)
       PROVE  NestingInv' /\ TimerCoversSerial'
  <2>1. drums_connected' = drums_connected /\ alarm_armed' = alarm_armed
    BY <1>15 DEF MidiMount, MidiUnmount
  <2>2. QED
    BY <1>15, <2>1, MidiFrame
<1>16. ASSUME NEW c \in {"main", "host"}, BeginWrite(c) \/ Writes(c) PROVE NestingInv' /\ TimerCoversSerial'
  BY <1>16, OtherFrame
<1>17. QED
  BY <1>0, <1>1, <1>2, <1>3, <1>4, <1>5, <1>6, <1>7, <1>8, <1>9, <1>10, <1>11,
     <1>12, <1>13, <1>14, <1>15, <1>16
  DEF Next, Main, Alarm, Host, Roster, Environment

\* TimerCoversSerial holds in every reachable state, whatever the interrupt
\* interrupts: a kit that has been heard is always going to be dropped when it
\* falls silent.
THEOREM SerialTimer == Spec => []TimerCoversSerial
<1>1. Init => NestingInv /\ TimerCoversSerial
  BY NestingInit
<1>2. TypeOK /\ NestingInv /\ TimerCoversSerial /\ [Next]_vars
        => (NestingInv /\ TimerCoversSerial)'
  BY NestingStep
<1>3. QED
  BY <1>1, <1>2, Typing, PTL DEF Spec

-----------------------------------------------------------------------------
(* Every connected instrument is announced.                                *)

\* The step that sets a flag leaves its context before the read of
\* adapter_state, the step to RUNNING leaves the whole scan ahead: a connected
\* instrument that has not been announced is always still to be met by one.
LEMMA AnnounceStep ==
  ASSUME TypeOK, NestingInv, AnnounceInv, [Next]_vars
  PROVE  AnnounceInv'
<1> SUFFICES ASSUME running', NEW i \in Instruments,
                    i \in connected_instruments', i \notin announced'
             PROVE  WillScan(i)' \/ WillRead(i)'
  <2>1. connected_instruments' \subseteq Instruments
    BY TypingStep DEF TypeOK
  <2>2. QED
    BY <2>1 DEF AnnounceInv
<1>a. i \in Nat /\ NInstruments \in Nat /\ i < NInstruments
  BY RosterAssumption DEF Instruments
<1>b. \A c \in Contexts : frame[c].instrument \in Nat
  BY DEF TypeOK, Frames
<1> USE IndexType, <1>a, <1>b
<1> USE DEF TypeOK, WillScan, WillRead, queueVars, serialVars, usbVars, Labels, Returns,
            Contexts, At
<1> DEFINE Goal == WillScan(i)' \/ WillRead(i)'
<1>0. CASE UNCHANGED vars
  BY <1>0 DEF vars, AnnounceInv
<1>1. ASSUME NEW c \in Contexts, Check(c) PROVE Goal
  BY <1>1, GotoFrame, ReturnFrame DEF Check, AnnounceInv
<1>2. ASSUME NEW c \in Contexts, Set(c) PROVE Goal
  BY <1>2, GotoFrame DEF Set, AnnounceInv
<1>3. ASSUME NEW c \in Contexts, State(c) PROVE Goal
  BY <1>3, GotoFrame DEF State, AnnounceInv
<1>4. ASSUME NEW c \in Contexts, Copy(c) \/ Tail(c) \/ Lock(c) PROVE Goal
  <2>1. WillScan(i) \/ WillRead(i)
    BY <1>4 DEF Copy, Tail, Lock, AnnounceInv
  <2>2. \E pc \in {"tail", "lock", "push"} :
          frame[c].pc \in {"copy", "tail", "lock"} /\ Goto(c, pc)
    BY <1>4 DEF Copy, Tail, Lock
  <2>3. QED
    BY <2>1, <2>2, GotoFrame
<1>5. ASSUME NEW c \in Contexts, Push(c) PROVE Goal
  BY <1>5, ReturnFrame DEF Push, AnnounceInv, NestingInv
<1>6. ASSUME NEW c \in Contexts, Scan(c) PROVE Goal
  <2>1. i \in connected_instruments /\ running
    BY <1>6 DEF Scan
  <2>2. CASE i \notin announced
    <3>1. WillScan(i) \/ WillRead(i)
      BY <2>1, <2>2 DEF AnnounceInv
    <3>2. CASE Leave(c, "idle") /\ frame[c].instrument = NInstruments
      BY <1>6, <3>1, <3>2, ScanCases, LeaveFrame
    <3>3. CASE Return(c) /\ frame[c].instrument \in Instruments \ connected_instruments
      BY <1>6, <2>1, <3>1, <3>3, ScanCases, ReturnFrame DEF Instruments
    <3>4. CASE Goto(c, "copy") /\ announced' = announced \union {frame[c].instrument}
      BY <1>6, <3>1, <3>4, ScanCases, GotoFrame
    <3>5. QED
      BY <1>6, <3>2, <3>3, <3>4, ScanCases
  <2>3. QED
    BY <1>6, <2>2, ScanCases
<1>7. ASSUME Authenticated \/ ListConnected PROVE Goal
  <2>1. frame'["main"].pc = "scan" /\ frame'["main"].instrument = 0
    BY <1>7, ScanStartFrame
  <2>2. QED
    BY <2>1
<1>8. ASSUME NEW j \in Instruments, ListInstrument(j) PROVE Goal
  BY <1>8, ListInstrumentFrame DEF ListInstrument, AnnounceInv
<1>9. ASSUME StatusByte PROVE Goal
  BY <1>9, StatusByteFrame DEF StatusByte, AnnounceInv
<1>10. ASSUME Mark PROVE Goal
  BY <1>10, GotoFrame DEF Mark, AfterMark, AnnounceInv
<1>11. ASSUME Rearm PROVE Goal
  BY <1>11, LeaveFrame DEF Rearm, AnnounceInv
<1>12. ASSUME Drain PROVE Goal
  BY <1>12 DEF Drain, AnnounceInv
<1>13. ASSUME AlarmFires PROVE Goal
  <2>1. WillScan(i) \/ WillRead(i)
    BY <1>13 DEF AlarmFires, AnnounceInv
  <2>2. frame["alarm"].pc = "idle"
    BY <1>13 DEF AlarmFires
  <2>3. \A c \in Contexts \ {"alarm"} : frame'[c] = frame[c]
    BY <1>13, AlarmFrame
  <2>4. QED
    BY <2>1, <2>2, <2>3
<1>14. ASSUME Clear PROVE Goal
  BY <1>14, LeaveFrame DEF Clear, AnnounceInv
<1>15. ASSUME NEW d \in MidiDevices, MidiMount(d) \/ MidiUnmount(d) PROVE Goal
  <2>1. WillScan(i) \/ WillRead(i)
    BY <1>15 DEF MidiMount, MidiUnmount, AnnounceInv
  <2>2. frame["host"].pc = "idle"
    BY <1>15 DEF MidiMount, MidiUnmount
  <2>3. \A c \in Contexts \ {"host"} : frame'[c] = frame[c]
    BY <1>15, MidiFrame
  <2>4. QED
    BY <2>1, <2>2, <2>3
<1>16. ASSUME NEW c \in {"main", "host"}, BeginWrite(c) \/ Writes(c) PROVE Goal
  <2>1. WillScan(i) \/ WillRead(i)
    BY <1>16, OtherFrame DEF AnnounceInv
  <2>2. /\ frame[c].pc \in {"idle", "wait", "write"}
        /\ \A d \in Contexts \ {c} : frame'[d] = frame[d]
    BY <1>16, OtherFrame
  <2>3. QED
    BY <2>1, <2>2
<1>17. QED
  BY <1>0, <1>1, <1>2, <1>3, <1>4, <1>5, <1>6, <1>7, <1>8, <1>9, <1>10, <1>11,
     <1>12, <1>13, <1>14, <1>15, <1>16
  DEF Next, Main, Alarm, Host, Roster, Environment

\* NoSilentInstrument holds in every reachable state: connect_instrument and
\* handle_auth cannot both miss that the other is under way.
THEOREM NoInstrumentIsSilent == Spec => []NoSilentInstrument
<1>1. Init => AnnounceInv
  BY DEF Init, AnnounceInv
<1>2. TypeOK /\ NestingInv /\ AnnounceInv /\ [Next]_vars => AnnounceInv'
  BY AnnounceStep
<1>3. Init => NestingInv /\ TimerCoversSerial
  BY NestingInit
<1>4. TypeOK /\ NestingInv /\ TimerCoversSerial /\ [Next]_vars
        => (NestingInv /\ TimerCoversSerial)'
  BY NestingStep
<1>5. AnnounceInv => NoSilentInstrument
  BY DEF AnnounceInv, NoSilentInstrument, Quiet, InRoster, WillScan, WillRead, Contexts
<1>6. QED
  BY <1>1, <1>2, <1>3, <1>4, <1>5, Typing, PTL DEF Spec

-----------------------------------------------------------------------------
(* In an orderly history the console and the adapter agree.                *)

\* A context that is not building afterwards leaves the packet to the others.
LEMMA PacketKept ==
  ASSUME PacketInv, orderly' => orderly, out_packet' = out_packet,
         NEW c \in Contexts, frame'[c].pc \notin Building,
         \A d \in Contexts \ {c} : frame'[d] = frame[d]
  PROVE  PacketInv'
BY DEF PacketInv, Building, CommandOf

\* A context that is building, and is still, has changed nothing but its place.
LEMMA PacketMoved ==
  ASSUME PacketInv, orderly' => orderly, out_packet' = out_packet,
         NEW c \in Contexts, frame[c].pc \in Building,
         frame'[c].pc = "push" => frame[c].pc \in {"lock", "push"},
         frame'[c].pc = "lock" => out_packet.instrument = frame[c].instrument,
         frame'[c].instrument = frame[c].instrument,
         frame'[c].connect = frame[c].connect,
         \A d \in Contexts \ {c} : frame'[d] = frame[d]
  PROVE  PacketInv'
BY DEF PacketInv, Building, CommandOf

\* Unless two contexts build at once, the shared out_packet holds what the one
\* that builds has put there.
LEMMA PacketStep ==
  ASSUME TypeOK, NestingInv, PacketInv, [Next]_vars
  PROVE  PacketInv'
<1> USE IndexType
<1> USE DEF TypeOK, queueVars, serialVars, usbVars, Labels, Returns, Building, At, Contexts
<1>0. CASE UNCHANGED vars
  BY <1>0 DEF vars, PacketInv
<1>1. ASSUME NEW c \in Contexts, Check(c) PROVE PacketInv'
  <2>1. /\ frame'[c].pc \notin Building
        /\ \A d \in Contexts \ {c} : frame'[d] = frame[d]
    BY <1>1, GotoFrame, ReturnFrame DEF Check, Frames
  <2>2. QED
    BY <1>1, <2>1, PacketKept DEF Check
<1>2. ASSUME NEW c \in Contexts, Set(c) PROVE PacketInv'
  BY <1>2, GotoFrame DEF Set, PacketInv
<1>3. ASSUME NEW c \in Contexts, State(c) PROVE PacketInv'
  <2>1. /\ frame'[c].pc \notin Building
        /\ \A d \in Contexts \ {c} : frame'[d] = frame[d]
    BY <1>3, GotoFrame, ReturnFrame DEF State, Frames
  <2>2. QED
    BY <1>3, <2>1, PacketKept DEF State
<1>4. ASSUME NEW c \in Contexts, Copy(c) PROVE PacketInv'
  <2>1. /\ frame'[c].pc = "tail"
        /\ frame'[c].connect = frame[c].connect
        /\ \A d \in Contexts \ {c} : frame'[d] = frame[d]
    BY <1>4, GotoFrame DEF Copy
  <2>2. out_packet'.command = CommandOf(frame[c])
    BY <1>4 DEF Copy, Packets
  <2>3. orderly' => \A d \in Contexts \ {c} : frame[d].pc \notin Building
    BY <1>4 DEF Copy, SharesPacket
  <2>4. QED
    BY <2>1, <2>2, <2>3 DEF PacketInv, CommandOf
<1>5. ASSUME NEW c \in Contexts, Tail(c) PROVE PacketInv'
  <2>1. /\ frame[c].pc = "tail"
        /\ frame'[c].pc = "lock"
        /\ frame'[c].connect = frame[c].connect
        /\ frame'[c].instrument = frame[c].instrument
        /\ \A d \in Contexts \ {c} : frame'[d] = frame[d]
    BY <1>5, GotoFrame DEF Tail
  <2>2. /\ out_packet'.command = out_packet.command
        /\ out_packet'.instrument = frame[c].instrument
    BY <1>5 DEF Tail, Packets
  <2>3. orderly' => orderly /\ \A d \in Contexts \ {c} : frame[d].pc \notin Building
    BY <1>5 DEF Tail, SharesPacket
  <2>4. QED
    BY <2>1, <2>2, <2>3 DEF PacketInv, CommandOf
<1>6. ASSUME NEW c \in Contexts, Lock(c) PROVE PacketInv'
  BY <1>6, GotoFrame, PacketMoved DEF Lock
<1>7. ASSUME NEW c \in Contexts, Push(c) PROVE PacketInv'
  <2>1. /\ frame'[c].pc \notin Building
        /\ \A d \in Contexts \ {c} : frame'[d] = frame[d]
    BY <1>7, ReturnFrame DEF Push, Frames
  <2>2. QED
    BY <1>7, <2>1, PacketKept DEF Push
<1>8. ASSUME NEW c \in Contexts, Scan(c) PROVE PacketInv'
  <2>1. /\ frame'[c].pc \notin Building
        /\ \A d \in Contexts \ {c} : frame'[d] = frame[d]
    BY <1>8, ScanCases, GotoFrame, ReturnFrame, LeaveFrame
  <2>2. QED
    BY <1>8, <2>1, PacketKept DEF Scan
<1>9. ASSUME Authenticated \/ ListConnected PROVE PacketInv'
  <2>1. /\ frame'["main"].pc \notin Building
        /\ \A d \in Contexts \ {"main"} : frame'[d] = frame[d]
    BY <1>9, ScanStartFrame
  <2>2. QED
    BY <1>9, <2>1, PacketKept DEF Authenticated, ListConnected
<1>10. ASSUME NEW i \in Instruments, ListInstrument(i) PROVE PacketInv'
  <2>1. /\ frame'["main"].pc \notin Building
        /\ \A d \in Contexts \ {"main"} : frame'[d] = frame[d]
    BY <1>10, ConnectingFrame DEF ListInstrument
  <2>2. QED
    BY <1>10, <2>1, PacketKept DEF ListInstrument
<1>11. ASSUME StatusByte PROVE PacketInv'
  <2>1. /\ frame'["main"].pc \notin Building
        /\ \A d \in Contexts \ {"main"} : frame'[d] = frame[d]
    BY <1>11, StatusByteFrame
  <2>2. QED
    BY <1>11, <2>1, PacketKept DEF StatusByte
<1>12. ASSUME Mark PROVE PacketInv'
  BY <1>12, GotoFrame DEF Mark, AfterMark, PacketInv
<1>13. ASSUME Rearm PROVE PacketInv'
  BY <1>13, LeaveFrame DEF Rearm, PacketInv
<1>14. ASSUME Drain PROVE PacketInv'
  BY <1>14 DEF Drain, PacketInv
<1>15. ASSUME AlarmFires PROVE PacketInv'
  <2>1. \/ frame' = frame
        \/ /\ frame'["alarm"].pc \notin Building
           /\ \A d \in Contexts \ {"alarm"} : frame'[d] = frame[d]
    BY <1>15, AlarmFrame
  <2>2. CASE frame' = frame
    BY <1>15, <2>2 DEF AlarmFires, PacketInv, CommandOf
  <2>3. CASE /\ frame'["alarm"].pc \notin Building
             /\ \A d \in Contexts \ {"alarm"} : frame'[d] = frame[d]
    BY <1>15, <2>3, PacketKept DEF AlarmFires
  <2>4. QED
    BY <2>1, <2>2, <2>3
<1>16. ASSUME Clear PROVE PacketInv'
  BY <1>16, LeaveFrame DEF Clear, PacketInv
<1>17. ASSUME NEW d \in MidiDevices, MidiMount(d) PROVE PacketInv'
  BY <1>17, ConnectingFrame DEF MidiMount, PacketInv
<1>18. ASSUME NEW d \in MidiDevices, MidiUnmount(d) PROVE PacketInv'
  BY <1>18, DisconnectingFrame DEF MidiUnmount, PacketInv
<1>19. ASSUME NEW c \in {"main", "host"}, BeginWrite(c) \/ Writes(c) PROVE PacketInv'
  BY <1>19, OtherFrame, PacketKept
<1>20. QED
  BY <1>0, <1>1, <1>2, <1>3, <1>4, <1>5, <1>6, <1>7, <1>8, <1>9, <1>10, <1>11,
     <1>12, <1>13, <1>14, <1>15, <1>16, <1>17, <1>18, <1>19
  DEF Next, Main, Alarm, Host, Roster, Environment

\* A context that sends no notice afterwards, or still the same one, leaves
\* the notices true as long as no flag changes.
LEMMA NoticeKept ==
  ASSUME NoticeInv, orderly' => orderly, connected_instruments' = connected_instruments,
         NEW c \in Contexts,
         \/ frame'[c].pc \notin Committed
         \/ /\ frame[c].pc \in Committed
            /\ frame'[c].instrument = frame[c].instrument
            /\ frame'[c].connect = frame[c].connect,
         \A d \in Contexts \ {c} : frame'[d] = frame[d]
  PROVE  NoticeInv'
BY DEF NoticeInv

\* Unless a flag changes under a notice, a context on its way to the queue
\* carries the value the flag has.
LEMMA NoticeStep ==
  ASSUME TypeOK, NestingInv, NoticeInv, [Next]_vars
  PROVE  NoticeInv'
<1> USE IndexType
<1> USE DEF TypeOK, queueVars, serialVars, usbVars, Labels, Returns, Committed, At, Contexts
<1>0. CASE UNCHANGED vars
  BY <1>0 DEF vars, NoticeInv
<1>1. ASSUME NEW c \in Contexts, Check(c) PROVE NoticeInv'
  <2>1. /\ frame'[c].pc \notin Committed
        /\ \A d \in Contexts \ {c} : frame'[d] = frame[d]
    BY <1>1, GotoFrame, ReturnFrame DEF Check, Frames
  <2>2. QED
    BY <1>1, <2>1, NoticeKept DEF Check
<1>2. ASSUME NEW c \in Contexts, Set(c) PROVE NoticeInv'
  <2>1. /\ frame'[c].pc = "state"
        /\ frame'[c].instrument = frame[c].instrument
        /\ frame'[c].connect = frame[c].connect
        /\ \A d \in Contexts \ {c} : frame'[d] = frame[d]
    BY <1>2, GotoFrame DEF Set
  <2>2. frame[c].instrument \in connected_instruments' <=> frame[c].connect
    BY <1>2 DEF Set
  <2>3. \A i \in Instruments \ {frame[c].instrument} :
          i \in connected_instruments' <=> i \in connected_instruments
    BY <1>2 DEF Set
  <2>4. ASSUME orderly', NEW d \in Contexts \ {c}, frame[d].pc \in Committed
        PROVE  frame[d].connect <=> frame[d].instrument \in connected_instruments'
    <3>1. orderly /\ ~ChangesUnderNotice(c)
      BY <1>2, <2>4 DEF Set
    <3>2. frame[d].connect <=> frame[d].instrument \in connected_instruments
      BY <2>4, <3>1 DEF NoticeInv
    <3>3. frame[d].instrument \in Instruments
      BY <2>4
    <3>4. CASE frame[d].instrument = frame[c].instrument
      BY <2>2, <2>4, <3>1, <3>2, <3>4 DEF ChangesUnderNotice
    <3>5. QED
      BY <2>3, <3>2, <3>3, <3>4
  <2>5. QED
    BY <2>1, <2>2, <2>4 DEF NoticeInv
<1>3. ASSUME NEW c \in Contexts, State(c) PROVE NoticeInv'
  <2>1. \/ frame'[c].pc \notin Committed
        \/ /\ frame[c].pc \in Committed
           /\ frame'[c].instrument = frame[c].instrument
           /\ frame'[c].connect = frame[c].connect
    BY <1>3, GotoFrame, ReturnFrame DEF State, Frames
  <2>2. \A d \in Contexts \ {c} : frame'[d] = frame[d]
    BY <1>3, GotoFrame, ReturnFrame DEF State
  <2>3. QED
    BY <1>3, <2>1, <2>2, NoticeKept DEF State
<1>4. ASSUME NEW c \in Contexts, Copy(c) PROVE NoticeInv'
  BY <1>4, GotoFrame DEF Copy, NoticeInv
<1>5. ASSUME NEW c \in Contexts, Tail(c) PROVE NoticeInv'
  BY <1>5, GotoFrame DEF Tail, NoticeInv
<1>6. ASSUME NEW c \in Contexts, Lock(c) PROVE NoticeInv'
  BY <1>6, GotoFrame DEF Lock, NoticeInv
<1>7. ASSUME NEW c \in Contexts, Push(c) PROVE NoticeInv'
  <2>1. /\ frame'[c].pc \notin Committed
        /\ \A d \in Contexts \ {c} : frame'[d] = frame[d]
    BY <1>7, ReturnFrame DEF Push, Frames
  <2>2. QED
    BY <1>7, <2>1, NoticeKept DEF Push
<1>8. ASSUME NEW c \in Contexts, Scan(c) PROVE NoticeInv'
  <2>1. frame[c].connect
    BY <1>8, ScanCases DEF NestingInv
  <2>2. CASE Goto(c, "copy") /\ frame[c].instrument \in connected_instruments
    BY <1>8, <2>1, <2>2, GotoFrame DEF Scan, NoticeInv
  <2>3. CASE \/ Leave(c, "idle")
             \/ Return(c) /\ frame[c].instrument \in Instruments \ connected_instruments
    <3>1. /\ frame'[c].pc \notin Committed
          /\ \A d \in Contexts \ {c} : frame'[d] = frame[d]
      BY <1>8, <2>3, ScanCases, ReturnFrame, LeaveFrame
    <3>2. QED
      BY <1>8, <3>1, NoticeKept DEF Scan
  <2>4. QED
    BY <1>8, <2>2, <2>3, ScanCases
<1>9. ASSUME Authenticated \/ ListConnected PROVE NoticeInv'
  <2>1. /\ frame'["main"].pc \notin Committed
        /\ \A d \in Contexts \ {"main"} : frame'[d] = frame[d]
    BY <1>9, ScanStartFrame
  <2>2. QED
    BY <1>9, <2>1, NoticeKept DEF Authenticated, ListConnected
<1>10. ASSUME NEW i \in Instruments, ListInstrument(i) PROVE NoticeInv'
  <2>1. /\ frame'["main"].instrument = i
        /\ frame'["main"].connect
        /\ \A d \in Contexts \ {"main"} : frame'[d] = frame[d]
    BY <1>10, ConnectingFrame DEF ListInstrument
  <2>2. orderly' => orderly /\ i \in connected_instruments
    BY <1>10 DEF ListInstrument
  <2>3. connected_instruments' = connected_instruments
    BY <1>10 DEF ListInstrument
  <2>4. QED
    BY <2>1, <2>2, <2>3 DEF NoticeInv
<1>11. ASSUME StatusByte PROVE NoticeInv'
  <2>1. /\ frame'["main"].pc \notin Committed
        /\ \A d \in Contexts \ {"main"} : frame'[d] = frame[d]
    BY <1>11, StatusByteFrame
  <2>2. QED
    BY <1>11, <2>1, NoticeKept DEF StatusByte
<1>12. ASSUME Mark PROVE NoticeInv'
  BY <1>12, GotoFrame DEF Mark, AfterMark, NoticeInv
<1>13. ASSUME Rearm PROVE NoticeInv'
  BY <1>13, LeaveFrame DEF Rearm, NoticeInv
<1>14. ASSUME Drain PROVE NoticeInv'
  BY <1>14 DEF Drain, NoticeInv
<1>15. ASSUME AlarmFires PROVE NoticeInv'
  BY <1>15, DisconnectingFrame DEF AlarmFires, DisconnectSerial, NoticeInv
<1>16. ASSUME Clear PROVE NoticeInv'
  BY <1>16, LeaveFrame DEF Clear, NoticeInv
<1>17. ASSUME NEW d \in MidiDevices, MidiMount(d) PROVE NoticeInv'
  BY <1>17, ConnectingFrame DEF MidiMount, NoticeInv
<1>18. ASSUME NEW d \in MidiDevices, MidiUnmount(d) PROVE NoticeInv'
  BY <1>18, DisconnectingFrame DEF MidiUnmount, NoticeInv
<1>19. ASSUME NEW c \in {"main", "host"}, BeginWrite(c) \/ Writes(c) PROVE NoticeInv'
  BY <1>19, OtherFrame, NoticeKept
<1>20. QED
  BY <1>0, <1>1, <1>2, <1>3, <1>4, <1>5, <1>6, <1>7, <1>8, <1>9, <1>10, <1>11,
     <1>12, <1>13, <1>14, <1>15, <1>16, <1>17, <1>18, <1>19
  DEF Next, Main, Alarm, Host, Roster, Environment

\* Whatever a step does to one context, an instrument that no other context
\* and no flag is concerned with stays as the console knows it.
LEMMA ToldStep ==
  ASSUME TypeOK, NestingInv, PacketInv, NoticeInv, ToldInv, [Next]_vars
  PROVE  ToldInv'
<1> USE IndexType
<1> USE DEF TypeOK, queueVars, serialVars, usbVars, Labels, Returns, At, Contexts
<1>a. \A i \in Instruments : i \in Nat
  BY RosterAssumption DEF Instruments
<1>b. \A c \in Contexts : frame[c].instrument \in Nat
  BY DEF Frames
<1> DEFINE Kept == /\ running' = running
                   /\ told' = told
                   /\ connected_instruments' = connected_instruments
                   /\ orderly' => orderly
           Settled(i) == \/ WillNotify(i)
                         \/ i \in connected_instruments /\ WillScan(i)
                         \/ i \in told <=> i \in connected_instruments
\* A context moves from outside the notices and the scan to outside of them.
<1>c. ASSUME NEW c \in Contexts, Kept,
             frame[c].pc \in {"idle", "check", "set", "mark", "rearm", "clear", "wait", "write"},
             frame'[c].pc \in {"idle", "check", "set", "mark", "rearm", "clear", "wait", "write"},
             \A d \in Contexts \ {c} : frame'[d] = frame[d]
      PROVE  ToldInv'
  <2>1. \A d \in Contexts :
          \/ frame'[d] = frame[d]
          \/ /\ d = c
             /\ frame[d].pc \notin Committed \union {"scan"}
             /\ frame'[d].pc \notin Committed \union {"scan"}
    BY <1>c DEF Committed
  <2>2. \A i \in Instruments : (WillNotify(i)' <=> WillNotify(i))
                             /\ (WillScan(i)' <=> WillScan(i))
    BY <2>1 DEF WillNotify, WillScan, Committed, Contexts
  <2>3. QED
    BY <1>c, <2>1, <2>2 DEF ToldInv, Committed
\* A context goes on with the notice it has begun.
<1>d. ASSUME NEW c \in Contexts, Kept, running,
             frame[c].pc \in {"state", "copy", "tail", "lock"},
             frame'[c].pc \in {"copy", "tail", "lock", "push"},
             frame'[c].instrument = frame[c].instrument,
             frame'[c].then = frame[c].then,
             \A d \in Contexts \ {c} : frame'[d] = frame[d]
      PROVE  ToldInv'
  BY <1>d DEF ToldInv, WillNotify, WillScan, Committed
<1>0. CASE UNCHANGED vars
  BY <1>0 DEF vars, ToldInv, WillNotify, WillScan
<1>1. ASSUME NEW c \in Contexts, Check(c) PROVE ToldInv'
  <2>1. /\ frame[c].pc = "check"
        /\ frame'[c].pc \in {"set", "idle", "mark", "clear"}
        /\ \A d \in Contexts \ {c} : frame'[d] = frame[d]
    BY <1>1, GotoFrame, ReturnFrame DEF Check, Frames, NestingInv
  <2>2. QED
    BY <1>1, <2>1, <1>c DEF Check
<1>2. ASSUME NEW c \in Contexts, Set(c) PROVE ToldInv'
  <2>1. /\ frame[c].pc = "set"
        /\ frame[c].instrument \in Instruments
        /\ frame'[c].pc = "state"
        /\ frame'[c].instrument = frame[c].instrument
        /\ \A d \in Contexts \ {c} : frame'[d] = frame[d]
    BY <1>2, GotoFrame DEF Set
  <2>2. /\ running' = running
        /\ told' = told
        /\ orderly' => orderly
        /\ \A i \in Instruments \ {frame[c].instrument} :
             i \in connected_instruments' <=> i \in connected_instruments
    BY <1>2 DEF Set
  <2>3. ASSUME NEW i \in Instruments, orderly', running'
        PROVE  \/ WillNotify(i)'
               \/ i \in connected_instruments' /\ WillScan(i)'
               \/ i \in told' <=> i \in connected_instruments'
    <3>1. CASE i = frame[c].instrument
      BY <2>1, <3>1 DEF WillNotify, Committed
    <3>2. CASE i # frame[c].instrument
      <4>1. Settled(i)
        BY <2>2, <2>3 DEF ToldInv
      <4>2. WillNotify(i) => WillNotify(i)'
        BY <2>1, <3>2 DEF WillNotify, Committed
      <4>3. WillScan(i) => WillScan(i)'
        BY <2>1 DEF WillScan
      <4>4. QED
        BY <2>2, <3>2, <4>1, <4>2, <4>3
    <3>3. QED
      BY <3>1, <3>2
  <2>4. QED
    BY <2>1, <2>2, <2>3 DEF ToldInv
<1>3. ASSUME NEW c \in Contexts, State(c) PROVE ToldInv'
  <2>1. CASE running
    <3>1. /\ frame[c].pc = "state"
          /\ frame'[c].pc = "copy"
          /\ frame'[c].instrument = frame[c].instrument
          /\ frame'[c].then = frame[c].then
          /\ \A d \in Contexts \ {c} : frame'[d] = frame[d]
      BY <1>3, <2>1, GotoFrame DEF State
    <3>2. QED
      BY <1>3, <2>1, <3>1, <1>d DEF State
  <2>2. CASE ~running
    <3>1. /\ frame'[c].pc \in {"idle", "mark", "clear"}
          /\ \A d \in Contexts \ {c} : frame'[d] = frame[d]
      BY <1>3, <2>2, ReturnFrame DEF State, Frames, NestingInv
    <3>2. QED
      BY <1>3, <2>2, <3>1 DEF State, ToldInv
  <2>3. QED
    BY <2>1, <2>2
<1>4. ASSUME NEW c \in Contexts, Copy(c) \/ Tail(c) \/ Lock(c) PROVE ToldInv'
  <2>1. /\ frame[c].pc \in {"copy", "tail", "lock"}
        /\ frame'[c].pc \in {"tail", "lock", "push"}
        /\ frame'[c].instrument = frame[c].instrument
        /\ frame'[c].then = frame[c].then
        /\ \A d \in Contexts \ {c} : frame'[d] = frame[d]
    BY <1>4, GotoFrame DEF Copy, Tail, Lock
  <2>2. running
    BY <2>1 DEF ToldInv
  <2>3. Kept
    BY <1>4 DEF Copy, Tail, Lock
  <2>4. QED
    BY <2>1, <2>2, <2>3, <1>d
<1>5. ASSUME NEW c \in Contexts, Push(c) PROVE ToldInv'
  <2>1. /\ frame[c].pc = "push"
        /\ frame[c].instrument \in Instruments
        /\ \A d \in Contexts \ {c} : frame'[d] = frame[d]
    BY <1>5, ReturnFrame DEF Push
  <2>2. /\ running
        /\ running' = running
        /\ connected_instruments' = connected_instruments
    BY <1>5, <2>1 DEF Push, ToldInv
  <2>3. ASSUME NEW i \in Instruments, orderly'
        PROVE  \/ WillNotify(i)'
               \/ i \in connected_instruments' /\ WillScan(i)'
               \/ i \in told' <=> i \in connected_instruments'
    <3>1. orderly /\ told' = Believe(told, out_packet)
      BY <1>5, <2>3 DEF Push
    <3>2. /\ out_packet.command = CommandOf(frame[c])
          /\ out_packet.instrument = frame[c].instrument
      BY <2>1, <3>1 DEF PacketInv, Building
    <3>3. CASE i = frame[c].instrument
      <4>1. frame[c].connect <=> i \in connected_instruments
        BY <2>1, <3>1, <3>3 DEF NoticeInv, Committed
      <4>2. i \in told' <=> frame[c].connect
        BY <3>1, <3>2, <3>3 DEF Believe, CommandOf, CMD_ADD_PLAYER, CMD_DROP_PLAYER
      <4>3. QED
        BY <2>2, <4>1, <4>2
    <3>4. CASE i # frame[c].instrument
      <4>1. Settled(i)
        BY <2>2, <3>1 DEF ToldInv
      <4>2. WillNotify(i) => WillNotify(i)'
        BY <2>1, <3>4 DEF WillNotify
      <4>3. WillScan(i) => WillScan(i)'
        BY <1>5, <2>1, <3>4, <1>a, <1>b, ReturnFrame DEF Push, WillScan, NestingInv
      <4>4. i \in told' <=> i \in told
        BY <3>1, <3>2, <3>4 DEF Believe
      <4>5. QED
        BY <2>2, <4>1, <4>2, <4>3, <4>4
    <3>5. QED
      BY <3>3, <3>4
  <2>4. QED
    BY <2>2, <2>3 DEF ToldInv
<1>6. ASSUME NEW c \in Contexts, Scan(c) PROVE ToldInv'
  <2>1. /\ c = "main" /\ frame[c].pc = "scan"
        /\ \A d \in Contexts \ {c} : frame'[d] = frame[d]
    BY <1>6, ScanCases, GotoFrame, ReturnFrame, LeaveFrame
  <2>2. running /\ Kept
    BY <1>6, <2>1 DEF Scan, ToldInv
  <2>3. ASSUME NEW i \in Instruments, orderly
        PROVE  \/ WillNotify(i)'
               \/ i \in connected_instruments /\ WillScan(i)'
               \/ i \in told <=> i \in connected_instruments
    <3>1. Settled(i)
      BY <2>2, <2>3 DEF ToldInv
    <3>2. WillNotify(i) => WillNotify(i)'
      BY <2>1 DEF WillNotify, Committed
    <3>3. WillScan(i) /\ i \in connected_instruments => WillNotify(i)' \/ WillScan(i)'
      <4>1. CASE Leave(c, "idle") /\ frame[c].instrument = NInstruments
        BY <2>1, <4>1, RosterAssumption DEF WillScan, Instruments
      <4>2. CASE Return(c) /\ frame[c].instrument \in Instruments \ connected_instruments
        BY <1>6, <2>1, <4>2, <1>a, <1>b, ScanCases, ReturnFrame DEF WillScan
      <4>3. CASE Goto(c, "copy")
        <5>1. /\ frame'[c].pc = "copy"
              /\ frame'[c].instrument = frame[c].instrument
              /\ frame'[c].connect = frame[c].connect
              /\ frame'[c].then = frame[c].then
          BY <4>3, GotoFrame
        <5>2. frame[c].then = "scan"
          BY <2>1 DEF NestingInv
        <5>3. CASE frame[c].instrument = i
          BY <5>1, <5>3 DEF WillNotify, Committed
        <5>4. CASE frame[c].instrument # i
          BY <2>1, <5>1, <5>2, <5>4, <1>a, <1>b DEF WillScan
        <5>5. QED
          BY <5>3, <5>4
      <4>4. QED
        BY <1>6, <4>1, <4>2, <4>3, ScanCases
    <3>4. QED
      BY <3>1, <3>2, <3>3
  <2>4. QED
    BY <2>2, <2>3 DEF ToldInv
<1>7. ASSUME Authenticated \/ ListConnected PROVE ToldInv'
  <2>1. /\ frame["main"].pc = "idle"
        /\ frame'["main"].pc = "scan"
        /\ frame'["main"].instrument = 0
        /\ \A d \in Contexts \ {"main"} : frame'[d] = frame[d]
    <3>1. Connecting("main", "scan", 0, "scan")
      BY <1>7 DEF Authenticated, ListConnected
    <3>2. QED
      BY <1>7, <3>1, ConnectingFrame DEF Authenticated, ListConnected
  <2>2. ASSUME NEW i \in Instruments PROVE WillScan(i)'
    <3>1. 0 <= i
      BY <1>a
    <3>2. QED
      BY <2>1, <3>1 DEF WillScan
  <2>3. /\ running'
        /\ told' = told
        /\ connected_instruments' = connected_instruments
        /\ orderly' => orderly
    BY <1>7 DEF Authenticated, ListConnected
  <2>4. \A i \in Instruments : WillNotify(i) => WillNotify(i)'
    BY <2>1 DEF WillNotify, Committed
  <2>5. CASE ~running
    BY <2>2, <2>3, <2>5 DEF ToldInv
  <2>6. CASE running
    BY <2>2, <2>3, <2>4, <2>6 DEF ToldInv
  <2>7. QED
    BY <2>5, <2>6
<1>8. ASSUME NEW i \in Instruments, ListInstrument(i) PROVE ToldInv'
  <2>1. /\ frame["main"].pc = "idle"
        /\ \A d \in Contexts \ {"main"} : frame'[d] = frame[d]
        /\ running /\ Kept
    BY <1>8, ListInstrumentFrame DEF ListInstrument
  <2>2. QED
    BY <2>1 DEF ToldInv, WillNotify, WillScan, Committed
<1>9. ASSUME StatusByte PROVE ToldInv'
  <2>1. /\ frame["main"].pc = "idle"
        /\ frame'["main"].pc \in {"rearm", "check"}
        /\ \A d \in Contexts \ {"main"} : frame'[d] = frame[d]
    BY <1>9, StatusByteFrame DEF StatusByte
  <2>2. QED
    BY <1>9, <2>1, <1>c DEF StatusByte
<1>10. ASSUME Mark \/ Rearm PROVE ToldInv'
  <2>1. /\ frame["main"].pc \in {"mark", "rearm"}
        /\ frame'["main"].pc \in {"rearm", "idle"}
        /\ \A d \in Contexts \ {"main"} : frame'[d] = frame[d]
    BY <1>10, GotoFrame, LeaveFrame DEF Mark, AfterMark, Rearm
  <2>2. QED
    BY <1>10, <2>1, <1>c DEF Mark, Rearm
<1>11. ASSUME Drain PROVE ToldInv'
  BY <1>11 DEF Drain, ToldInv, WillNotify, WillScan
<1>12. ASSUME AlarmFires \/ Clear PROVE ToldInv'
  <2>1. /\ frame["alarm"].pc \in {"idle", "clear"}
        /\ frame'["alarm"].pc \in {"idle", "check"}
        /\ \A d \in Contexts \ {"alarm"} : frame'[d] = frame[d]
    BY <1>12, DisconnectingFrame, LeaveFrame DEF AlarmFires, DisconnectSerial, Clear
  <2>2. QED
    BY <1>12, <2>1, <1>c DEF AlarmFires, Clear
<1>13. ASSUME NEW d \in MidiDevices, MidiMount(d) \/ MidiUnmount(d) PROVE ToldInv'
  <2>1. /\ frame["host"].pc = "idle"
        /\ frame'["host"].pc \in {"idle", "check"}
        /\ \A c \in Contexts \ {"host"} : frame'[c] = frame[c]
    BY <1>13, ConnectingFrame, DisconnectingFrame DEF MidiMount, MidiUnmount
  <2>2. QED
    BY <1>13, <2>1, <1>c DEF MidiMount, MidiUnmount
<1>14. ASSUME NEW c \in {"main", "host"}, BeginWrite(c) \/ Writes(c) PROVE ToldInv'
  BY <1>14, OtherFrame, <1>c
<1>15. QED
  BY <1>0, <1>1, <1>2, <1>3, <1>4, <1>5, <1>6, <1>7, <1>8, <1>9, <1>10, <1>11,
     <1>12, <1>13, <1>14
  DEF Next, Main, Alarm, Host, Roster, Environment

\* RosterAgreement holds in every reachable state: in a history without the
\* hazards named there, the console's idea of the roster is the adapter's
\* whenever no context is inside the roster's functions.
THEOREM Agreement == Spec => []RosterAgreement
<1>1. Init => PacketInv /\ NoticeInv /\ ToldInv
  <2> SUFFICES ASSUME Init PROVE PacketInv /\ NoticeInv /\ ToldInv
    OBVIOUS
  <2>1. \A c \in Contexts : frame[c].pc = "idle"
    BY DEF Init, Idle, Outside, Enter
  <2>2. QED
    BY <2>1 DEF Init, PacketInv, NoticeInv, ToldInv, Building, Committed
<1>2. TypeOK /\ NestingInv /\ PacketInv /\ [Next]_vars => PacketInv'
  BY PacketStep
<1>3. TypeOK /\ NestingInv /\ NoticeInv /\ [Next]_vars => NoticeInv'
  BY NoticeStep
<1>4. TypeOK /\ NestingInv /\ PacketInv /\ NoticeInv /\ ToldInv /\ [Next]_vars => ToldInv'
  BY ToldStep
<1>5. Init => NestingInv /\ TimerCoversSerial
  BY NestingInit
<1>6. TypeOK /\ NestingInv /\ TimerCoversSerial /\ [Next]_vars
        => (NestingInv /\ TimerCoversSerial)'
  BY NestingStep
<1>7. TypeOK /\ ToldInv => RosterAgreement
  <2> SUFFICES ASSUME TypeOK, ToldInv, orderly, running, Quiet
               PROVE  told = connected_instruments
    BY DEF RosterAgreement
  <2>1. \A i \in Instruments : ~WillNotify(i) /\ ~WillScan(i)
    BY DEF Quiet, InRoster, WillNotify, WillScan, Committed, Contexts
  <2>2. \A i \in Instruments : i \in told <=> i \in connected_instruments
    BY <2>1 DEF ToldInv
  <2>3. told \subseteq Instruments /\ connected_instruments \subseteq Instruments
    BY DEF TypeOK
  <2>4. QED
    BY <2>2, <2>3
<1>8. QED
  BY <1>1, <1>2, <1>3, <1>4, <1>5, <1>6, <1>7, Typing, PTL DEF Spec

-----------------------------------------------------------------------------
(* No flag is left behind without a kit.                                   *)

\* Only the drums are ever connected or disconnected, each context in its own
\* direction.
LEMMA CallStep ==
  ASSUME TypeOK, NestingInv, CallInv, [Next]_vars
  PROVE  CallInv'
<1> USE IndexType, RosterAssumption
<1> USE DEF TypeOK, CallInv, queueVars, serialVars, usbVars, Labels, Returns, At, Contexts
<1>0. CASE UNCHANGED vars
  BY <1>0 DEF vars
<1>1. ASSUME NEW c \in Contexts, Check(c) PROVE CallInv'
  <2>1. CASE Return(c)
    BY <1>1, <2>1, ReturnFrame DEF Check, Frames
  <2>2. CASE Goto(c, "set")
    BY <1>1, <2>2, GotoFrame DEF Check
  <2>3. QED
    BY <1>1, <2>1, <2>2 DEF Check
<1>2. ASSUME NEW c \in Contexts, Set(c) PROVE CallInv'
  BY <1>2, GotoFrame DEF Set
<1>3. ASSUME NEW c \in Contexts, State(c) PROVE CallInv'
  BY <1>3, GotoFrame, ReturnFrame DEF State, Frames
<1>4. ASSUME NEW c \in Contexts, Copy(c) \/ Tail(c) \/ Lock(c) PROVE CallInv'
  BY <1>4, GotoFrame DEF Copy, Tail, Lock
<1>5. ASSUME NEW c \in Contexts, Push(c) PROVE CallInv'
  BY <1>5, ReturnFrame DEF Push, Frames
<1>6. ASSUME NEW c \in Contexts, Scan(c) PROVE CallInv'
  BY <1>6, ScanCases, GotoFrame, ReturnFrame, LeaveFrame DEF Scan
<1>7. ASSUME Authenticated \/ ListConnected PROVE CallInv'
  BY <1>7, ScanStartFrame DEF Authenticated, ListConnected
<1>8. ASSUME NEW i \in Instruments, ListInstrument(i) PROVE CallInv'
  BY <1>8, ListInstrumentFrame DEF ListInstrument
<1>9. ASSUME StatusByte PROVE CallInv'
  <2>1. CASE Leave("main", "rearm")
    BY <1>9, <2>1, LeaveFrame DEF StatusByte
  <2>2. CASE Connecting("main", "check", DRUMS, "mark")
    BY <1>9, <2>2, ConnectingFrame DEF StatusByte
  <2>3. QED
    BY <1>9, <2>1, <2>2 DEF StatusByte
<1>10. ASSUME Mark PROVE CallInv'
  BY <1>10, GotoFrame DEF Mark, AfterMark
<1>11. ASSUME Rearm PROVE CallInv'
  BY <1>11, LeaveFrame DEF Rearm
<1>12. ASSUME Drain PROVE CallInv'
  BY <1>12 DEF Drain
<1>13. ASSUME AlarmFires PROVE CallInv'
  BY <1>13, DisconnectingFrame DEF AlarmFires, DisconnectSerial
<1>14. ASSUME Clear PROVE CallInv'
  BY <1>14, LeaveFrame DEF Clear
<1>15. ASSUME NEW d \in MidiDevices, MidiMount(d) PROVE CallInv'
  <2>1. d # 0 /\ frame["host"].pc = "idle"
    BY <1>15 DEF MidiMount
  <2>2. QED
    BY <1>15, <2>1, ConnectingFrame DEF MidiMount
<1>16. ASSUME NEW d \in MidiDevices, MidiUnmount(d) PROVE CallInv'
  BY <1>16, DisconnectingFrame DEF MidiUnmount
<1>17. ASSUME NEW c \in {"main", "host"}, BeginWrite(c) \/ Writes(c) PROVE CallInv'
  BY <1>17, OtherFrame
<1>18. QED
  BY <1>0, <1>1, <1>2, <1>3, <1>4, <1>5, <1>6, <1>7, <1>8, <1>9, <1>10, <1>11,
     <1>12, <1>13, <1>14, <1>15, <1>16, <1>17
  DEF Next, Main, Alarm, Host, Roster, Environment

\* The flag keeps its reason when neither it, nor the kits, nor the two calls that
\* are reasons of their own change.
LEMMA SourceKept ==
  ASSUME SourceInv,
         DRUMS \in connected_instruments' => DRUMS \in connected_instruments,
         drums_connected' = drums_connected, midi_dev_addr' = midi_dev_addr,
         WillDrop => WillDrop' \/ DRUMS \notin connected_instruments',
         WillMark => WillMark',
         frame'["alarm"].pc \in Committed \union {"clear"}
           => \/ frame["alarm"].pc \in Committed \union {"clear"}
              \/ DRUMS \notin connected_instruments'
  PROVE  SourceInv'
BY DEF SourceInv

\* No step of any context takes the last reason from the flag without clearing it
\* or being about to.
LEMMA SourceStep ==
  ASSUME TypeOK, NestingInv, CallInv, SourceInv, [Next]_vars
  PROVE  SourceInv'
<1> USE IndexType, RosterAssumption
<1> USE DEF TypeOK, queueVars, serialVars, usbVars, Labels, Returns, At, Contexts, Committed
<1>0. CASE UNCHANGED vars
  BY <1>0 DEF vars, SourceInv, WillDrop, WillMark
<1>1. ASSUME NEW c \in Contexts, Check(c) PROVE SourceInv'
  <2>1. /\ connected_instruments' = connected_instruments
        /\ drums_connected' = drums_connected /\ midi_dev_addr' = midi_dev_addr
        /\ frame[c].pc = "check"
    BY <1>1 DEF Check
  <2>2. CASE Goto(c, "set")
    <3>1. /\ frame'[c].pc = "set" /\ frame'[c].then = frame[c].then
          /\ frame'[c].connect = frame[c].connect
          /\ \A d \in Contexts \ {c} : frame'[d] = frame[d]
      BY <2>2, GotoFrame
    <3>2. QED
      BY <2>1, <3>1, SourceKept DEF WillDrop, WillMark
  <2>3. CASE Return(c) /\ frame[c].connect = (DRUMS \in connected_instruments)
    <3>1. /\ frame[c].then # "scan" => frame'[c].pc = frame[c].then
          /\ \A d \in Contexts \ {c} : frame'[d] = frame[d]
      BY <2>3, <2>1, ReturnFrame DEF CallInv
    <3>2. CASE c = "main"
      <4>1. WillMark'
        BY <2>1, <3>1, <3>2 DEF CallInv, WillMark
      <4>2. QED
        BY <2>1, <3>1, <3>2, <4>1, SourceKept DEF WillDrop
    <3>3. CASE c = "alarm"
      <4>1. DRUMS \notin connected_instruments'
        BY <2>1, <2>3, <3>3 DEF CallInv
      <4>2. QED
        BY <4>1 DEF SourceInv
    <3>4. CASE c = "host"
      <4>1. WillDrop => DRUMS \notin connected_instruments'
        BY <2>1, <2>3, <3>4 DEF WillDrop
      <4>2. QED
        BY <2>1, <3>1, <3>4, <4>1, SourceKept DEF WillMark
    <3>5. QED
      BY <3>2, <3>3, <3>4
  <2>4. QED
    BY <1>1, <2>1, <2>2, <2>3 DEF Check, CallInv
<1>2. ASSUME NEW c \in Contexts, Set(c) PROVE SourceInv'
  <2>1. /\ frame[c].pc = "set" /\ frame[c].instrument = DRUMS
        /\ drums_connected' = drums_connected /\ midi_dev_addr' = midi_dev_addr
        /\ DRUMS \in connected_instruments' <=> frame[c].connect
    BY <1>2 DEF Set, CallInv
  <2>2. /\ frame'[c].pc = "state" /\ frame'[c].then = frame[c].then
        /\ \A d \in Contexts \ {c} : frame'[d] = frame[d]
    BY <1>2, GotoFrame DEF Set
  <2>3. CASE c = "main"
    <3>1. WillMark'
      BY <2>1, <2>2, <2>3 DEF CallInv, WillMark
    <3>2. QED
      BY <3>1 DEF SourceInv
  <2>4. CASE c = "alarm"
    BY <2>1, <2>4 DEF CallInv, SourceInv
  <2>5. CASE c = "host"
    <3>1. DRUMS \in connected_instruments' => midi_dev_addr' # 0
      BY <2>1, <2>5 DEF CallInv
    <3>2. QED
      BY <3>1 DEF SourceInv
  <2>6. QED
    BY <2>3, <2>4, <2>5
<1>3. ASSUME NEW c \in Contexts, State(c) \/ Copy(c) \/ Tail(c) \/ Lock(c) \/ Push(c)
      PROVE  SourceInv'
  <2>1. /\ connected_instruments' = connected_instruments
        /\ drums_connected' = drums_connected /\ midi_dev_addr' = midi_dev_addr
        /\ frame[c].pc \in Committed
    BY <1>3 DEF State, Copy, Tail, Lock, Push
  <2>2. /\ \/ /\ frame'[c].pc \in Committed
              /\ frame'[c].then = frame[c].then
           \/ frame[c].then # "scan" /\ frame'[c].pc = frame[c].then
           \/ frame[c].then = "scan" /\ frame'[c].pc = "scan"
        /\ \A d \in Contexts \ {c} : frame'[d] = frame[d]
    BY <1>3, GotoFrame, ReturnFrame DEF State, Copy, Tail, Lock, Push
  <2>3. QED
    BY <2>1, <2>2, SourceKept DEF WillDrop, WillMark
<1>4. ASSUME NEW c \in Contexts, Scan(c) PROVE SourceInv'
  <2>1. /\ connected_instruments' = connected_instruments
        /\ drums_connected' = drums_connected /\ midi_dev_addr' = midi_dev_addr
    BY <1>4 DEF Scan
  <2>2. /\ c = "main" /\ frame[c].pc = "scan"
        /\ \A d \in Contexts \ {c} : frame'[d] = frame[d]
    BY <1>4, ScanCases, GotoFrame, ReturnFrame, LeaveFrame
  <2>3. QED
    BY <2>1, <2>2, SourceKept DEF WillDrop, WillMark
<1>5. ASSUME \/ Authenticated \/ ListConnected \/ StatusByte
             \/ \E i \in Instruments : ListInstrument(i)
      PROVE  SourceInv'
  <2>1. /\ connected_instruments' = connected_instruments
        /\ drums_connected' = drums_connected /\ midi_dev_addr' = midi_dev_addr
        /\ frame["main"].pc = "idle"
    BY <1>5 DEF Authenticated, ListConnected, StatusByte, ListInstrument
  <2>2. \A d \in Contexts \ {"main"} : frame'[d] = frame[d]
    BY <1>5, ScanStartFrame, StatusByteFrame, ListInstrumentFrame
  <2>3. QED
    BY <2>1, <2>2, SourceKept DEF WillDrop, WillMark
<1>6. ASSUME Mark PROVE SourceInv'
  <2>1. drums_connected' /\ frame["alarm"].pc = "idle"
    BY <1>6 DEF Mark
  <2>2. frame'["alarm"] = frame["alarm"]
    BY <1>6, GotoFrame DEF Mark, AfterMark
  <2>3. QED
    BY <2>1, <2>2 DEF SourceInv
<1>7. ASSUME Rearm PROVE SourceInv'
  <2>1. /\ connected_instruments' = connected_instruments
        /\ drums_connected' = drums_connected /\ midi_dev_addr' = midi_dev_addr
        /\ frame["main"].pc = "rearm"
    BY <1>7 DEF Rearm
  <2>2. \A d \in Contexts \ {"main"} : frame'[d] = frame[d]
    BY <1>7, LeaveFrame DEF Rearm
  <2>3. QED
    BY <2>1, <2>2, SourceKept DEF WillDrop, WillMark
<1>8. ASSUME Drain PROVE SourceInv'
  BY <1>8, SourceKept DEF Drain, WillDrop, WillMark
<1>9. ASSUME AlarmFires PROVE SourceInv'
  <2>1. /\ connected_instruments' = connected_instruments
        /\ drums_connected' = drums_connected /\ midi_dev_addr' = midi_dev_addr
        /\ frame["alarm"].pc = "idle"
    BY <1>9 DEF AlarmFires
  <2>2. /\ frame'["alarm"].pc \in {"idle", "check"}
        /\ \A d \in Contexts \ {"alarm"} : frame'[d] = frame[d]
    BY <1>9, <2>1, AlarmFrame
  <2>3. QED
    BY <2>1, <2>2, SourceKept DEF WillDrop, WillMark
<1>10. ASSUME Clear PROVE SourceInv'
  <2>1. /\ connected_instruments' = connected_instruments
        /\ midi_dev_addr' = midi_dev_addr
        /\ frame["alarm"].pc = "clear"
    BY <1>10 DEF Clear
  <2>2. \A d \in Contexts \ {"alarm"} : frame'[d] = frame[d]
    BY <1>10, LeaveFrame DEF Clear
  <2>3. (WillDrop' <=> WillDrop) /\ (WillMark' <=> WillMark)
    BY <2>2 DEF WillDrop, WillMark
  <2>4. QED
    BY <2>1, <2>3 DEF SourceInv
<1>11. ASSUME NEW d \in MidiDevices, MidiMount(d) PROVE SourceInv'
  <2>1. midi_dev_addr' # 0
    BY <1>11 DEF MidiMount
  <2>2. QED
    BY <2>1 DEF SourceInv
<1>12. ASSUME NEW d \in MidiDevices, MidiUnmount(d) PROVE SourceInv'
  <2>1. CASE d = midi_dev_addr
    <3>1. Disconnecting("host", DRUMS, "idle")
      BY <1>12, <2>1 DEF MidiUnmount
    <3>2. WillDrop'
      BY <3>1, DisconnectingFrame DEF WillDrop
    <3>3. QED
      BY <3>2 DEF SourceInv
  <2>2. CASE d # midi_dev_addr
    BY <1>12, <2>2, SourceKept DEF MidiUnmount, WillDrop, WillMark
  <2>3. QED
    BY <2>1, <2>2
<1>13. ASSUME NEW c \in {"main", "host"}, BeginWrite(c) \/ Writes(c) PROVE SourceInv'
  BY <1>13, OtherFrame, SourceKept DEF WillDrop, WillMark
<1>14. QED
  BY <1>0, <1>1, <1>2, <1>3, <1>4, <1>5, <1>6, <1>7, <1>8, <1>9, <1>10, <1>11,
     <1>12, <1>13
  DEF Next, Main, Alarm, Host, Roster, Environment

\* NoGhostKit holds in every reachable state: whichever kits come and go, and
\* wherever the interrupt falls, the flag of the drums never outlives both.
THEOREM NoKitIsGhost == Spec => []NoGhostKit
<1>1. Init => CallInv /\ SourceInv
  <2> SUFFICES ASSUME Init PROVE CallInv /\ SourceInv
    OBVIOUS
  <2>1. \A c \in Contexts : frame[c].pc = "idle"
    BY DEF Init, Idle, Outside, Enter
  <2>2. QED
    BY <2>1 DEF Init, CallInv, SourceInv
<1>2. TypeOK /\ NestingInv /\ CallInv /\ [Next]_vars => CallInv'
  BY CallStep
<1>3. TypeOK /\ NestingInv /\ CallInv /\ SourceInv /\ [Next]_vars => SourceInv'
  BY SourceStep
<1>4. Init => NestingInv /\ TimerCoversSerial
  BY NestingInit
<1>5. TypeOK /\ NestingInv /\ TimerCoversSerial /\ [Next]_vars
        => (NestingInv /\ TimerCoversSerial)'
  BY NestingStep
<1>6. SourceInv => NoGhostKit
  BY DEF SourceInv, NoGhostKit, WillDrop, WillMark, Quiet, InRoster, Committed, Contexts
<1>7. QED
  BY <1>1, <1>2, <1>3, <1>4, <1>5, <1>6, Typing, PTL DEF Spec
=============================================================================
