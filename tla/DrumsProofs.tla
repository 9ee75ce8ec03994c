----------------------------- MODULE DrumsProofs -----------------------------
(***************************************************************************)
(* Proofs about Drums, for any set of pads, any times that satisfy         *)
(* DrumsAssumption, and a counter that starts anywhere and wraps.          *)
(*                                                                         *)
(* The program sees time only modulo Wrap.  The invariants say when what   *)
(* it computes is the true time all the same: while a pad is held, and     *)
(* from the first pass that found a report not yet due.                    *)
(***************************************************************************)
EXTENDS Drums, TLAPS

-----------------------------------------------------------------------------
(* The inductive invariant.                                                *)

\* The time since its hit that drum_task computes for a pad is the true one, and
\* all but the time since the last pass fits into the hold.
AgeInv ==
  \A p \in triggered : /\ age[p] = Since(triggered_at[p])
                       /\ age[p] <= TRIGGER_HOLD_MS + gap

\* A change has waited for no pass yet; or a pass has come too early for it, and
\* since then the computed time since the last report grows with the waiting.
WaitInv ==
  changed => \/ waiting <= gap
             \/ /\ waiting <= Since(triggered_time) + MaxGap
                /\ Since(triggered_time) <= ADAPTER_OUT_INTERVAL + gap

\* A hit that no report has shown is itself a change that waits.
UnseenInv ==
  /\ ~changed => waiting = 0 /\ unseen = {}
  /\ unseen \subseteq triggered
  /\ \A p \in unseen : age[p] <= waiting

TimingInv == AgeInv /\ WaitInv /\ UnseenInv

\* A release that the console has not been shown is a change that waits, too.
LingerInv == \A p \in Pads : Lingers(p) => changed /\ age[p] <= waiting

-----------------------------------------------------------------------------
(* Elapsed times.                                                          *)

\* The difference of two counter values in unsigned arithmetic.
LEMMA Difference ==
  \A n, t \in Times : (n + Wrap - t) % Wrap = IF n >= t THEN n - t ELSE n + Wrap - t
<1> SUFFICES ASSUME NEW n \in Times, NEW t \in Times
             PROVE  (n + Wrap - t) % Wrap = IF n >= t THEN n - t ELSE n + Wrap - t
  OBVIOUS
<1> USE DrumsAssumption
<1>1. CASE n < t
  BY <1>1 DEF Times
<1>2. CASE n >= t
  BY <1>2 DEF Times
<1> QED
  BY <1>1, <1>2 DEF Times

\* It is zero at first, always less than a turn of the counter, and the
\* passing of a millisecond adds one to it as long as it does not complete one.
LEMMA SinceBounds ==
  ASSUME now \in Times, NEW t \in Times
  PROVE  Since(t) \in Times /\ Since(now) = 0
BY Difference, DrumsAssumption DEF Since, Times

LEMMA SinceTick ==
  ASSUME TypeOK, Tick, NEW t \in Times, Since(t) + 1 < Wrap
  PROVE  Since(t)' = Since(t) + 1
<1>1. now \in Times
  BY DEF TypeOK
<1>2. now' = IF now + 1 = Wrap THEN 0 ELSE now + 1
  BY <1>1, DrumsAssumption DEF Tick, Times
<1>3. now' \in Times
  BY <1>1, <1>2, DrumsAssumption DEF Times
<1>4. Since(t) = IF now >= t THEN now - t ELSE now + Wrap - t
  BY <1>1, Difference DEF Since
<1>5. Since(t)' = IF now' >= t THEN now' - t ELSE now' + Wrap - t
  BY <1>3, Difference DEF Since
<1> QED
  BY <1>1, <1>2, <1>4, <1>5, DrumsAssumption DEF Times

-----------------------------------------------------------------------------
(* Types.                                                                  *)

\* The statics of drums.c are of their types.
LEMMA TypingInit == Init => TypeOK
<1> SUFFICES ASSUME Init PROVE TypeOK
  OBVIOUS
<1>1. 0 \in Times /\ 0 \in 0 .. MaxGap
  BY DrumsAssumption DEF Times
<1>2. triggered_at \in [Pads -> Times] /\ age \in [Pads -> Nat]
  BY <1>1 DEF Init
<1> QED
  BY <1>1, <1>2 DEF Init, TypeOK

\* Every step keeps the types.
LEMMA TypingStep == TypeOK /\ [Next]_vars => TypeOK'
<1> SUFFICES ASSUME TypeOK, [Next]_vars PROVE TypeOK'
  OBVIOUS
<1> USE DrumsAssumption
<1>1. CASE Tick
  <2>1. now' \in Times
    BY <1>1 DEF Tick, TypeOK, Times
  <2>2. age' \in [Pads -> Nat]
    BY <1>1 DEF Tick, TypeOK
  <2> QED
    BY <1>1, <2>1, <2>2 DEF Tick, TypeOK
<1>2. ASSUME NEW p \in Pads, NoteOn(p) PROVE TypeOK'
  <2>1. age' \in [Pads -> Nat]
    BY <1>2 DEF NoteOn, TypeOK
  <2> QED
    BY <1>2, <2>1 DEF NoteOn, TypeOK
<1>3. CASE Pass
  <2>1. age' \in [Pads -> Nat]
    BY <1>3 DEF Pass, TypeOK
  <2>2. /\ triggered' \in SUBSET Pads /\ drum_input' = triggered'
        /\ gap' \in 0 .. MaxGap
    BY <1>3 DEF Pass, Remaining, TypeOK
  <2>3. /\ changed' \in BOOLEAN /\ triggered_time' \in Times /\ waiting' \in Nat
        /\ unseen' \in SUBSET Pads /\ console' \in SUBSET Pads /\ refused' \in BOOLEAN
    <3>1. CASE UNCHANGED <<triggered_time, waiting, unseen, console, refused>>
      BY <1>3, <3>1 DEF Pass, Changes, TypeOK
    <3>2. CASE /\ triggered_time' = now /\ changed' = FALSE /\ waiting' = 0
               /\ unseen' = unseen \ drum_input'
               /\ \/ refused' = FALSE /\ console' = drum_input'
                  \/ refused' = TRUE /\ console' = console
      BY <3>2, <2>2 DEF TypeOK
    <3> QED
      BY <1>3, <3>1, <3>2 DEF Pass
  <2> QED
    BY <1>3, <2>1, <2>2, <2>3 DEF Pass, TypeOK
<1>4. CASE UNCHANGED vars
  BY <1>4 DEF vars, hist, TypeOK
<1> QED
  BY <1>1, <1>2, <1>3, <1>4 DEF Next

\* Every variable keeps its type, and input_pkt has a 1 for exactly the outputs
\* that are triggered.
THEOREM Typing == Spec => []TypeOK
BY TypingInit, TypingStep, PTL DEF Spec

-----------------------------------------------------------------------------
(* How long a pad is held.                                                 *)

\* A pass releases what has been held longer than the hold; it keeps the rest,
\* which starts the next turn of the loop with at most the hold behind it.
LEMMA AgeStep == TypeOK /\ AgeInv /\ [Next]_vars => AgeInv'
<1> SUFFICES ASSUME TypeOK, AgeInv, [Next]_vars, NEW p \in triggered'
             PROVE  (age[p] = Since(triggered_at[p]) /\ age[p] <= TRIGGER_HOLD_MS + gap)'
  BY DEF AgeInv
<1> USE DrumsAssumption
<1>1. CASE Tick
  <2>1. p \in triggered /\ p \in Pads
    BY <1>1 DEF Tick, TypeOK
  <2>2. age[p] = Since(triggered_at[p]) /\ age[p] <= TRIGGER_HOLD_MS + gap
    BY <2>1 DEF AgeInv
  <2>3. /\ age'[p] = age[p] + 1 /\ triggered_at' = triggered_at
        /\ gap' = gap + 1 /\ gap' <= MaxGap /\ age[p] \in Nat /\ gap \in Nat
        /\ triggered_at[p] \in Times
    BY <1>1, <2>1 DEF Tick, TypeOK
  <2>4. Since(triggered_at[p]) + 1 < Wrap
    BY <2>2, <2>3
  <2>5. Since(triggered_at[p])' = Since(triggered_at[p]) + 1
    <3> DEFINE t == triggered_at[p]
    <3>1. t \in Times /\ Since(t) + 1 < Wrap
      BY <2>3, <2>4
    <3>2. Since(t) = (now + Wrap - t) % Wrap
      BY DEF Since
    <3>3. (now' + Wrap - t) % Wrap = Since(t) + 1
      BY <1>1, <3>1, SinceTick DEF Since
    <3> QED
      BY <2>3, <3>3 DEF Since
  <2> QED
    BY <2>2, <2>3, <2>5
<1>2. ASSUME NEW q \in Pads, NoteOn(q) PROVE (age[p] = Since(triggered_at[p]) /\ age[p] <= TRIGGER_HOLD_MS + gap)'
  <2>1. now \in Times /\ now' = now /\ gap' = gap /\ gap \in Nat
    BY <1>2 DEF NoteOn, TypeOK
  <2>2. CASE p = q
    <3>1. triggered_at'[p] = now /\ age'[p] = 0
      BY <1>2, <2>2 DEF NoteOn, Accepts, TypeOK
    <3>2. (now + Wrap - now) % Wrap = 0
      BY <2>1, SinceBounds DEF Since
    <3> QED
      BY <2>1, <3>1, <3>2 DEF Since
  <2>3. CASE p # q
    <3>1. p \in triggered /\ triggered_at'[p] = triggered_at[p] /\ age'[p] = age[p]
      BY <1>2, <2>3 DEF NoteOn, TypeOK
    <3> QED
      BY <2>1, <3>1 DEF AgeInv, Since
  <2> QED
    BY <2>2, <2>3
<1>3. CASE Pass
  <2>1. /\ p \in triggered /\ p \in Pads /\ ~Released(p)
        /\ age'[p] = age[p] /\ UNCHANGED <<now, triggered_at>> /\ gap' = 0
        /\ age[p] \in Nat
    BY <1>3 DEF Pass, TypeOK
  <2>2. age[p] = Since(triggered_at[p])
    BY <2>1 DEF AgeInv
  <2>3. age[p] <= TRIGGER_HOLD_MS
    BY <2>1, <2>2 DEF Released
  <2> QED
    BY <2>1, <2>2, <2>3 DEF Since
<1>4. CASE UNCHANGED vars
  BY <1>4 DEF vars, hist, AgeInv, Since
<1> QED
  BY <1>1, <1>2, <1>3, <1>4 DEF Next

LEMMA AgeInit == Init => AgeInv
BY DEF Init, AgeInv

\* A pad is never held longer than its time and a turn of the loop, wherever the
\* counter wraps.
THEOREM HeldNoLonger == Spec => []HoldBounded
<1>1. Init => TypeOK /\ AgeInv
  BY TypingInit, AgeInit
<1>2. TypeOK /\ AgeInv /\ [Next]_vars => (TypeOK /\ AgeInv)'
  BY TypingStep, AgeStep
<1>3. TypeOK /\ AgeInv => HoldBounded
  <2> SUFFICES ASSUME TypeOK, AgeInv, NEW p \in triggered
               PROVE  age[p] <= TRIGGER_HOLD_MS + MaxGap
    BY DEF HoldBounded
  <2> QED
    BY DrumsAssumption DEF TypeOK, AgeInv
<1> QED
  BY <1>1, <1>2, <1>3, PTL DEF Spec

\* Only a pass releases a pad, and the time it compares is the true one.
LEMMA ReleaseStep ==
  TypeOK /\ AgeInv /\ [Next]_vars
    => [\A p \in triggered \ triggered' : age[p] > TRIGGER_HOLD_MS]_vars
<1> SUFFICES ASSUME TypeOK, AgeInv, [Next]_vars, NEW p \in triggered \ triggered'
             PROVE  age[p] > TRIGGER_HOLD_MS
  OBVIOUS
<1>1. CASE Pass
  BY <1>1 DEF Pass, Released, AgeInv
<1> QED
  BY <1>1 DEF Next, Tick, NoteOn, vars

\* A pad is never released before its time is over, wherever the counter wraps.
THEOREM HeldNoShorter == Spec => HeldLongEnough
<1>1. Init => TypeOK /\ AgeInv
  BY TypingInit, AgeInit
<1>2. TypeOK /\ AgeInv /\ [Next]_vars => (TypeOK /\ AgeInv)'
  BY TypingStep, AgeStep
<1> QED
  BY <1>1, <1>2, ReleaseStep, PTL DEF Spec, HeldLongEnough

-----------------------------------------------------------------------------
(* How long a change waits.                                                *)

\* A pass that finds the report not yet due has computed a time within the
\* interval; from there on it grows with the waiting until it is beyond.
LEMMA WaitStep == TypeOK /\ WaitInv /\ UnseenInv /\ [Next]_vars => WaitInv'
<1> SUFFICES ASSUME TypeOK, WaitInv, UnseenInv, [Next]_vars, changed'
             PROVE  WaitInv'
  BY DEF WaitInv
<1> USE DrumsAssumption
<1>0. /\ now \in Times /\ triggered_time \in Times
      /\ gap \in 0 .. MaxGap /\ waiting \in Nat
  BY DEF TypeOK
<1>00. Since(triggered_time) \in Times
  BY <1>0, SinceBounds
<1>1. CASE Tick
  <2>1. /\ changed /\ waiting' = waiting + 1 /\ gap' = gap + 1
        /\ triggered_time' = triggered_time /\ gap < MaxGap
    BY <1>1 DEF Tick
  <2>2. CASE waiting <= gap
    BY <2>1, <2>2, <1>0 DEF WaitInv
  <2>3. CASE /\ waiting <= Since(triggered_time) + MaxGap
             /\ Since(triggered_time) <= ADAPTER_OUT_INTERVAL + gap
    <3>1. Since(triggered_time) + 1 < Wrap
      BY <2>1, <2>3, <1>0, <1>00 DEF Times
    <3>2. (now' + Wrap - triggered_time) % Wrap = Since(triggered_time) + 1
      BY <1>1, <1>0, <3>1, SinceTick DEF Since
    <3>3. Since(triggered_time)' = Since(triggered_time) + 1
      BY <2>1, <3>2 DEF Since
    <3> QED
      BY <2>1, <2>3, <1>0, <1>00, <3>3 DEF WaitInv, Times
  <2> QED
    BY <2>1, <2>2, <2>3 DEF WaitInv
<1>2. ASSUME NEW p \in Pads, NoteOn(p) PROVE WaitInv'
  <2>1. UNCHANGED <<now, triggered_time, gap, waiting>>
    BY <1>2 DEF NoteOn
  <2>2. CASE changed
    BY <2>1, <2>2 DEF WaitInv, Since
  <2>3. CASE ~changed
    BY <2>1, <2>3, <1>0 DEF WaitInv, UnseenInv
  <2> QED
    BY <2>2, <2>3
<1>3. CASE Pass
  <2>1. /\ ~MayReport /\ gap' = 0
        /\ UNCHANGED <<now, triggered_time, waiting>>
    BY <1>3 DEF Pass
  <2>2. Since(triggered_time) <= ADAPTER_OUT_INTERVAL
    BY <2>1, <1>00 DEF MayReport, Times
  <2>3. Since(triggered_time)' = Since(triggered_time)
    BY <2>1 DEF Since
  <2>4. waiting <= Since(triggered_time) + MaxGap
    <3>1. CASE changed
      BY <3>1, <1>0, <1>00 DEF WaitInv, Times
    <3>2. CASE ~changed
      BY <3>2, <1>0, <1>00 DEF UnseenInv, Times
    <3> QED
      BY <3>1, <3>2
  <2> QED
    BY <2>1, <2>2, <2>3, <2>4 DEF WaitInv
<1>4. CASE UNCHANGED vars
  BY <1>4 DEF vars, hist, WaitInv, Since
<1> QED
  BY <1>1, <1>2, <1>3, <1>4 DEF Next

\* A change is in a report after at most an interval and two turns.
LEMMA WaitBound == TypeOK /\ WaitInv /\ UnseenInv => ReportLatency
<1> SUFFICES ASSUME TypeOK, WaitInv, UnseenInv PROVE ReportLatency
  OBVIOUS
<1>1. gap \in 0 .. MaxGap /\ waiting \in Nat /\ Since(triggered_time) \in Times
  BY SinceBounds DEF TypeOK
<1>2. CASE changed
  BY <1>1, <1>2, DrumsAssumption DEF WaitInv, ReportLatency, Times
<1>3. CASE ~changed
  BY <1>1, <1>3, DrumsAssumption DEF UnseenInv, ReportLatency
<1> QED
  BY <1>2, <1>3

-----------------------------------------------------------------------------
(* No hit is swallowed.                                                    *)

\* A pass does not release a pad whose hit waits: it would have waited longer
\* than any change does.
LEMMA UnseenStep == TypeOK /\ TimingInv /\ [Next]_vars => UnseenInv'
<1> SUFFICES ASSUME TypeOK, AgeInv, WaitInv, UnseenInv, [Next]_vars PROVE UnseenInv'
  BY DEF TimingInv
<1> USE DrumsAssumption
<1>0. waiting \in Nat /\ age \in [Pads -> Nat] /\ triggered \subseteq Pads
  BY DEF TypeOK
<1>1. CASE Tick
  <2>1. \A p \in unseen : age'[p] = age[p] + 1
    BY <1>1, <1>0 DEF Tick, UnseenInv
  <2>2. unseen # {} => waiting' = waiting + 1
    BY <1>1 DEF Tick, UnseenInv
  <2> QED
    BY <1>0, <1>1, <2>1, <2>2 DEF Tick, UnseenInv
<1>2. ASSUME NEW p \in Pads, NoteOn(p) PROVE UnseenInv'
  <2>1. /\ changed' /\ waiting' = waiting /\ p \notin triggered
        /\ unseen' \subseteq unseen \union {p} /\ triggered' = triggered \union {p}
        /\ age' = [age EXCEPT ![p] = 0]
    BY <1>2 DEF NoteOn, Accepts
  <2>2. \A q \in unseen' : age'[q] <= waiting'
    BY <1>0, <2>1 DEF UnseenInv
  <2> QED
    BY <2>1, <2>2 DEF UnseenInv
<1>3. CASE Pass
  <2> DEFINE gone == {p \in triggered : Released(p)}
  <2>1. \A p \in unseen : p \notin gone
    <3> SUFFICES ASSUME NEW p \in unseen PROVE ~Released(p)
      OBVIOUS
    <3>1. waiting <= ADAPTER_OUT_INTERVAL + 2 * MaxGap
      BY WaitBound DEF ReportLatency
    <3>2. age[p] = Since(triggered_at[p]) /\ age[p] <= waiting /\ age[p] \in Nat
      BY <1>0 DEF AgeInv, UnseenInv
    <3> QED
      BY <1>0, <3>1, <3>2 DEF Released
  <2>2. triggered' = triggered \ gone
    BY <1>3 DEF Pass
  <2>3. unseen \subseteq triggered'
    BY <2>1, <2>2 DEF UnseenInv
  <2>4. \A p \in unseen : age'[p] = age[p]
    BY <1>0, <1>3, <2>1 DEF Pass, UnseenInv
  <2>5. CASE Changes(gone) /\ MayReport
    <3>1. ~changed' /\ waiting' = 0 /\ unseen' = unseen \ Remaining(gone)
      BY <1>3, <2>5 DEF Pass
    <3>2. Remaining(gone) = triggered'
      BY <2>2 DEF Remaining, TypeOK
    <3> QED
      BY <3>1, <3>2, <2>3 DEF UnseenInv
  <2>6. CASE ~(Changes(gone) /\ MayReport)
    <3>1. changed' = Changes(gone) /\ UNCHANGED <<waiting, unseen>>
      BY <1>3, <2>6 DEF Pass
    <3> QED
      BY <3>1, <2>3, <2>4 DEF UnseenInv, Changes
  <2> QED
    BY <2>5, <2>6
<1>4. CASE UNCHANGED vars
  BY <1>4 DEF vars, hist, UnseenInv
<1> QED
  BY <1>1, <1>2, <1>3, <1>4 DEF Next

\* What all three say together is inductive, once the types are.
LEMMA TimingInit == Init => TimingInv
BY DEF Init, TimingInv, AgeInv, WaitInv, UnseenInv

LEMMA TimingStep == TypeOK /\ TimingInv /\ [Next]_vars => TimingInv'
BY AgeStep, WaitStep, UnseenStep DEF TimingInv

LEMMA Timing == Spec => [](TypeOK /\ TimingInv)
BY TypingInit, TimingInit, TypingStep, TimingStep, PTL DEF Spec

\* A change is reported within an interval and two turns of the loop, in true
\* time, also when the last report lies whole turns of the counter back.
THEOREM ReportedInTime == Spec => []ReportLatency
<1>1. TypeOK /\ TimingInv => ReportLatency
  BY WaitBound DEF TimingInv
<1> QED
  BY <1>1, Timing, PTL

\* A hit that comes while the console shows its pad as released is in a report
\* before its pad is released again.
THEOREM EveryHitShown == Spec => []NoSwallowedHit
<1>1. TimingInv => NoSwallowedHit
  BY DEF TimingInv, UnseenInv, NoSwallowedHit
<1> QED
  BY <1>1, Timing, PTL

-----------------------------------------------------------------------------
(* What the console shows.                                                 *)

\* Only a pass that reports nothing leaves a pad lingering, and it sets the flag;
\* a report that is taken leaves none.
LEMMA LingerStep == TypeOK /\ UnseenInv /\ LingerInv /\ [Next]_vars => LingerInv'
<1> SUFFICES ASSUME TypeOK, UnseenInv, LingerInv, [Next]_vars,
                    NEW p \in Pads, Lingers(p)'
             PROVE  (changed /\ age[p] <= waiting)'
  BY DEF LingerInv
<1>0. waiting \in Nat /\ age \in [Pads -> Nat]
  BY DEF TypeOK
<1>1. CASE Tick
  <2>1. Lingers(p)
    BY <1>1 DEF Tick, Lingers
  <2>2. changed /\ age[p] <= waiting
    BY <2>1 DEF LingerInv
  <2>3. age'[p] = age[p] + 1 /\ waiting' = waiting + 1 /\ changed'
    BY <1>1, <2>1, <2>2 DEF Tick
  <2> QED
    BY <1>0, <2>2, <2>3
<1>2. ASSUME NEW q \in Pads, NoteOn(q) PROVE (changed /\ age[p] <= waiting)'
  <2>1. p # q /\ Lingers(p)
    BY <1>2 DEF NoteOn, Lingers
  <2>2. age'[p] = age[p] /\ waiting' = waiting /\ changed'
    BY <1>0, <1>2, <2>1 DEF NoteOn
  <2> QED
    BY <2>1, <2>2 DEF LingerInv
<1>3. CASE Pass
  <2> DEFINE gone == {q \in triggered : Released(q)}
  <2>1. CASE Changes(gone) /\ MayReport
    <3>1. refused' \/ console' = Remaining(gone)
      BY <1>3, <2>1 DEF Pass
    <3>2. Remaining(gone) = triggered'
      BY <1>3 DEF Pass, Remaining, TypeOK
    <3> QED
      BY <3>1, <3>2 DEF Lingers
  <2>2. CASE ~(Changes(gone) /\ MayReport)
    <3>1. /\ changed' = Changes(gone) /\ UNCHANGED <<waiting, console, refused>>
          /\ triggered' = triggered \ gone
          /\ age'[p] = IF p \in gone THEN 0 ELSE age[p]
      BY <1>3, <2>2 DEF Pass
    <3>2. CASE p \in gone
      <4>1. Changes(gone)
        BY <3>2 DEF Changes
      <4>2. age'[p] <= waiting' /\ UNCHANGED waiting
        BY <1>0, <3>1, <3>2
      <4> QED
        BY <3>1, <4>1, <4>2
    <3>3. CASE p \notin gone
      <4>1. Lingers(p)
        BY <3>1, <3>3 DEF Lingers
      <4> QED
        BY <3>1, <3>3, <4>1 DEF LingerInv, Changes
    <3> QED
      BY <3>2, <3>3
  <2> QED
    BY <2>1, <2>2
<1>4. CASE UNCHANGED vars
  BY <1>4 DEF vars, hist, LingerInv, Lingers
<1> QED
  BY <1>1, <1>2, <1>3, <1>4 DEF Next

\* The console shows a released pad for an interval and two turns of the loop at
\* most, unless a report was refused: whatever is struck later makes an edge.
THEOREM ReleasesShown == Spec => []ReleaseShown
<1>1. Init => LingerInv
  BY DEF Init, LingerInv, Lingers
<1>2. TypeOK /\ TimingInv /\ LingerInv /\ [Next]_vars => LingerInv'
  BY LingerStep DEF TimingInv
<1>3. TypeOK /\ TimingInv /\ LingerInv => ReleaseShown
  <2> SUFFICES ASSUME TypeOK, TimingInv, LingerInv, NEW p \in Pads, Lingers(p)
               PROVE  age[p] <= ADAPTER_OUT_INTERVAL + 2 * MaxGap
    BY DEF ReleaseShown
  <2>1. age[p] <= waiting /\ age[p] \in Nat /\ waiting \in Nat
    BY DEF LingerInv, TypeOK
  <2>2. waiting <= ADAPTER_OUT_INTERVAL + 2 * MaxGap
    BY WaitBound DEF TimingInv, ReportLatency
  <2> QED
    BY <2>1, <2>2, DrumsAssumption
<1> QED
  BY <1>1, <1>2, <1>3, Timing, PTL DEF Spec

\* A report shows the pads as they are; whatever changes them after it is a change
\* still to be reported.
LEMMA ConsoleStep == TypeOK /\ ConsoleInStep /\ [Next]_vars => ConsoleInStep'
<1> SUFFICES ASSUME TypeOK, ConsoleInStep, [Next]_vars PROVE ConsoleInStep'
  OBVIOUS
<1>1. CASE Tick
  BY <1>1 DEF Tick, ConsoleInStep
<1>2. ASSUME NEW p \in Pads, NoteOn(p) PROVE ConsoleInStep'
  BY <1>2 DEF NoteOn, ConsoleInStep
<1>3. CASE Pass
  BY <1>3 DEF Pass, Changes, Remaining, ConsoleInStep
<1>4. CASE UNCHANGED vars
  BY <1>4 DEF vars, hist, ConsoleInStep
<1> QED
  BY <1>1, <1>2, <1>3, <1>4 DEF Next

\* Unless the queue refused the last report, the console shows the pads as they
\* are whenever nothing is left to report.
THEOREM ConsoleShows == Spec => []ConsoleInStep
<1>1. Init => TypeOK /\ ConsoleInStep
  BY TypingInit DEF Init, ConsoleInStep
<1>2. TypeOK /\ ConsoleInStep /\ [Next]_vars => (TypeOK /\ ConsoleInStep)'
  BY TypingStep, ConsoleStep
<1> QED
  BY <1>1, <1>2, PTL DEF Spec

=============================================================================
