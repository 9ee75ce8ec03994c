------------------------------- MODULE Drums -------------------------------
(***************************************************************************)
(* The drum pads (drums.c): a hit sets a pad, drum_task releases it after  *)
(* TRIGGER_HOLD_MS, and every change is reported to the console, at most   *)
(* one report each ADAPTER_OUT_INTERVAL ms.                                *)
(*                                                                         *)
(* now is board_millis(), an unsigned counter that wraps (at 2^32 in the   *)
(* program, at Wrap here); every elapsed time is a difference modulo Wrap. *)
(* Time passes between any two steps; MaxGap bounds it between two passes  *)
(* of drum_task, that is, it bounds one turn of the main loop.             *)
(***************************************************************************)
EXTENDS Naturals

CONSTANTS
  Pads,                  \* the outputs, OUT_KICK .. OUT_CYM_GREEN
  TRIGGER_HOLD_MS,
  ADAPTER_OUT_INTERVAL,
  MaxGap,
  Wrap

\* Two passes and an interval fit into the time a pad is held, and the
\* counter does not wrap while a pad is held.
ASSUME DrumsAssumption ==
  /\ TRIGGER_HOLD_MS \in Nat /\ ADAPTER_OUT_INTERVAL \in Nat
  /\ MaxGap \in Nat \ {0} /\ Wrap \in Nat
  /\ ADAPTER_OUT_INTERVAL + 2 * MaxGap <= TRIGGER_HOLD_MS
  /\ TRIGGER_HOLD_MS + MaxGap + 1 < Wrap

VARIABLES
  now,
  triggered,       \* the pads whose output state is triggered
  triggered_at,    \* per pad
  drum_input,      \* the pads that are 1 in input_pkt
  changed,         \* changed_flag
  triggered_time,  \* input_pkt's: when the last report was made
  gap,             \* time since the last pass
  age,             \* history: per triggered pad, the true time since its hit;
                   \* per other pad, while it Lingers, since its release
  waiting,         \* history: the true time since the last report, while changed
  unseen,          \* history: hits the console is to see as an edge, its pad having
                   \* been 0 there, in no report yet
  console,         \* history: the pads that are 1 in the last report queued
  refused          \* history: the queue was full when the last report was made

hist == <<age, waiting, unseen, console, refused>>
vars == <<now, triggered, triggered_at, drum_input, changed, triggered_time,
          gap, hist>>

Times == 0 .. Wrap - 1

Init ==
  /\ now \in Times
  /\ triggered = {}
  /\ triggered_at = [p \in Pads |-> 0]
  /\ drum_input = {}
  /\ changed = FALSE
  /\ triggered_time = 0
  /\ gap = 0
  /\ age = [p \in Pads |-> 0]
  /\ waiting = 0
  /\ unseen = {}
  /\ console = {}
  /\ refused = FALSE

-----------------------------------------------------------------------------
\* The console still shows a pad that has been released, in a report that was
\* not refused.
Lingers(p) == ~refused /\ p \in console \ triggered

\* A millisecond passes.
Tick ==
  /\ gap < MaxGap
  /\ now' = (now + 1) % Wrap
  /\ gap' = gap + 1
  /\ age' = [p \in Pads |-> IF p \in triggered \/ Lingers(p) THEN age[p] + 1 ELSE 0]
  /\ waiting' = IF changed THEN waiting + 1 ELSE 0
  /\ UNCHANGED <<triggered, triggered_at, drum_input, changed, triggered_time,
                 unseen, console, refused>>

\* Mutant: a pad that is still held is struck again.
EveryHit(p) == TRUE

Accepts(p) == p \notin triggered

\* note_on for a note that is mapped to p, louder than VELOCITY_THRESH; any
\* other note changes nothing.
NoteOn(p) ==
  /\ Accepts(p)
  /\ drum_input' = drum_input \union {p}
  /\ changed' = TRUE
  /\ triggered' = triggered \union {p}
  /\ triggered_at' = [triggered_at EXCEPT ![p] = now]
  /\ age' = [age EXCEPT ![p] = IF p \in triggered THEN @ ELSE 0]
  /\ unseen' = IF p \in console THEN unseen ELSE unseen \union {p}
  /\ UNCHANGED <<now, triggered_time, gap, waiting, console, refused>>

\* Mutant: a time that seems to lie ahead is taken to be the present.
NeverNegative(t) == IF now >= t THEN now - t ELSE 0

\* current_time - t in uint32_t.
Since(t) == (now + Wrap - t) % Wrap

\* Mutants: the two constants are confused.
ReleasedEarly(p) == Since(triggered_at[p]) > ADAPTER_OUT_INTERVAL
SlowReports      == Since(triggered_time) > TRIGGER_HOLD_MS

Released(p) == Since(triggered_at[p]) > TRIGGER_HOLD_MS

MayReport == Since(triggered_time) > ADAPTER_OUT_INTERVAL

\* Mutant: a release is not noticed as a change.
OnlyHitsChange(gone) == changed

Changes(gone) == changed \/ gone # {}

\* Mutant: a release leaves the pad's bit in the packet.
BitStays(gone) == drum_input

Remaining(gone) == drum_input \ gone

\* The rest of drum_task, after the notes have been read: release the pads
\* held long enough, then report if something changed and the interval is
\* over.  A full queue loses the report; the flag is cleared all the same.
Pass ==
  LET gone == {p \in triggered : Released(p)}
      shown == Remaining(gone)
  IN
  /\ triggered' = triggered \ gone
  /\ drum_input' = shown
  /\ gap' = 0
  /\ age' = [p \in Pads |-> IF p \in gone THEN 0 ELSE age[p]]
  /\ IF Changes(gone) /\ MayReport
     THEN /\ triggered_time' = now
          /\ changed' = FALSE
          /\ waiting' = 0
          /\ unseen' = unseen \ shown
          /\ \/ refused' = FALSE /\ console' = shown
             \/ refused' = TRUE /\ UNCHANGED console
     ELSE /\ changed' = Changes(gone)
          /\ UNCHANGED <<triggered_time, waiting, unseen, console, refused>>
  /\ UNCHANGED <<now, triggered_at>>

Next == Tick \/ Pass \/ \E p \in Pads : NoteOn(p)

Spec == Init /\ [][Next]_vars

-----------------------------------------------------------------------------
\* Every variable has its type, and the packet's bits are those of the
\* triggered outputs.
TypeOK ==
  /\ now \in Times
  /\ triggered \in SUBSET Pads
  /\ triggered_at \in [Pads -> Times]
  /\ drum_input = triggered
  /\ changed \in BOOLEAN
  /\ triggered_time \in Times
  /\ gap \in 0 .. MaxGap
  /\ age \in [Pads -> Nat]
  /\ waiting \in Nat
  /\ unseen \in SUBSET Pads
  /\ console \in SUBSET Pads
  /\ refused \in BOOLEAN

\* A hit that comes while the console shows its pad as released is in a report
\* before its pad is released again: the console sees the edge, unless the queue
\* refuses that report.  The pacing of the reports delays the hit and does not
\* swallow it, wherever the counter wraps, also when the last report lies a whole
\* turn of the counter back.
NoSwallowedHit == unseen \subseteq triggered

\* The other hits make no edge: the pad was released but the console shows it
\* still.  That lasts no longer than an interval and two passes, so only a hit
\* that follows so soon on the release is lost, unless the queue refused the
\* last report.
ReleaseShown ==
  \A p \in Pads : Lingers(p) => age[p] <= ADAPTER_OUT_INTERVAL + 2 * MaxGap

\* A change is in a report within an interval and two passes, in true time: one
\* pass may find the report not yet due, by as little as a millisecond.
ReportLatency == waiting <= ADAPTER_OUT_INTERVAL + 2 * MaxGap

\* A pad is never held longer than its time and a pass: no wrap of the
\* counter between the hit and the pass keeps it set.
HoldBounded == \A p \in triggered : age[p] <= TRIGGER_HOLD_MS + MaxGap

\* A pad is never released before its time, in true time.
HeldLongEnough ==
  [][\A p \in triggered \ triggered' : age[p] > TRIGGER_HOLD_MS]_vars

\* When nothing is left to report, the console shows the pads as they are,
\* unless the queue refused that report: then a pad stays as it was on the
\* console until the next change.
ConsoleInStep == ~changed => console = drum_input \/ refused

=============================================================================
