----------------------------- MODULE SerialMidi -----------------------------
(***************************************************************************)
(* The parser of the serial MIDI stream (serial_midi_read in midi.c): it   *)
(* picks the note-on messages out of the bytes of the UART, also those     *)
(* sent with running status, across any number of calls.                   *)
(*                                                                         *)
(* A byte is its class, as get_type_from_status tells it, and its value    *)
(* (for a note-on byte the channel).  A step is one turn of the loop.      *)
(* What the status bytes do to the roster and to the timer is in           *)
(* InstrumentManager.                                                      *)
(***************************************************************************)
EXTENDS Naturals, Sequences

CONSTANTS
  Values,    \* what a data byte, a note-on byte or an undefined byte can hold
  MaxBytes   \* bound: the length of the streams

ASSUME StreamAssumption == MaxBytes \in Nat

\* InvalidType is made of the data bytes and the three undefined status bytes.
Kinds == {"NoteOn", "data", "undefined", "ActiveSensing", "other"}
Bytes == [kind : Kinds, value : Values]

InvalidType(b) == b.kind \in {"data", "undefined"}

VARIABLES
  count,              \* bytes of the message so far, 0 outside a note-on
  note_on_message,    \* its bytes; index 0 is the status
  serial_timeout_ms,
  stream,             \* history: the bytes read
  heard               \* history: the messages returned, each with the place it ended

vars == <<count, note_on_message, serial_timeout_ms, stream, heard>>

\* A byte note_on_message has from its initialisation.
CONSTANT ZeroByte

Init ==
  /\ count = 0
  /\ note_on_message = [i \in 0 .. 2 |-> ZeroByte]
  /\ serial_timeout_ms = 900000
  /\ stream = <<>>
  /\ heard = {}

\* Mutants: a message is taken to be one byte longer than it is; the status
\* byte of another message does not end the note-on.
LongMessage(n) == n > 3
KeepsNoteOn(n) == n

Complete(n)    == n >= 3
OtherStatus(n) == 0

\* count after byte b has been taken in, the message not yet returned.
Counted(b) == CASE b.kind = "NoteOn" -> 1
                [] InvalidType(b)    -> IF count > 0 THEN count + 1 ELSE 0
                [] OTHER             -> OtherStatus(count)

\* note_on_message after byte b.
Stored(b) ==
  IF b.kind = "NoteOn" THEN [note_on_message EXCEPT ![0] = b]
  ELSE IF InvalidType(b) /\ count > 0 THEN [note_on_message EXCEPT ![count] = b]
  ELSE note_on_message

\* One turn of the loop; when the message is complete the call returns it, and
\* the caller, drum_task, calls again.
Read(b) ==
  LET n == Counted(b)
      m == Stored(b)
  IN
  /\ Len(stream) < MaxBytes
  /\ stream' = Append(stream, b)
  /\ note_on_message' = m
  /\ serial_timeout_ms' = IF b.kind = "ActiveSensing" THEN 1000 ELSE serial_timeout_ms
  /\ IF Complete(n)
     THEN /\ heard' = heard \union {[at |-> Len(stream) + 1,
                                     message |-> <<m[0], m[1], m[2]>>]}
          /\ count' = 1
     ELSE /\ count' = n
          /\ UNCHANGED heard

Next == \E b \in Bytes : Read(b)

Spec == Init /\ [][Next]_vars

-----------------------------------------------------------------------------
(* What a stream says, read as a whole.                                    *)

Places == (DOMAIN stream) \X (DOMAIN stream)

\* Position j opens a note-on that nothing but data has followed up to k.
OpenFrom(j, k) == /\ stream[j].kind = "NoteOn"
                  /\ \A i \in j + 1 .. k : InvalidType(stream[i])

Message(j, k) == [at |-> k, message |-> <<stream[j], stream[k - 1], stream[k]>>]

\* The note-on messages: every second data byte after the status ends one.
Speaks(j, k) == j < k /\ (k - j) % 2 = 0 /\ OpenFrom(j, k)

Spoken == {Message(p[1], p[2]) : p \in {q \in Places : Speaks(q[1], q[2])}}

Heard == [at : 1 .. Len(stream), message : Bytes \X Bytes \X Bytes]

\* Every variable has its type; the index at which a data byte is stored is
\* always one of note_on_message, because count is back at 0 or 1 before the
\* next byte comes.
TypeOK ==
  /\ count \in 0 .. 2
  /\ note_on_message \in [0 .. 2 -> Bytes \union {ZeroByte}]
  /\ serial_timeout_ms \in {1000, 900000}
  /\ stream \in Seq(Bytes)
  /\ Len(stream) <= MaxBytes
  /\ heard \in SUBSET Heard

\* The parser, which keeps three bytes and a counter, returns exactly the
\* note-on messages of the stream: none is missed, none invented, none made
\* of bytes of two messages, wherever one call ends and the next begins.
HearsWhatIsSpoken ==
  heard = Spoken

=============================================================================
