-------------------------- MODULE SerialMidiProofs --------------------------
(***************************************************************************)
(* Proofs about SerialMidi, for streams of any length over any values.     *)
(***************************************************************************)
EXTENDS SerialMidi, TLAPS

-----------------------------------------------------------------------------
(* The inductive invariant.                                                *)

\* The types of what the program keeps.
StateType ==
  /\ count \in 0 .. 2
  /\ note_on_message \in [0 .. 2 -> Bytes \union {ZeroByte}]
  /\ serial_timeout_ms \in {1000, 900000}
  /\ stream \in Seq(Bytes)
  /\ Len(stream) <= MaxBytes

\* count is 0 exactly when no note-on is open at the end of the stream.
\* Otherwise it is one more than the parity of the data bytes since the note-on
\* that is open, and the bytes of the message so far are in their places.
ParserInv ==
  /\ count = 0 => \A j \in 1 .. Len(stream) : ~OpenFrom(j, Len(stream))
  /\ count # 0 =>
       \E j \in 1 .. Len(stream) :
         /\ OpenFrom(j, Len(stream))
         /\ (Len(stream) - j) % 2 = count - 1
         /\ note_on_message[0] = stream[j]
         /\ count = 2 => note_on_message[1] = stream[Len(stream)]

-----------------------------------------------------------------------------
(* What a stream says.                                                     *)

\* At most one note-on is open at a place: a second one would have ended the
\* first.
LEMMA OneOpen ==
  ASSUME StateType, NEW k \in 1 .. Len(stream),
         NEW i \in 1 .. k, NEW j \in 1 .. k, OpenFrom(i, k), OpenFrom(j, k)
  PROVE  i = j
<1>1. Len(stream) \in Nat
  BY DEF StateType
<1>2. ~(i < j)
  BY <1>1 DEF OpenFrom, InvalidType
<1>3. ~(j < i)
  BY <1>1 DEF OpenFrom, InvalidType
<1> QED
  BY <1>1, <1>2, <1>3

\* The messages of the stream, one by one.
LEMMA SpokenOne ==
  ASSUME NEW h
  PROVE  h \in Spoken <=> \E j, k \in DOMAIN stream : Speaks(j, k) /\ h = Message(j, k)
<1>1. ASSUME NEW j \in DOMAIN stream, NEW k \in DOMAIN stream, Speaks(j, k),
             h = Message(j, k)
      PROVE  h \in Spoken
  <2> DEFINE p == <<j, k>>
  <2>1. p \in Places /\ p[1] = j /\ p[2] = k
    BY DEF Places
  <2>2. p \in {q \in Places : Speaks(q[1], q[2])}
    BY <1>1, <2>1
  <2> HIDE DEF p
  <2> QED
    BY <1>1, <2>1, <2>2 DEF Spoken
<1>2. ASSUME h \in Spoken
      PROVE  \E j, k \in DOMAIN stream : Speaks(j, k) /\ h = Message(j, k)
  <2>1. PICK p \in Places : Speaks(p[1], p[2]) /\ h = Message(p[1], p[2])
    BY <1>2 DEF Spoken
  <2>2. p[1] \in DOMAIN stream /\ p[2] \in DOMAIN stream
    BY DEF Places
  <2> QED
    BY <2>1, <2>2
<1> QED
  BY <1>1, <1>2

\* One byte more leaves the stream as it was.
LEMMA AppendStream ==
  ASSUME StateType, NEW b \in Bytes, stream' = Append(stream, b),
         NEW n, n = Len(stream)
  PROVE  /\ n \in Nat
         /\ Len(stream') = n + 1
         /\ DOMAIN stream = 1 .. n
         /\ DOMAIN stream' = 1 .. n + 1
         /\ \A i \in 1 .. n : stream'[i] = stream[i]
         /\ stream'[n + 1] = b
         /\ stream' \in Seq(Bytes)
BY DEF StateType

\* Inside the old stream nothing changes; the new byte keeps a note-on open if
\* it is data, and opens one if it is a note-on.
LEMMA AppendOpen ==
  ASSUME StateType, NEW b \in Bytes, stream' = Append(stream, b),
         NEW n, n = Len(stream)
  PROVE  /\ \A j \in 1 .. n : \A k \in j .. n : OpenFrom(j, k)' <=> OpenFrom(j, k)
         /\ \A j \in 1 .. n : OpenFrom(j, n + 1)' <=> OpenFrom(j, n) /\ InvalidType(b)
         /\ OpenFrom(n + 1, n + 1)' <=> b.kind = "NoteOn"
<1>1. /\ n \in Nat
      /\ \A i \in 1 .. n : stream'[i] = stream[i]
      /\ stream'[n + 1] = b
  BY AppendStream
<1>2. ASSUME NEW j \in 1 .. n, NEW k \in j .. n
      PROVE  OpenFrom(j, k)' <=> OpenFrom(j, k)
  <2>1. \A i \in j + 1 .. k : stream'[i] = stream[i]
    BY <1>1
  <2>2. stream'[j] = stream[j]
    BY <1>1
  <2> QED
    BY <2>1, <2>2 DEF OpenFrom
<1>3. ASSUME NEW j \in 1 .. n
      PROVE  OpenFrom(j, n + 1)' <=> OpenFrom(j, n) /\ InvalidType(b)
  <2>1. \A i : i \in j + 1 .. n + 1 <=> i \in j + 1 .. n \/ i = n + 1
    BY <1>1
  <2>2. \A i \in j + 1 .. n : stream'[i] = stream[i]
    BY <1>1
  <2>3. stream'[j] = stream[j]
    BY <1>1
  <2> QED
    BY <1>1, <2>1, <2>2, <2>3 DEF OpenFrom
<1>4. OpenFrom(n + 1, n + 1)' <=> b.kind = "NoteOn"
  BY <1>1 DEF OpenFrom
<1> QED
  BY <1>2, <1>3, <1>4

\* Data byte b, put after the n bytes of the stream, ends message h.
Ends(b, n, h) ==
  /\ InvalidType(b)
  /\ \E j \in 1 .. n :
       /\ OpenFrom(j, n)
       /\ (n + 1 - j) % 2 = 0
       /\ h = [at |-> n + 1, message |-> <<stream[j], stream[n], b>>]

\* What is said after one byte more: what was said before, and, if a note-on is
\* open and the byte is its second data byte or every second one after that,
\* the message that it ends.
LEMMA AppendSpoken ==
  ASSUME StateType, NEW b \in Bytes, stream' = Append(stream, b),
         NEW n, n = Len(stream), NEW h
  PROVE  h \in Spoken' <=> h \in Spoken \/ Ends(b, n, h)
<1>1. /\ n \in Nat
      /\ DOMAIN stream = 1 .. n
      /\ DOMAIN stream' = 1 .. n + 1
      /\ \A i \in 1 .. n : stream'[i] = stream[i]
      /\ stream'[n + 1] = b
  BY AppendStream
<1>2. \A j, k \in 1 .. n : (Speaks(j, k)' <=> Speaks(j, k))
                           /\ (Speaks(j, k) => Message(j, k)' = Message(j, k))
  BY <1>1, AppendOpen DEF Speaks, Message
<1>3. \A j \in 1 .. n : Speaks(j, n + 1)' <=>
        (n + 1 - j) % 2 = 0 /\ OpenFrom(j, n) /\ InvalidType(b)
  BY <1>1, AppendOpen DEF Speaks
<1>4. \A j \in 1 .. n : Message(j, n + 1)' =
        [at |-> n + 1, message |-> <<stream[j], stream[n], b>>]
  BY <1>1 DEF Message
<1>5. \A k \in 1 .. n + 1 : ~Speaks(n + 1, k)'
  BY <1>1 DEF Speaks
<1>6. h \in Spoken' <=> \E j, k \in 1 .. n + 1 : Speaks(j, k)' /\ h = Message(j, k)'
  <2>1. ASSUME NEW j \in 1 .. n + 1, NEW k \in 1 .. n + 1, Speaks(j, k)',
               h = Message(j, k)'
        PROVE  h \in Spoken'
    <3> DEFINE p == <<j, k>>
    <3>1. p \in Places' /\ p[1] = j /\ p[2] = k
      BY <1>1 DEF Places
    <3> HIDE DEF p
    <3> QED
      BY <2>1, <3>1 DEF Spoken
  <2>2. ASSUME h \in Spoken'
        PROVE  \E j, k \in 1 .. n + 1 : Speaks(j, k)' /\ h = Message(j, k)'
    <3>1. PICK p \in Places' : Speaks(p[1], p[2])' /\ h = Message(p[1], p[2])'
      BY <2>2 DEF Spoken
    <3>2. p[1] \in 1 .. n + 1 /\ p[2] \in 1 .. n + 1
      BY <1>1 DEF Places
    <3> QED
      BY <3>1, <3>2
  <2> QED
    BY <2>1, <2>2
<1>7. h \in Spoken <=> \E j, k \in 1 .. n : Speaks(j, k) /\ h = Message(j, k)
  BY <1>1, SpokenOne
<1>8. \A i : i \in 1 .. n + 1 <=> i \in 1 .. n \/ i = n + 1
  BY <1>1
<1>9. ASSUME h \in Spoken'
      PROVE  h \in Spoken \/ Ends(b, n, h)
  <2>1. PICK j \in 1 .. n + 1, k \in 1 .. n + 1 : Speaks(j, k)' /\ h = Message(j, k)'
    BY <1>6, <1>9
  <2>2. j \in 1 .. n
    BY <1>5, <1>8, <2>1
  <2>3. CASE k \in 1 .. n
    <3>1. Speaks(j, k) /\ h = Message(j, k)
      BY <1>2, <2>1, <2>2, <2>3
    <3> QED
      BY <1>7, <2>2, <2>3, <3>1
  <2>4. CASE k = n + 1
    BY <1>3, <1>4, <2>1, <2>2, <2>4 DEF Ends
  <2> QED
    BY <1>8, <2>3, <2>4
<1>10. ASSUME h \in Spoken
       PROVE  h \in Spoken'
  <2>1. PICK j \in 1 .. n, k \in 1 .. n : Speaks(j, k) /\ h = Message(j, k)
    BY <1>7, <1>10
  <2> QED
    BY <1>2, <1>6, <1>8, <2>1
<1>11. ASSUME Ends(b, n, h)
       PROVE  h \in Spoken'
  <2>1. PICK j \in 1 .. n : /\ OpenFrom(j, n)
                            /\ (n + 1 - j) % 2 = 0
                            /\ h = [at |-> n + 1, message |-> <<stream[j], stream[n], b>>]
    BY <1>11 DEF Ends
  <2>2. InvalidType(b) /\ n + 1 \in 1 .. n + 1
    BY <1>1, <1>11 DEF Ends
  <2> QED
    BY <1>3, <1>4, <1>6, <1>8, <2>1, <2>2
<1> QED
  BY <1>9, <1>10, <1>11

-----------------------------------------------------------------------------
(* The steps.                                                              *)

\* The inductive invariant: the property itself follows only with what count
\* and note_on_message mean.
IInv == StateType /\ ParserInv /\ HearsWhatIsSpoken

\* What a turn of the loop does to the variables, one case for each class of
\* byte and value of count.
LEMMA ReadCases ==
  ASSUME StateType, NEW b \in Bytes, Read(b)
  PROVE  /\ b.kind = "NoteOn" =>
              /\ count' = 1 /\ heard' = heard
              /\ note_on_message' = [note_on_message EXCEPT ![0] = b]
         /\ b.kind # "NoteOn" /\ (~InvalidType(b) \/ count = 0) =>
              /\ count' = 0 /\ heard' = heard
              /\ note_on_message' = note_on_message
         /\ InvalidType(b) /\ count = 1 =>
              /\ count' = 2 /\ heard' = heard
              /\ note_on_message' = [note_on_message EXCEPT ![1] = b]
         /\ InvalidType(b) /\ count = 2 =>
              /\ count' = 1
              /\ note_on_message' = [note_on_message EXCEPT ![2] = b]
              /\ heard' = heard \union
                   {[at |-> Len(stream) + 1,
                     message |-> <<note_on_message[0], note_on_message[1], b>>]}
<1>1. CASE b.kind = "NoteOn"
  <2>1. ~InvalidType(b)
    BY <1>1 DEF InvalidType
  <2>2. Counted(b) = 1
    BY <1>1, <2>1, Zenon DEF Counted
  <2>3. Stored(b) = [note_on_message EXCEPT ![0] = b]
    BY <1>1 DEF Stored
  <2> QED
    BY <1>1, <2>1, <2>2, <2>3 DEF Read, Complete
<1>2. CASE b.kind # "NoteOn" /\ (~InvalidType(b) \/ count = 0)
  <2>1. CASE ~InvalidType(b)
    <3>1. Counted(b) = 0
      BY <1>2, <2>1, Zenon DEF Counted, OtherStatus
    <3>2. Stored(b) = note_on_message
      BY <1>2, <2>1 DEF Stored
    <3> QED
      BY <1>2, <2>1, <3>1, <3>2 DEF Read, Complete
  <2>2. CASE InvalidType(b) /\ count = 0
    <3>1. ~(count > 0)
      BY <2>2
    <3>2. Counted(b) = 0
      BY <1>2, <2>2, <3>1, Zenon DEF Counted
    <3>3. Stored(b) = note_on_message
      BY <1>2, <3>1 DEF Stored
    <3> QED
      BY <1>2, <2>2, <3>2, <3>3 DEF Read, Complete
  <2> QED
    BY <1>2, <2>1, <2>2
<1>3. CASE InvalidType(b) /\ count = 1
  <2>0. b.kind # "NoteOn" /\ count > 0 /\ count + 1 = 2
    BY <1>3 DEF InvalidType
  <2>1. Counted(b) = 2
    BY <1>3, <2>0, Zenon DEF Counted
  <2>2. Stored(b) = [note_on_message EXCEPT ![1] = b]
    BY <1>3, <2>0 DEF Stored
  <2> QED
    BY <1>3, <2>0, <2>1, <2>2 DEF Read, Complete
<1>4. CASE InvalidType(b) /\ count = 2
  <2>0. b.kind # "NoteOn" /\ count > 0 /\ count + 1 = 3
    BY <1>4 DEF InvalidType
  <2>1. Counted(b) = 3
    BY <1>4, <2>0, Zenon DEF Counted
  <2>2. Stored(b) = [note_on_message EXCEPT ![2] = b]
    BY <1>4, <2>0 DEF Stored
  <2>3. Stored(b)[0] = note_on_message[0] /\ Stored(b)[1] = note_on_message[1]
        /\ Stored(b)[2] = b
    BY <2>2 DEF StateType
  <2> QED
    BY <1>4, <2>0, <2>1, <2>2, <2>3 DEF Read, Complete
<1> QED
  BY <1>1, <1>2, <1>3, <1>4 DEF StateType, InvalidType

\* The program's variables keep their types.
LEMMA ReadTypes ==
  ASSUME StateType, NEW b \in Bytes, Read(b)
  PROVE  StateType'
<1>1. /\ stream' = Append(stream, b)
      /\ Len(stream) < MaxBytes
      /\ serial_timeout_ms' \in {1000, 900000}
  BY DEF StateType, Read
<1>2. stream' \in Seq(Bytes) /\ Len(stream') <= MaxBytes
  BY <1>1, StreamAssumption DEF StateType
<1>3. /\ count' \in 0 .. 2
      /\ note_on_message' \in [0 .. 2 -> Bytes \union {ZeroByte}]
  BY ReadCases DEF StateType, InvalidType
<1> QED
  BY <1>1, <1>2, <1>3 DEF StateType

\* A status byte that is no note-on, or data outside a note-on: nothing is open
\* after it, and nothing is said.
LEMMA ReadNothing ==
  ASSUME IInv, NEW b \in Bytes, Read(b), b.kind # "NoteOn",
         ~InvalidType(b) \/ count = 0,
         NEW n, n = Len(stream)
  PROVE  ParserInv' /\ HearsWhatIsSpoken'
<1>1. /\ n \in Nat
      /\ Len(stream') = n + 1
      /\ stream' = Append(stream, b)
  BY AppendStream DEF IInv, Read
<1>2. count' = 0 /\ heard' = heard
  BY ReadCases DEF IInv
<1>3. \A j \in 1 .. n : ~(OpenFrom(j, n) /\ InvalidType(b))
  BY DEF IInv, ParserInv
<1>4. \A j \in 1 .. n + 1 : ~OpenFrom(j, n + 1)'
  <2>1. /\ \A j \in 1 .. n : OpenFrom(j, n + 1)' <=> OpenFrom(j, n) /\ InvalidType(b)
        /\ OpenFrom(n + 1, n + 1)' <=> b.kind = "NoteOn"
    BY <1>1, AppendOpen, SMT DEF IInv
  <2> QED
    BY <1>1, <1>3, <2>1, SMT
<1>5. ParserInv'
  BY <1>1, <1>2, <1>4 DEF ParserInv
<1>6. Spoken' = Spoken
  <2>1. ASSUME NEW h
        PROVE  h \in Spoken' <=> h \in Spoken
    <3>1. h \in Spoken' <=> h \in Spoken \/ Ends(b, n, h)
      BY <1>1, AppendSpoken, SMT DEF IInv
    <3>2. ~Ends(b, n, h)
      BY <1>1, <1>3 DEF Ends
    <3> QED
      BY <3>1, <3>2
  <2> QED
    BY <2>1
<1> QED
  BY <1>2, <1>5, <1>6, SMT DEF IInv, HearsWhatIsSpoken

\* A note-on opens at its own place, and says nothing yet.
LEMMA ReadNoteOn ==
  ASSUME IInv, NEW b \in Bytes, Read(b), b.kind = "NoteOn",
         NEW n, n = Len(stream)
  PROVE  ParserInv' /\ HearsWhatIsSpoken'
<1>1. /\ n \in Nat
      /\ Len(stream') = n + 1
      /\ stream' = Append(stream, b)
  BY AppendStream DEF IInv, Read
<1>2. /\ count' = 1 /\ heard' = heard
      /\ note_on_message'[0] = b
      /\ ~InvalidType(b)
  BY ReadCases DEF IInv, StateType, InvalidType
<1>3. ParserInv'
  <2>1. OpenFrom(n + 1, n + 1)' /\ stream'[n + 1] = b
    BY <1>1, AppendOpen, AppendStream, SMT DEF IInv
  <2>2. n + 1 \in 1 .. n + 1 /\ (n + 1 - (n + 1)) % 2 = 1 - 1
    BY <1>1
  <2> QED
    BY <1>1, <1>2, <2>1, <2>2, SMT DEF ParserInv
<1>4. Spoken' = Spoken
  <2>1. ASSUME NEW h
        PROVE  h \in Spoken' <=> h \in Spoken
    <3>1. h \in Spoken' <=> h \in Spoken \/ Ends(b, n, h)
      BY <1>1, AppendSpoken, SMT DEF IInv
    <3>2. ~Ends(b, n, h)
      BY <1>1, <1>2 DEF Ends
    <3> QED
      BY <3>1, <3>2
  <2> QED
    BY <2>1
<1> QED
  BY <1>2, <1>3, <1>4, SMT DEF IInv, HearsWhatIsSpoken

\* The first data byte of a message is stored in its place, and says nothing
\* yet: the one note-on that is open is an odd distance away.
LEMMA ReadFirst ==
  ASSUME IInv, NEW b \in Bytes, Read(b), InvalidType(b), count = 1,
         NEW n, n = Len(stream)
  PROVE  ParserInv' /\ HearsWhatIsSpoken'
<1>1. /\ n \in Nat
      /\ Len(stream') = n + 1
      /\ stream' = Append(stream, b)
  BY AppendStream DEF IInv, Read
<1>2. /\ count' = 2 /\ heard' = heard
      /\ note_on_message'[0] = note_on_message[0]
      /\ note_on_message'[1] = b
  BY ReadCases DEF IInv, StateType
<1>3. PICK j \in 1 .. n : /\ OpenFrom(j, n)
                          /\ (n - j) % 2 = 0
                          /\ note_on_message[0] = stream[j]
  BY <1>1 DEF IInv, ParserInv
<1>4. ParserInv'
  <2>1. OpenFrom(j, n + 1)' /\ stream'[j] = stream[j] /\ stream'[n + 1] = b
    BY <1>1, <1>3, AppendOpen, AppendStream, SMT DEF IInv
  <2>2. j \in 1 .. n + 1 /\ (n + 1 - j) % 2 = 2 - 1
    BY <1>1, <1>3
  <2> QED
    BY <1>1, <1>2, <1>3, <2>1, <2>2, SMT DEF ParserInv
<1>5. \A i \in 1 .. n : OpenFrom(i, n) => i = j
  <2>1. n \in 1 .. n /\ j \in 1 .. n /\ StateType
    BY <1>1 DEF IInv
  <2> QED
    BY <1>3, <2>1, OneOpen
<1>6. (n + 1 - j) % 2 # 0
  BY <1>1, <1>3
<1>7. Spoken' = Spoken
  <2>1. ASSUME NEW h
        PROVE  h \in Spoken' <=> h \in Spoken
    <3>1. h \in Spoken' <=> h \in Spoken \/ Ends(b, n, h)
      BY <1>1, AppendSpoken, SMT DEF IInv
    <3>2. ~Ends(b, n, h)
      BY <1>1, <1>5, <1>6 DEF Ends
    <3> QED
      BY <3>1, <3>2
  <2> QED
    BY <2>1
<1> QED
  BY <1>2, <1>4, <1>7, SMT DEF IInv, HearsWhatIsSpoken

\* The second data byte ends a message: it is the one that is said, as the one
\* note-on that is open is an even distance away, and the note-on stays open.
LEMMA ReadSecond ==
  ASSUME IInv, NEW b \in Bytes, Read(b), InvalidType(b), count = 2,
         NEW n, n = Len(stream)
  PROVE  ParserInv' /\ HearsWhatIsSpoken'
<1>1. /\ n \in Nat
      /\ Len(stream') = n + 1
      /\ stream' = Append(stream, b)
  BY AppendStream DEF IInv, Read
<1>2. /\ count' = 1
      /\ note_on_message'[0] = note_on_message[0]
      /\ heard' = heard \union
           {[at |-> n + 1, message |-> <<note_on_message[0], note_on_message[1], b>>]}
  BY ReadCases DEF IInv, StateType
<1>3. PICK j \in 1 .. n : /\ OpenFrom(j, n)
                          /\ (n - j) % 2 = 1
                          /\ note_on_message[0] = stream[j]
                          /\ note_on_message[1] = stream[n]
  BY <1>1 DEF IInv, ParserInv
<1>4. (n + 1 - j) % 2 = 0
  BY <1>1, <1>3
<1>5. /\ stream'[j] = stream[j]
      /\ stream'[n] = stream[n]
  BY <1>1, <1>3, AppendStream, SMT DEF IInv
<1>6. ParserInv'
  <2>1. OpenFrom(j, n + 1)'
    BY <1>1, <1>3, AppendOpen, SMT DEF IInv
  <2>2. j \in 1 .. n + 1 /\ (n + 1 - j) % 2 = 1 - 1
    BY <1>1, <1>4
  <2> QED
    BY <1>1, <1>2, <1>3, <1>5, <2>1, <2>2, SMT DEF ParserInv
<1>7. \A i \in 1 .. n : OpenFrom(i, n) => i = j
  <2>1. n \in 1 .. n /\ j \in 1 .. n /\ StateType
    BY <1>1 DEF IInv
  <2> QED
    BY <1>3, <2>1, OneOpen
<1> DEFINE r == [at |-> n + 1, message |-> <<stream[j], stream[n], b>>]
<1>8. Spoken' = Spoken \union {r}
  <2>1. ASSUME NEW h
        PROVE  h \in Spoken' <=> h \in Spoken \/ h = r
    <3>1. h \in Spoken' <=> h \in Spoken \/ Ends(b, n, h)
      BY <1>1, AppendSpoken, SMT DEF IInv
    <3>2. Ends(b, n, h) <=> h = r
      BY <1>3, <1>4, <1>7 DEF Ends
    <3> QED
      BY <3>1, <3>2
  <2> HIDE DEF r
  <2> QED
    BY <2>1
<1> QED
  BY <1>2, <1>3, <1>6, <1>8, SMT DEF IInv, HearsWhatIsSpoken

\* Every turn of the loop keeps the invariant.
LEMMA ReadStep ==
  ASSUME IInv, NEW b \in Bytes, Read(b)
  PROVE  IInv'
<1>1. StateType'
  BY ReadTypes DEF IInv
<1>2. PICK n : n = Len(stream)
  OBVIOUS
<1>3. ParserInv' /\ HearsWhatIsSpoken'
  <2>1. CASE b.kind = "NoteOn"
    BY <1>2, <2>1, ReadNoteOn
  <2>2. CASE b.kind # "NoteOn" /\ (~InvalidType(b) \/ count = 0)
    BY <1>2, <2>2, ReadNothing
  <2>3. CASE InvalidType(b) /\ count = 1
    BY <1>2, <2>3, ReadFirst
  <2>4. CASE InvalidType(b) /\ count = 2
    BY <1>2, <2>4, ReadSecond
  <2>5. count \in {0, 1, 2}
    BY DEF IInv, StateType
  <2> QED
    BY <2>1, <2>2, <2>3, <2>4, <2>5
<1> QED
  BY <1>1, <1>3, SMT DEF IInv

\* Nothing is read, open or said at first.
LEMMA InitHolds ==
  ASSUME Init
  PROVE  IInv
<1>1. StateType /\ Len(stream) = 0
  BY StreamAssumption DEF Init, StateType
<1>2. ParserInv
  BY <1>1 DEF Init, ParserInv
<1>3. Spoken = {}
  <2>1. Places = {}
    BY <1>1 DEF Init, Places
  <2> QED
    BY <2>1 DEF Spoken
<1> QED
  BY <1>1, <1>2, <1>3 DEF Init, IInv, HearsWhatIsSpoken

-----------------------------------------------------------------------------
(* The theorems.                                                           *)

\* The invariant holds in every state.
LEMMA Invariance == Spec => []IInv
<1>1. Init => IInv
  BY InitHolds
<1>2. IInv /\ [Next]_vars => IInv'
  <2> SUFFICES ASSUME IInv, [Next]_vars
               PROVE  IInv'
    OBVIOUS
  <2>1. ASSUME NEW b \in Bytes, Read(b)
        PROVE  IInv'
    BY <2>1, ReadStep
  <2>2. CASE UNCHANGED vars
    BY <2>2 DEF vars, IInv, StateType, ParserInv, OpenFrom, HearsWhatIsSpoken,
                Spoken, Places, Speaks, Message
  <2> QED
    BY <2>1, <2>2 DEF Next
<1> QED
  BY <1>1, <1>2, PTL DEF Spec

\* serial_midi_read returns exactly the note-on messages of the stream, however
\* long the stream is and whatever its bytes hold.
THEOREM HearsAll == Spec => []HearsWhatIsSpoken
<1>1. IInv => HearsWhatIsSpoken
  BY DEF IInv
<1> QED
  BY <1>1, Invariance, PTL

\* Every variable of serial_midi_read keeps its type; above all, count never
\* leads outside the three bytes of note_on_message.
THEOREM Typing == Spec => []TypeOK
<1>1. IInv => TypeOK
  <2> SUFFICES ASSUME IInv
               PROVE  TypeOK
    OBVIOUS
  <2>1. ASSUME NEW h \in Spoken
        PROVE  h \in Heard
    <3>1. PICK j \in DOMAIN stream, k \in DOMAIN stream : Speaks(j, k) /\ h = Message(j, k)
      BY SpokenOne
    <3>2. /\ Len(stream) \in Nat
          /\ DOMAIN stream = 1 .. Len(stream)
          /\ stream \in Seq(Bytes)
      BY DEF IInv, StateType
    <3>3. j < k
      BY <3>1 DEF Speaks
    <3>4. k - 1 \in 1 .. Len(stream)
      BY <3>2, <3>3
    <3>5. stream[j] \in Bytes /\ stream[k - 1] \in Bytes /\ stream[k] \in Bytes
      BY <3>2, <3>4
    <3> QED
      BY <3>1, <3>2, <3>5 DEF Message, Heard
  <2> QED
    BY <2>1 DEF IInv, StateType, HearsWhatIsSpoken, TypeOK
<1> QED
  BY <1>1, Invariance, PTL

=============================================================================
