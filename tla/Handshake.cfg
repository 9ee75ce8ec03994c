SPECIFICATION FairHandshakeSpec
CONSTANTS
  NChunks = 7
  NInstruments = 1
  FifoSize = 4
  Rounds = 3
  MaxEarly = 1
  MaxResets = 2
INVARIANTS
  HandshakeTypeOK
  InStep
  AnswerFits
PROPERTY GetsThrough
\* Once the adapter runs the handshake has nothing more to do.
CHECK_DEADLOCK FALSE
