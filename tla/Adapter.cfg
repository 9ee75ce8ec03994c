SPECIFICATION Spec
CONSTANTS
  NChunks = 3
  NInstruments = 2
  FifoSize = 4
INVARIANTS
  TypeOK
  OutPacketIntact
  PhaseOrder
  AtMostOneLateRaw
  ChunkOrder
