SPECIFICATION FairSpec
CONSTANTS
  FifoSize = 2
  ON_DELAY_MS = 1
  MaxGap = 1
  Wrap = 4
  MaxPackets = 4
  MaxResets = 1
INVARIANTS
  TypeOK
  HeldBounded
PROPERTIES
  Delivery
  DelayKept
  Flushes
