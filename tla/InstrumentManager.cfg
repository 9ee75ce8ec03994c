SPECIFICATION FairSpec
CONSTANTS
  NInstruments = 2
  MidiDevices = {1, 2}
  FifoSize = 1
INVARIANTS
  TypeOK
  NoSilentInstrument
  RosterAgreement
  TimerCoversSerial
  NoGhostKit
PROPERTIES
  MutexReleased
  SilentKitDropped
\* The alarm interrupt can stop core 0 for good (Wedged), and core 1 after it.
CHECK_DEADLOCK FALSE
