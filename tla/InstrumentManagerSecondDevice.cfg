SPECIFICATION Spec
CONSTANTS
  NInstruments = 1
  MidiDevices = {1, 2}
  FifoSize = 1
INVARIANT
  NoAddrMeansNoDevice
CHECK_DEADLOCK FALSE
