SPECIFICATION Spec
CONSTANTS
  MaxPackets = 3
  MaxResets = 2
INVARIANTS
  TypeOK
  ConfiguredWhole
  InterfacesServed
  Listening
  OutInOrder
