SPECIFICATION Spec
CONSTANTS
  MaxPackets = 3
  MaxResets = 2
INVARIANT OnePacketEach
