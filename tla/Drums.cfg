SPECIFICATION Spec
CONSTANTS
  Pads = {kick, red}
  TRIGGER_HOLD_MS = 5
  ADAPTER_OUT_INTERVAL = 1
  MaxGap = 2
  Wrap = 9
INVARIANTS
  TypeOK
  NoSwallowedHit
  ReleaseShown
  ReportLatency
  HoldBounded
  ConsoleInStep
PROPERTY
  HeldLongEnough
