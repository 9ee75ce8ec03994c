SPECIFICATION Spec
CONSTANTS
  Values = {a, b}
  MaxBytes = 6
  ZeroByte = ZeroByte
INVARIANTS
  TypeOK
  HearsWhatIsSpoken
CHECK_DEADLOCK FALSE
