\* Every program over three records, careful or not; strdup may fail.
CONSTANTS
  Var = {v1, v2, v3}
  Block = {b1, b2, b3}
  Null = Null
  Clears = TRUE
SPECIFICATION Spec
INVARIANTS
  OneOwner
  UseAfterFreeNeedsSharing
  NullNeedsCause
  LeakNeedsForgetting
CHECK_DEADLOCK FALSE
