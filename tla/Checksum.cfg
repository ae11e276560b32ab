\* All lines of up to 4 bytes out of 8, an accumulator that wraps at 512.
CONSTANTS
  Byte <- SomeBytes
  MaxLen = 4
  WordSize = 512
SPECIFICATION Spec
INVARIANTS
  ChecksumIsSum
  DetectsOneByte
CHECK_DEADLOCK FALSE
