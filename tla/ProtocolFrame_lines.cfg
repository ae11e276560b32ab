\* Every line, with fields small enough to be cut.
CONSTANTS
  Char <- Chars
  Line <- Lines
  Blank <- Blanks
  CommandSize = 3
  ArgsSize = 3
  PayloadSize = 5
SPECIFICATION FrameSpec
INVARIANTS
  FrameTypeOK
  ErrorNumberIsRead
  LineIsShown
CHECK_DEADLOCK FALSE
