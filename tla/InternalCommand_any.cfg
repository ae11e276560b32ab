\* Sequences of commands with any payload; the bound on them ends every run.
CONSTANTS
  Payload <- Decoded
  MaxCommands = 4
SPECIFICATION DeviceSpec
INVARIANTS
  StateIsLastCommand
CHECK_DEADLOCK FALSE
