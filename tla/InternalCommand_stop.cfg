\* Does print_stop look at running?
CONSTANTS
  Payload <- Documented
  MaxCommands = 6
SPECIFICATION DeviceSpec
INVARIANTS
  StopDependsOnRunning
CHECK_DEADLOCK FALSE
