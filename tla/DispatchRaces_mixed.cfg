\* One translation unit without the hooks dispatches to the same counter.
CONSTANTS
  NInc = 2
  NDec = 1
  Iterations = 2
  Amount = 1
  CreateFails = FALSE
  Hooked <- AllButOne
SPECIFICATION RaceSpec
INVARIANTS
  LockPaired
  OvertakenNeedsNoHook
  DriftNeedsRace
  CounterWithinCommands
