\* Two increment and two decrement workers, all with the pthread hooks;
\* pthread_create may fail unnoticed.
CONSTANTS
  NInc = 2
  NDec = 2
  Iterations = 2
  Amount = 1
  CreateFails = TRUE
  Hooked <- AllHooked
SPECIFICATION FairSpec
INVARIANTS
  TypeOK
  CounterIsTotal
  MutexOutlivesWorkers
  ExitCodeIsBalance
PROPERTIES
  Termination
  AtomicSpec
