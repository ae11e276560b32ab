\* Handlers that dispatch back and forth, under a recursive and plain mutexes.
CONSTANTS
  ctxA = ctxA
  ctxB = ctxB
  ctxC = ctxC
  NoOwner = NoOwner
  Thread = {t1, t2, t3}
  Ctx = {ctxA, ctxB, ctxC}
  Kind <- FirstRecursive
  Calls <- Crossed
  Dispatches = 1
  MaxDepth = 4
SPECIFICATION FairSpec
INVARIANTS
  LocksMatchActivations
  LostOnlyToReentry
  StopsOnlyInACircle
PROPERTIES
  SelfDeadlockIsFinal
  FinishesOrCircles
CHECK_DEADLOCK FALSE
