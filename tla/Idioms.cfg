\* Up to three functions applied to an order, and keys on both sides of 0.
CONSTANTS
  Id <- Ids
  Key <- Keys
  Function <- Functions
  MaxCalls = 3
SPECIFICATION IdiomSpec
INVARIANTS
  ChainStopsAtFirstError
  FailedOrderIsNotSold
  HitOrMissResolvesAlike
