\* Every sequence of calls, pointers kept and tags written by hand included.
CONSTANTS
  Var = {v, w}
  Variant = {i, s}
  BadTag = BadTag
  Tampers = TRUE
SPECIFICATION Spec
INVARIANTS
  TagTellsMember
  BrokenNeedsTampering
  MisreadNeedsMisuse
CHECK_DEADLOCK FALSE
