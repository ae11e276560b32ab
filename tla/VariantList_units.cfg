\* Two units, compiled in any order against a list that keeps changing.
CONSTANTS
  move = move
  heal = heal
  boost = boost
  CmdMove = CmdMove
  CmdHeal = CmdHeal
  Name <- Names
  Type <- Types
  TypeOf <- PayloadType
  Unit = {u1, u2}
  MaxList = 3
SPECIFICATION Spec
INVARIANTS
  PayloadFitsHandler
  TagFindsItsHandler
  NewReachesItsHandler
