\* Any sequence of commands, with numbers outside the store and names that
\* fill their array.
CONSTANTS
  SlotMax = 3
  NameMax = 3
  Char = {x, y}
  NUL = NUL
SPECIFICATION Spec
INVARIANTS
  TypeOK
  SelectedExists
  NamesTerminated
  StaleAnswerWasReplaced
  NoResidue
PROPERTIES
  BookSpec
