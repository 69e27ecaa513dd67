SPECIFICATION BlinkSpec
CONSTANTS
  Columns = 3
  Rows = 1
  ArraySize = 3
  Short = 8
  Structs <- Some
INVARIANTS
  ListSound
  CharShown
