SPECIFICATION Spec
CONSTANTS
  TERMINAL_QUANTITY = 2
  NUM_COLS = 2
  NUM_ROWS = 2
  TabStop = 1
  Chars <- Letters
  Writers = {1}
INVARIANTS
  
  BackspaceUndoes

  
