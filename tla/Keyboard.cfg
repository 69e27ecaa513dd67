SPECIFICATION FairSpec
CONSTANTS
  TERMINAL_QUANTITY = 2
  BUFFER_SIZE = 2
  Keys <- Typing
  NBytes <- Lengths
  TypeAhead = FALSE
  FullErase = FALSE
  BackgroundOutput = FALSE
INVARIANTS
  FrontTakes
PROPERTIES
  ImplementsLines
  EnterAnswered
