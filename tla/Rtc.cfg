SPECIFICATION FairSpec
CONSTANTS
  p1 = p1
  p2 = p2
  Procs <- Two
  Frequencies <- MCFrequencies
  NBytes <- Four
INVARIANTS
  ReadAfterInterrupt
  NoWedge
  SetsRate
  WritesRegisterA
  NoLostInterrupt
PROPERTIES
  ReadCompletes
