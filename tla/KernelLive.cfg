SPECIFICATION FairSpec
CONSTANTS
  N = 6
  NTERM = 2
  BootInput = {}
  ShellExit = FALSE
  GarbagePids = {}
PROPERTIES
  RoundRobin
  OutputRotation
  ImplementsStacks
CHECK_DEADLOCK FALSE
