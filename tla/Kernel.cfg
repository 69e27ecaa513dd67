SPECIFICATION Spec
CONSTANTS
  N = 7
  NTERM = 3
  BootInput = {}
  ShellExit = FALSE
  GarbagePids = {}
INVARIANTS
  RunningSlot
  Resumable
  HandOff
  TerminalOwners
PROPERTIES
  UniquePid
CHECK_DEADLOCK FALSE
