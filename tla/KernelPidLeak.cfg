SPECIFICATION Spec
CONSTANTS
  N = 7
  NTERM = 3
  BootInput = {}
  ShellExit = FALSE
  GarbagePids = {1, 2, 3, 4, 5, 6, 7}
PROPERTIES
  UniquePid
CHECK_DEADLOCK FALSE
