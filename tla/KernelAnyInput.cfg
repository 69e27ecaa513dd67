SPECIFICATION Spec
CONSTANTS
  N = 4
  NTERM = 2
  BootInput = {"command", "switch"}
  ShellExit = TRUE
  GarbagePids = {2, 4}
INVARIANTS
  TaskCount
CHECK_DEADLOCK FALSE
