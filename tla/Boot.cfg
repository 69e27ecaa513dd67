SPECIFICATION FairSpec
INVARIANTS
  HandlersReady
  NoneBlocked
PROPERTIES
  Served
  ShellsStart
CHECK_DEADLOCK FALSE
