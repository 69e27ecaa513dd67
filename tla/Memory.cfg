SPECIFICATION Spec
CONSTANTS
  N = 4
  NTERM = 2
  Files = {"shell", "fish", "frame0", "rtc"}
  Shell = "shell"
  dentry <- MCdentry
INVARIANTS
  OwnPage
  UserReach
  ProgramsKept
  VideoStays
CHECK_DEADLOCK FALSE
