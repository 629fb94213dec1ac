SPECIFICATION FairSpec
CONSTANTS
  None = None
  Admins = {a1}
  Guards = {g1}
  Commands = {"start", "stop", "restart"}
  PROC_NUM = 2
  MaxCommands = 4
  MaxCrashes = 4
  Overlap = FALSE
INVARIANTS AllReachable
PROPERTY Heals
CHECK_DEADLOCK FALSE
