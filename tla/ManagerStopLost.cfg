SPECIFICATION FairSpec
CONSTANTS
  Ids = {i1}
  Mgr = Mgr
  Handler = Handler
  Workers = {}
  Stoppers = {ctl}
  Terminators = {}
  Signals = {}
  Free = Free
  WakeCap = 2
  MaxRecords = 1
  MaxMgrRecords = 0
  MaxCallbacks = 0
PROPERTY StopHonoured
CHECK_DEADLOCK FALSE
