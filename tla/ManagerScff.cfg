SPECIFICATION Spec
CONSTANTS
  Ids = {i1, i2}
  Mgr = Mgr
  Handler = Handler
  Workers = {}
  Stoppers = {sigterm}
  Terminators = {sigusr1}
  Signals = {sigterm, sigusr1}
  Free = Free
  WakeCap = 2
  MaxRecords = 3
  MaxMgrRecords = 2
  MaxCallbacks = 0
INVARIANT QueuesInStep
PROPERTY TerminateAbandonsNothing
CHECK_DEADLOCK FALSE
