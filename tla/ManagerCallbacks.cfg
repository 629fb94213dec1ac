SPECIFICATION FairSpec
CONSTANTS
  Ids = {i1}
  Mgr = Mgr
  Handler = Handler
  Workers = {w1, w2}
  Stoppers = {ctl}
  Terminators = {}
  Signals = {}
  Free = Free
  WakeCap = 4
  MaxRecords = 1
  MaxMgrRecords = 0
  MaxCallbacks = 3
INVARIANTS RequestPinned NoLostWakeup MessageHasTask
PROPERTIES MessagesServed CallsReturn WokenStopHonoured
CHECK_DEADLOCK FALSE
