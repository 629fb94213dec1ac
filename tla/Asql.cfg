SPECIFICATION FairSpec
CONSTANTS
  MaxThreads = 2
  Transactions <- MCTransactions
  WithCallback = {"b", "c"}
  MayFail = {"a", "c"}
  MayCancel = {"a", "b"}
  Unsaved = TRUE
  Restarts = 2
INVARIANTS AllOrNothing NothingLostUnseen CalledOnce
PROPERTY Served
CHECK_DEADLOCK FALSE
