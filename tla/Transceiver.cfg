SPECIFICATION FairSpec
CONSTANTS
  NoConn = NoConn
  Conns = {c1, c2}
  FcgiIds = {1}
  MaxFd = 2
  HeaderSize = 2
  Contents = {0, 2}
  MaxRecords = 2
  Begins = {"begin"}
  Multiplex = FALSE
  EarlyClose = TRUE
  Rivals = TRUE
  Signals = TRUE
INVARIANTS WholeRecords GoesHome
PROPERTY RecordsHandedUp
CHECK_DEADLOCK FALSE
