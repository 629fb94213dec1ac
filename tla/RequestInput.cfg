SPECIFICATION FairSpec
CONSTANTS
  MaxPost = 2
  Lengths = {0, 2, 3}
  MaxBody = 3
  Chunks = {1, 2}
  MaxCallbacks = 2
  Asynchronous = TRUE
INVARIANTS OneEnd
PROPERTIES ResponseSeesParameters BodyIntact 
CHECK_DEADLOCK FALSE
