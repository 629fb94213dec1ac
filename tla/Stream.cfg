SPECIFICATION Spec
CONSTANTS
  MinRoom = 17
  MaxRoom = 40
  MaxSize = 29
  MaxText = 4
  MaxWrite = 40
INVARIANTS RecordFramed NoSpecialRaw
PROPERTY EveryRecordCounts
CHECK_DEADLOCK FALSE
