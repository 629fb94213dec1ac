SPECIFICATION ValuesSpec
CONSTANTS
  ParamNames = {"a"}
  Numbers = {0, 1, 2, 5, 17, 33}
  MaxLen = 1
  MaxLimit = 3
  MaxAdded = 2
  Byte = 4
  Word = 8
  DWord = 16
  QWord = 32
  Long = 32
  TenDigits = 18
  Multiple = 2
  FieldNames <- MCFieldNames
  FieldValues <- MCFieldValues
  PartNames = {"a", "b"}
  Bodies <- MCBodies
  Addresses <- MCAddresses
  Ids <- MCIds
  CookieNames = {97, 98}
  DataNames = {"n"}
  CookieStrings <- MCCookieStrings
  Integers64 <- MCIntegers
  Room = 19
  ByteSize = 256
  MaxCalls = 4
  Messages <- MCMessages
  Wrap = 65536
  Visitors = {"u", "w"}
  keepAlive = 1
  cleanupFrequency = 2
  MaxTime = 5
  MaxSessions = 2
INVARIANTS ValuesAsSent MessageOfFailure ExchangeKept SessionsFound ReadsBack
