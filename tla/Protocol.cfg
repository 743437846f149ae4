CONSTANTS
  Writers = {w1, w2}
  Requests <- MCRequests
  RespCap = 1
  MaxWrites = 2
  Base = 3
  HeaderLen = 2
  Raw <- MCRaw
  MaxMsgs = 3
  Limits = {2, 3}
  Ints <- MCInts
  Words <- MCWords
  Rooted <- MCRooted
SPECIFICATION ProtocolSpec
CHECK_DEADLOCK FALSE
INVARIANTS
  ResponsesAddressed
  NumbersUsedOnce
  StreamsDecoded
  TextsAndFields
