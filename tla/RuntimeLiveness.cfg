CONSTANTS
  stream = stream
  cancel = cancel
  get = get
  boot = boot
  control = control
  Requests = {stream, cancel, control}
  Streams = {stream}
  Failing = {}
  ReqCap = 1
  RespCap = 1
  MaxSend = 1
  Req <- MCReq
  IDs = {1, 3, 4, 7}
  Major = 3
  Metering = FALSE
  MaxTicks = 2
  none = none
SPECIFICATION RtFairSpec
CHECK_DEADLOCK FALSE
PROPERTIES
  CancelStopsServe
  CanceledStreamEnds
  RuntimeAnswers
