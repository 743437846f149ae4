CONSTANTS
  stream = stream
  cancel = cancel
  get = get
  boot = boot
  control = control
  Requests = {boot, stream, cancel}
  Streams = {stream}
  Failing = {stream}
  ReqCap = 1
  RespCap = 2
  MaxSend = 2
  Req <- MCReq
  IDs = {1, 3, 4, 7}
  Major = 3
  Metering = TRUE
  MaxTicks = 2
  none = none
SPECIFICATION RtSpec
CHECK_DEADLOCK FALSE
INVARIANTS
  NoSendOnClosed
  ResponsesFlushed
  RequestsServed
  FailureReported
  StreamInSequence
  MetricsAfterBootstrap
