SPECIFICATION Spec
CONSTANTS
  SeqSpan = 8
  None = None
  BaseScale = 2
  TimeWrap = 4
  MaxDelta = 1
  MaxSmall = 0
  OneBitCapacity = 4
  RunLengthCapacity = 4
  kMaxNumberOfPackets = 3
  BackWindow = 1
  Route = {wifi, cell}
  MaxPackets = 4
  StreamPackets = 4
  Size <- MCSize
  SendWindow = 1
  kMaxPacketsInHistory = 2
  StartSeq = 5
  StartTime = 11
  SenderStart = 11
  Request <- MCRequest
  Bounds <- MCPrompt
INVARIANT AllTimesAgree
CHECK_DEADLOCK FALSE
