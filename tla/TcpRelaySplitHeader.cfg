CONSTANTS
  IvLen = 1
  HdrLen = 3
  UpLen = 3
  DownLen = 1
  BufSize = 8
  Sessions <- PlainSessions
SPECIFICATION Spec
INVARIANT SplitHeaderAccepted
CHECK_DEADLOCK FALSE
