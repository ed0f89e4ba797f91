CONSTANTS
  IvLen = 1
  HdrLen = 3
  UpLen = 3
  DownLen = 1
  BufSize = 8
  Sessions <- FastOpenSessions
SPECIFICATION Spec
INVARIANT UpInOrder
CHECK_DEADLOCK FALSE
