CONSTANTS
  GreetLen = 2
  HdrLen = 2
  UpLen = 3
  DownLen = 3
  BufSize = 4
  Sessions <- RedirSessions
SPECIFICATION Spec
INVARIANTS
  UnsentIsWatched
CHECK_DEADLOCK FALSE
