CONSTANTS
  IvLen = 1
  HdrLen = 3
  UpLen = 3
  DownLen = 3
  BufSize = 7
  Sessions <- SoundSessions
SPECIFICATION FairSpec
INVARIANTS
  TypeOK
  FlowControl
  NoOrphan
  QueryIsHeld
  NothingRelayedBeforeBlame
  Accounting
PROPERTIES
  UpIsPipe
  DownIsPipe
  IsConnection
  UpDelivered
  DownDelivered
  HandshakeEnds
CHECK_DEADLOCK FALSE
