CONSTANTS
  GreetLen = 2
  HdrLen = 2
  UpLen = 3
  DownLen = 3
  BufSize = 4
  Sessions <- Possible
SPECIFICATION FairSpec
INVARIANTS
  TypeOK
  FlowControl
  Accounting
PROPERTIES
  UpIsPipe
  DownIsPipe
  UpDelivered
  DownDelivered
  HandshakeEnds
CHECK_DEADLOCK FALSE
