CONSTANTS
  x1 = x1
  x2 = x2
  a4 = a4
  a6 = a6
  b6 = b6
  None = None
  Nothing = Nothing
  Peers <- MCPeers
  Addresses <- MCAddresses
  Family <- MCFamily
  Zone <- MCZone
  Level <- MCLevel
  Preferring = "inet"
  MaxRecords = 1
  Queries = {q1, q2}
  Conns = {c1, c2}
  Trusted = {}
  MaxTries = 1
  MaxLevel = 2
  MaxAge = 0
  MaxEntries = 2
SPECIFICATION FairSpec
INVARIANTS
  TypeOK
  
  RulesMirror
  Judged
PROPERTIES
  OneAnswer
  ConnectionsBehave
  StaysBlocked
  NamesEnd
  Forgotten
CHECK_DEADLOCK FALSE
