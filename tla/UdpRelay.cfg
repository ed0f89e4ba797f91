CONSTANTS
  s1 = s1
  s2 = s2
  a4 = a4
  b4 = b4
  a6 = a6
  h1 = h1
  h2 = h2
  h3 = h3
  c1 = c1
  c2 = c2
  c3 = c3
  Free = Free
  None = None
  Clients <- MCClients
  Ips <- MCIps
  Family <- MCFamily
  Hosts <- MCHosts
  LongHosts <- MCLongHosts
  Names <- OneName
  Answers <- MCAnswers
  Ctxs <- MCCtxs
  Queries = {q1, q2}
  MaxConns = 3
  MaxTraffic = 4
SPECIFICATION FairSpec
INVARIANTS
  TypeOK
  TableSound
  Routed
  Labelled

  
CHECK_DEADLOCK FALSE
