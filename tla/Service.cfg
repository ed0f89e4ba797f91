CONSTANTS
  a1 = a1
  a2 = a2
  t1 = t1
  t2 = t2
  n1 = n1
  Admins = {a1, a2}
  Starters = {a1}
  Testers = {t1, t2}
  Nodes = {n1}
  NodeOf <- MCNodeOf
  Rules = 1
  Checked = 2
  MaxPids <- MCMaxPids
  MaxBusy = 2
  MaxMishaps = 1
  MaxTrouble = 0
SPECIFICATION Spec
INVARIANTS
  TypeOK
  KnownOrDead
  StopsClean
  TestsCleanUp
PROPERTIES
  KillsItsOwn
  CallsEnd
