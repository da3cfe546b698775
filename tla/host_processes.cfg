SPECIFICATION HostSpec
CONSTANTS
  w1 = w1  w2 = w2
  a = a  b = b  c = c
  p1 = p1  p2 = p2  p3 = p3
  s1 = s1  s2 = s2  s3 = s3
  q1 = q1  q2 = q2  q3 = q3  q4 = q4
  k = k
  Worker <- MCWorkers
  ClientCount = 2
  Request <- MCRequests
  Home <- MCHome
  Pinned <- MCNoPins
  Impatient = {a}
  NumEngines = 2
  MaxRunning = 1
  Pid <- MCPids
  NumCores = 3
  Wanted <- MCWanted
  MaxStarts = 1
  Server <- MCServers
  Rank = {k}
  Port <- MCPorts
  Stealable = {q1}
  InitPort <- MCInitPort
  Group <- MCGroup
INVARIANTS HostTypeOK ReservationsExact LoadNeverUnderstated BurstSpread CoresExclusive OwnStoreOnly
PROPERTIES BooksSettle HostGoesOn
CHECK_DEADLOCK FALSE
