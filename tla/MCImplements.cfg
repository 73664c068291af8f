CONSTANTS
  a = a
  b = b
  c = c
  r1 = r1
  r2 = r2
  r3 = r3
  a1 = a1
  a2 = a2
  t1 = t1
  t2 = t2
  k1 = k1
  k2 = k2
  wp = wp
  wa = wa
  ops = ops
  web = web
  j = j
  None = None
  Nobody = Nobody
  Instance = {a, b, c}
  Call = {r1, r2, r3}
  Owner <- OneCallInThree
  CronCall = {r2, r3}
  Loop = {"pager"}
  TickMs = 1
  LeaseMs = 3
  MaxStall = 2
  MaxWork = 2
  MaxFailures = 1
  MaxCrashes = 1
  Punctual = FALSE
SYMMETRY Symmetric
SPECIFICATION MCSpec
INVARIANT OneLeader
INVARIANT OneCronWorks
INVARIANT OneAlertPerKey
INVARIANT NoOrphanIncident
PROPERTY ImplementsLeadership
PROPERTY SignalShown
PROPERTY ImplementsIncidents
