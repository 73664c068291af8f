CONSTANTS
  a1 = a1
  a2 = a2
  a3 = a3
  t1 = t1
  t2 = t2
  k1 = k1
  k2 = k2
  wp = wp
  wa = wa
  ops = ops
  web = web
  j1 = j1
  j2 = j2
  None = None
  Alert = {a1, a2, a3}
  Ticket = {t1, t2}
  Key = {k1, k2}
  Window = {wp, wa}
  Effect <- Effects
  Team = {ops, web}
  TeamPolicy = {ops}
  SourcePolicy = FALSE
  Routes <- RoutesPlain
  Job = {j1, j2}
  May <- Requests
  MaxCrashes = 0
  Calm = FALSE
SYMMETRY Symmetric
SPECIFICATION Spec
PROPERTY ResolvesLast
