CONSTANTS
  a = a
  b = b
  c = c
  a1 = a1
  a2 = a2
  t1 = t1
  t2 = t2
  k1 = k1
  wp = wp
  wa = wa
  ops = ops
  web = web
  j = j
  timer = timer
  request = request
  None = None
  Alert = {a1, a2}
  Ticket = {t1}
  Key = {k1}
  Window = {wp, wa}
  Effect <- Effects
  Team = {ops, web}
  TeamPolicy = {ops}
  SourcePolicy = FALSE
  Routes <- RoutesPlain
  Job = {j}
  May <- AllOps
  MaxCrashes = 0
  Calm = FALSE
SPECIFICATION MCSpec
INVARIANT SentOnce
INVARIANT PromptOnce
INVARIANT Isolated
PROPERTY BreachesAnnounced
PROPERTY HeldIsRaised
PROPERTY DownAfterThreshold
PROPERTY AlertFollows
PROPERTY StartedIsCompleted
PROPERTY OthersStop
PROPERTY OneGateway
PROPERTY Served
