CONSTANTS
  a = a
  b = b
  c = c
  x1 = x1
  x2 = x2
  y1 = y1
  y2 = y2
  a1 = a1
  a2 = a2
  t1 = t1
  k1 = k1
  wp = wp
  wa = wa
  ops = ops
  web = web
  j1 = j1
  j2 = j2
  p1 = p1
  u1 = u1
  r1 = r1
  r2 = r2
  u = u
  v = v
  w = w
  timer = timer
  request = request
  Never = Never
  None = None
  Page = {p1}
  Job = {j1, j2}
  May <- TwoPasses
  User = {u1}
  Rule <- CallOnly
  CallChannel <- Calls
  VoiceMaxCalls = 2
  VoiceRepeat = 1
  MaxLevels = 1
  Delay <- TwoMinutes
  MaxAge = 2
  Reaches <- OneLevel
  RepeatCount = 0
  MaxCrashes = 1
  Edits = FALSE
  Prompt = FALSE
SYMMETRY Symmetric
SPECIFICATION MCSpec
INVARIANT AllTypesOK
INVARIANT RepeatsBounded
INVARIANT CallsInOrder
INVARIANT OneInstanceWorks
INVARIANT TakeoverBound
INVARIANT NothingVanishes
INVARIANT HeldNotPaged
INVARIANT PrunedGone
INVARIANT NewestRestorable
INVARIANT AnnouncedAgainByTwo
INVARIANT UsedOnce
INVARIANT WithdrawnForGood
INVARIANT ShiftsAgree
INVARIANT FirstMatch
INVARIANT OccurrencesFound
