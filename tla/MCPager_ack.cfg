CONSTANTS
  j1 = j1
  j2 = j2
  u1 = u1
  None = None
  Page = {p1}
  Job = {j1, j2}
  May <- TickAndPeople
  User = {u1}
  Rule <- PushOnly
  CallChannel <- Calls
  VoiceMaxCalls = 2
  VoiceRepeat = 1
  MaxLevels = 1
  Delay <- DelayShort
  Reaches <- OneUser
  MaxAge = 1
  RepeatCount = 0
  MaxCrashes = 0
  Edits = FALSE
  Prompt = FALSE
SPECIFICATION Spec
PROPERTY AckStops
