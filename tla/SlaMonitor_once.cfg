CONSTANTS
  Process = {a}
  Entry = {timer, request}
  Ticket = {t1}
  Batch = 1
  MaxDue = 1
  MaxCrashes = 0
SPECIFICATION Spec
INVARIANT AnnouncedOnce
