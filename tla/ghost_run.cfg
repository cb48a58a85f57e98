SPECIFICATION Spec
CONSTANTS
  a = a
  p = p
  q = q
  Runs = {a}
  Requests = {q}
  Steerable = {a}
  MaxSessions = 2
  MaxMessages = 2
  NoVerb = NoVerb
  NoRun = NoRun
CHECK_DEADLOCK FALSE
INVARIANT SpawnedRunIsReal
