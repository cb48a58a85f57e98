SPECIFICATION FairSpec
CONSTANTS
  a = a
  p = p
  q = q
  Runs = {a}
  Requests = {p, q}
  Steerable = {a}
  MaxSessions = 2
  MaxMessages = 2
  NoVerb = NoVerb
  NoRun = NoRun
INVARIANT DedupeIsExact
PROPERTY RequestsAnswered
CHECK_DEADLOCK FALSE
