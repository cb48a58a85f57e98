SPECIFICATION Spec
CONSTANTS
  s = s
  f = f
  e = e
  Sources = {s, f, e}
  Script <- MCScript
  Prompts = {"w", "q", "p", "l"}
  Edited = {e}
  Unattended = {f, e}
  Foreground = {f}
  NRuns = 2
  NBranches = 2
  Workers = 2
  Slots = 1
  Retries = 1
  MaxAgents = 2
  Budget = 1
  Timed = {}
  MaxSessions = 1
INVARIANT UnansweredAskedAgain
CHECK_DEADLOCK FALSE
