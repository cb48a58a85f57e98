SPECIFICATION FairSpec
CONSTANTS
  s = s
  f = f
  e = e
  Sources = {s, f, e}
  Script <- MCScript
  Prompts = {"w", "q", "p", "l"}
  Edited = {e}
  Unattended = {f, e}
  Foreground = {f}
  NRuns = 2
  NBranches = 2
  Workers = 2
  Slots = 2
  Retries = 1
  MaxAgents = 2
  Budget = 1
  Timed = {s, e}
  MaxSessions = 1
INVARIANTS ControlsMatch InFlightBounded CachedAnswersEnded VerdictsAgree
PROPERTIES HeldRunCallsNobody StoppedRunEnds
CHECK_DEADLOCK FALSE
