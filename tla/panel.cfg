SPECIFICATION FairSpec
CONSTANTS
  a = a
  b = b
  tier = tier
  k = k
  Runs = {a, b}
  OldRuns = {}
  Steerable = {a}
  Resumable = {a}
  Tiers = {tier}
  Schedules = {k}
  MaxEvents <- MCMaxEvents
  NoRun = NoRun
  NoTier = NoTier
INVARIANT TimelineIsLive
PROPERTIES SteersTheChosen EscapeCancels
CHECK_DEADLOCK FALSE
