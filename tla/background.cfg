SPECIFICATION FairSpec
CONSTANTS
  a = a
  b = b
  c = c
  Runs = {a, b, c}
  Pools <- MCPools
  Cap = 1
  Isolated = {a, b}
  CrossCwd = {b}
  MaxCrashes = 1
  MaxReentries = 1
INVARIANTS PoolMatchesRuns LeftoversMatchJournal InterruptedRunOffered AbortIsFinal
PROPERTIES EveryRunEnds
