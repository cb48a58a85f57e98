SPECIFICATION FairRecoverySpec
CONSTANTS
  a = a
  b = b
  c = c
  t = t
  Runs = {a, b}
  Cap = 1
  Unresolvable = {}
  ReadOnly = {b}
  Phase = {}
  Untracked = {b}
  Claude = {b}
  Retries = {}
  Signalled = {a}
  Capped = {}
  Linked = {t}
  Named <- MCNamed
  NoTodo = NoTodo
  NoRun = NoRun
  MaxTurns = 1
  MaxCrashes = 1
  MaxReentries = 1
INVARIANT LiveRunSpared
PROPERTIES OldOrphanReconciled CompletedUntouched
