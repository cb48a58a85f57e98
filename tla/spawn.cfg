SPECIFICATION FairSpec
CONSTANTS
  a = a
  b = b
  c = c
  x = x
  t = t
  Runs = {a, b, c, x}
  Cap = 2
  Unresolvable = {x}
  ReadOnly = {}
  Phase = {c}
  Untracked = {}
  Claude = {x}
  Retries = {x}
  Signalled = {b}
  Capped = {b}
  Linked = {t}
  Named <- MCNamed
  NoTodo = NoTodo
  NoRun = NoRun
  MaxTurns = 1
INVARIANTS TypeOK LockMatchesRuns NoIdleSlot HandleMeansRunning RecordsAgree TodoSettled
PROPERTIES NoOvertaking OnlyUserCloses SlotsRefined EveryDispatchReturns
