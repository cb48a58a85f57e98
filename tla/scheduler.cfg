SPECIFICATION Spec
CONSTANTS
  o = o
  r = r
  NoFile = NoFile
  EmptyFile = EmptyFile
  Once = {o}
  Recurring = {r}
  At <- MCAt
  Period <- MCPeriod
  MaxSessions = 2
  Horizon = 3
  TimerMax = 3
INVARIANTS TypeOK TimersMatchEntries OneShotFiresOnce WishesSurvive SecondProcessDefers
PROPERTIES FiresObeyTheUser
