SPECIFICATION Spec
CONSTANTS
  d = d
  c = c
  p = p
  u = u
  big = big
  other = other
  small = small
  own = own
  Runs = {1, 2}
  NoRun = 0
  Lifecycles = {d, c, p, u}
  MayRun <- MCMayRun
  Phases <- MCPhases
  Caller <- MCCaller
  Mode <- MCMode
  BuiltinTiers <- MCBuiltin
  GlobalTiers <- MCBuiltin
  ProjectTiers <- MCProject
  Available <- MCAvailable
  Window <- MCWindow
  Provider <- MCProvider
  Parent = own
  Inherit = Inherit
  NoModel = NoModel
  NoTier = NoTier
  MaxRevise = 1
INVARIANT AskedCanBeAnswered
CHECK_DEADLOCK FALSE
