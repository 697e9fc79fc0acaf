SPECIFICATION Spec
CONSTANTS
  a = a  b = b  stall = stall  node = node  lag = lag
  NoMsg = NoMsg
  Chains = {a}
  Messages = {stall, node}
  Raises <- RaisesAll
  Kind <- MCKind
  Stalled = {stall}
  Critical <- MCCritical
  Enabled <- PagerAndPushover
  MaxTasks = 1
INVARIANT PushoverFollowsAlerts
