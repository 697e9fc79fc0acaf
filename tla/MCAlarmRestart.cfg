SPECIFICATION RestartSpec
CONSTANTS
  a = a  stall = stall  NoMsg = NoMsg
  Chains = {a}
  Messages = {stall}
  Raises <- MCRaises
  Kind <- MCKind
  Stalled = {stall}
  Critical = {stall}
  Enabled <- MCEnabled
  MaxTasks = 2
INVARIANTS RestartTypeOK SinkFollowsAlerts RemoteFollowsAlerts CacheFollowsAlerts
PROPERTY GatedAnnouncedOnce
