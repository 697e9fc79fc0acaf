SPECIFICATION FairSpec
CONSTANTS
  a = a  b = b  stall = stall  node = node  lag = lag
  NoMsg = NoMsg
  Chains = {a, b}
  Messages = {node, lag}
  Raises <- RaisesApart
  Kind <- MCKind
  Stalled = {}
  Critical <- MCCritical
  Enabled <- HangingAndTimed
  MaxTasks = 2
PROPERTY TimedChainsDrain
