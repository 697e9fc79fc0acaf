SPECIFICATION FairSpec
CONSTANTS
  NumNodes = 2
  AlertIfDown = {1}
  Providers = {"cosmos", "gno"}
  Answers = {"ok", "err", "wrong"}
  MaxFlips = 1
INVARIANTS TypeOK RecoveryRemembered OutageIsTimed
PROPERTIES NodeAlarmsEnd DeadNodeReported NoServersSettles ForeignNodesShunned
