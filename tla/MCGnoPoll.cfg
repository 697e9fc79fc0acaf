SPECIFICATION Spec
CONSTANTS
  NumNodes = 2  Sound = 2  RealmNodes = {1, 2}
  StalledMin = 1  ConsecutiveMissed = 2  IdleLimit = 2  Settle = 3
  MissedHeights = {2, 3}
  MaxStep = 1  MaxHeight = 4  MaxLag = 1
  ForeignHeights = {5}  MaxForeign = 5
  MaxAge = 4  MaxStreak = 2
INVARIANTS TypeOK HealthyNotStalled HaltAnnounced ConsecutiveInSession
