SPECIFICATION FairSpec
CONSTANT MaxStreak = 3
INVARIANTS TypeOK StreakIsTrue
PROPERTIES SilentStreamLeft BrokenStreamLeft
