SPECIFICATION PercentSpec
CONSTANTS
  CapArg = 3
  Providers = {"cosmos", "gnoland"}
  SlashWindow = 4
  Threshold = 50
INVARIANTS PercentTypeOK MissedIsCount PublishedPair
PROPERTIES IsSlidingWindow PercentSound PercentComplete
