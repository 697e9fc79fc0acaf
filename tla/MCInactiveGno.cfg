SPECIFICATION Spec
CONSTANTS
  Nil = Nil
  Providers = {"gnoland"}
PROPERTY FailuresRaiseNothing
