SPECIFICATION Spec
CONSTANTS
  Nil = Nil
  Providers = {"cosmos", "gnoland"}
INVARIANTS TypeOK InactiveExact
PROPERTY NoFalseInactive
