CONSTANTS
  c1 = c1
  c2 = c2
  c3 = c3
  c4 = c4
  NoCommand = NoCommand
  Command = {c1, c2, c3}
  Operation <- SaveOperation
  Config <- SaveConfig
  MaxAttempts = 3
  MaxCrashes = 1
  MaxLosses = 1
SPECIFICATION Spec
CHECK_DEADLOCK FALSE
INVARIANTS
  ImageBeforeAnything
  PodsAreOwed
PROPERTIES
  HibernatedIsGone
  
