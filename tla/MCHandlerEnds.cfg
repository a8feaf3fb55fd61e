CONSTANTS
  c1 = c1
  c2 = c2
  c3 = c3
  c4 = c4
  NoCommand = NoCommand
  Command = {c1, c2, c3, c4}
  Operation <- OddOperation
  Config <- OddConfig
  MaxAttempts = 3
  MaxCrashes = 1
  MaxLosses = 1
SPECIFICATION FairSpec
CHECK_DEADLOCK FALSE
INVARIANTS
  NeverStuck
PROPERTIES
  HandlerEnds
