CONSTANTS
  Schedule <- ShortSchedule
  Sessions = 2
  MaxEvents = 2
  MaxQueue = 2
  MaxRotations = 1
  MaxRpcs = 1
SPECIFICATION ProcessFairSpec
CHECK_DEADLOCK FALSE
INVARIANTS
  ProcessTypeOK
  FreshSession
  EventsInOrder
  BackoffGrows
  OneSecret
  HandlersAreServed
  NeverStuck
PROPERTIES
  
  PingAnswered
  ShutsDown
