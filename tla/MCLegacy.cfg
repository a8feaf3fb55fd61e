CONSTANTS
  c1 = c1
  c2 = c2
  k1 = k1
  NoCommand = NoCommand
  Command = {c1, c2}
  Legacy = {c1}
  Container = {k1}
  ContainerOf <- PlaceContainerOf
  Operation <- LegacyOperation
  Generation <- PlaceGeneration
  MaxCrashes = 1
  MaxFaults = 0
SPECIFICATION Spec
INVARIANTS
  GenerationTravels
