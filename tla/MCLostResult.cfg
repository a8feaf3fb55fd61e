CONSTANTS
  c1 = c1
  c2 = c2
  k1 = k1
  NoCommand = NoCommand
  Command = {c1}
  Legacy = {}
  Container = {k1}
  ContainerOf <- OneContainerOf
  Operation <- OneOperation
  Generation <- OneGeneration
  MaxCrashes = 0
  MaxFaults = 0
SPECIFICATION FairSpec
PROPERTIES
  EveryResultReachesCloud
