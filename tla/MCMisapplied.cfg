CONSTANTS
  Container = {k1}
  MaxGeneration = 2
SPECIFICATION Spec
INVARIANTS
  AppliedToOwnPlacement
