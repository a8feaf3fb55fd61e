CONSTANTS
  k1 = k1
  k2 = k2
  k3 = k3
  NoCall = NoCall
  Call = {k1, k2, k3}
  MethodOf <- MixedMethod
SPECIFICATION FairSpec
CHECK_DEADLOCK FALSE
INVARIANTS
  TypeOK
  NeverBeatenByItself
  TargetGoesToTaker
  
  
PROPERTIES
  CallsEnd
