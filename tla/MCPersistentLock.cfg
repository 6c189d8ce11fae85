SPECIFICATION Spec
CONSTANTS
  o1 = o1
  o2 = o2
  k1 = k1
  k2 = k2
  Owners = {o1, o2}
  Keys = {k1}
  Ttl = 2
  Skew <- MCSkew
  MaxNow = 4
INVARIANTS
  LeaseExclusion
  LeaseIsBacked
PROPERTIES
  NobodyEvicted
  ImplementsLease
CHECK_DEADLOCK FALSE
