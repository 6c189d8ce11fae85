SPECIFICATION Spec
CONSTANTS
  e1 = e1
  e2 = e2
  e3 = e3
  i1 = i1
  i2 = i2
  s1 = s1
  s2 = s2
  t1 = t1
  t2 = t2
  FrequencyKey = frequency
  Instances = {i1, i2}
  Streams = {s1, s2}
  Times = {t1, t2}
  Evals = {e1, e2, e3}
  InstanceOf <- MCInstanceOf
  MaxSignals = 2
  MaxSignalsPerMinute = 1
  Cooldown = 0
  Skew <- MCSkew
  Window = 1
  Ttl = 1
  MaxNow = 2
  MaxFaults = 0
SYMMETRY Symmetry
INVARIANTS
  LeaseTotalLimit
  LeaseFrequencyLimit
CHECK_DEADLOCK FALSE
