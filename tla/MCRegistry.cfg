SPECIFICATION Spec
CONSTANTS
  call1 = call1
  call2 = call2
  caller1 = caller1
  caller2 = caller2
  caller3 = caller3
  evaluation = evaluation
  None = None
  Nobody = Nobody
  Initial = Initial
  Seeded = Seeded
  Calls = {evaluation, call1, call2}
  Callers = {caller1, caller2, caller3}
  Symbols = {spy, qqq}
  Evaluations = {evaluation}
  Evaluated = {spy}
  MaxNow = 1
  MaxEntries = 2
SYMMETRY Symmetry
INVARIANTS
  DecisionHeld
PROPERTIES
  RenewalSurvives
  OverwritesWhatItRead
CHECK_DEADLOCK FALSE
