SPECIFICATION Spec
CONSTANTS
  o1 = o1
  o2 = o2
  other = other
  Submissions = {o1, o2}
  Sells = {o1, o2, other}
  Foreign = {other}
  Detections = {d1}
  Quantity <- QuantityValue
  Quantities = {2}
  Held = 1
  MaxReplaced <- ReplacedValue
  MaxChanges = 1
INVARIANTS
  ForeignNeverClaimed
  ConfirmedNeverExternal
  SentWasAdmissible
  NoUncoveredShort
CHECK_DEADLOCK FALSE
