SPECIFICATION Spec
SYMMETRY Symmetry
CONSTANTS
  Sockets = {w1, w2}
  Symbols = {aapl}
  Feeds = {iex}
  Slots = {f1, f2}
  MaxFrame = 2
  MaxAt = 3
  Cooldown = 1
  None = None
  Malformed = Malformed
INVARIANTS
  EveryHaltNoted
  ResumesFollowHalts
  ResumeDetectedIsNoted
  EntriesFarFromHalts
