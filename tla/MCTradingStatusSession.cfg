SPECIFICATION FairSpec
CONSTANTS
  Sockets = {w1, w2}
  Symbols = {aapl}
  Feeds = {iex}
  Slots = {f1, f2}
  MaxFrame = 2
  MaxAt = 2
  Cooldown = 1
  None = None
  Malformed = Malformed
INVARIANTS
  OneSocket
  SessionIsReal
PROPERTIES
  EveryConnectSettles
