SPECIFICATION FairSpec
CONSTANTS
  order = order
  market1 = market1
  market2 = market2
  Requests = {order, market1, market2}
  Reads = {market1, market2}
  MarketRequests = {market1, market2}
  Reporting = {market1, market2}
  MaxRetries = 1
  FailureThreshold = 2
  OpenDuration = 1
  MaxNow = 3
  MaxAge = 1
INVARIANTS
  OneProbePerOpening
  OpensAtThreshold
  EntriesNeedFreshData
PROPERTIES
  SilentWhileOpen
  NothingSentBeforeReset
  EveryRequestSettles
  HalfOpenEnds
CHECK_DEADLOCK FALSE
