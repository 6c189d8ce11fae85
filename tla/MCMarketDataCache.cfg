SPECIFICATION Spec
CONSTANTS
  r1 = r1
  r2 = r2
  r3 = r3
  bars = bars
  quotes = quotes
  aapl = aapl
  None = None
  Requests = {r1, r2, r3}
  Keys = {bars, quotes}
  Symbols = {aapl}
  KeyOf <- KeyOfValue
  SymbolOf <- SymbolOfValue
  Ttl <- TtlValue
  Timeout = 1
  MaxEntries = 1
  MaxVersion = 1
  MaxNow = 3
SYMMETRY Symmetry
INVARIANTS
  AnswersAreRecent
  FreshAfterInvalidation
  OneFetchPerKey
PROPERTIES
  EvictsOnlyForRoom
CHECK_DEADLOCK FALSE
