SPECIFICATION Spec
CONSTANTS
  c1 = c1
  c2 = c2
  c3 = c3
  row1 = row1
  row2 = row2
  row3 = row3
  fb = fb
  meta = meta
  tt = tt
  None = None
  Calls = {c1, c2, c3}
  Actions = {1, 2, 3, 4}
  NameChanges = {1, 2}
  Unambiguous = {}
  Unnamed = {1, 2}
  Elsewhere = {}
  Mixes <- MixesValue
  Rank <- RankValue
  MaxDay = 2
  PageSize = 2
  MaxPages <- PagesValue
  MaxItems <- ItemsValue
  MaxRevisions = 2
  Rows = {row1, row2, row3}
  Watchlist = Watchlist
  Strategies = {trend}
  Tickers = {fb, meta, tt}
  Old <- OldValue
  New <- NewValue
  Edits = {edit}
  MaxRows = 2
SYMMETRY Symmetry
INVARIANTS
  NextTokenSkipsNothing
  EntriesAvoidPending
PROPERTIES
  JobsLoseNothing
  SecondRunChangesNothing
CHECK_DEADLOCK FALSE
