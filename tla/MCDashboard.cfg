SPECIFICATION Spec
CONSTANTS
  NoData = NoData
  MaxRows <- Rows2
  MaxRev <- Revs2
  Request = {c1, c2}
  NoKey = NoKey
  Key = {k1}
  MaxVersion <- Versions2
  Write = {w1}
  PAGE_LIMIT = 2
  MaxLog = 5
  MaxTime = 1
  Project = {p1}
  Environment = {e1, e2}
  Elsewhere = elsewhere
  Prefetch = {g1, g2}
  Line = {x, y, blank}
  Blank = blank
  MaxLines = 3
INVARIANTS
  DashboardTypeOK ListShowsWhatWasTold OneRemovalAtATime PageShowsWhatWasSaid
  RowsActOnWhatIsShown FeedIsTheLog ReadyMeansLoaded ShortestDiff
CHECK_DEADLOCK FALSE
