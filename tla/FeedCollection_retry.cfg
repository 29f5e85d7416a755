SPECIFICATION FeedsSpec
CONSTANTS
  Feeds = {1, 2, 3}
  Host <- MCHost
  Summary = {1}
  Urls = {u1, u2}
  Digests = {s1, s2}
  Short = short
  MaxEntries = 2
  MaxRuns = 2
  MaxCrashes = 2
  h1 = h1
  h2 = h2
SYMMETRY Symmetry
INVARIANTS OneRowPerSummary  StatsAreTrue
CHECK_DEADLOCK FALSE
