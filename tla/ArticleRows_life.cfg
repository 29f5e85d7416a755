SPECIFICATION FairSpec
CONSTANTS
  Rows = {1, 2, 3}
  Press <- MCPress
  Exempt = {3}
  Pending = {1, 2}
  Texts = {t1, t2}
  NoText = NoText
  Stored <- MCStored
  t1 = t1
  t2 = t2
  Workers = 2
  MaxAttempts = 2
  Breaker = 1
  Term = 2
  MinTerm = 1
  Crawled <- MCCrawled
  LastDay = 3
  PurgeBatch = 1
  EmbedBatch = 2
  MaxFaults = 1
  p1 = p1
  p2 = p2
INVARIANTS OneOriginal VectorIsOfItsBody
PROPERTY ImplementsBodyLife EveryArticleIsClosed
CHECK_DEADLOCK FALSE
