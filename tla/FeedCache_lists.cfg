SPECIFICATION FeedSpec
CONSTANTS
  Clicks = {c1, c2}
  Rebuilds = {}
  Nobody = Nobody
  Feeds = {q1, q2}
  NoClick = NoClick
  NoList = NoList
  Fallback = Fallback
SYMMETRY Symmetry
INVARIANTS NewestClickCounts FeaturesAreOfTheirTime
