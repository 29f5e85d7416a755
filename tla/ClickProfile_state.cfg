SPECIFICATION FairSpec
CONSTANTS
  Clicks = {c1, c2}
  Rebuilds = {r1}
  Nobody = Nobody
INVARIANTS ProfileIsTheLog RebuildRepairs
PROPERTIES EveryClickIsAnswered
