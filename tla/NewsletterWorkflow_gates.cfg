SPECIFICATION FairSpec
CONSTANTS
  Cluster = {a1, a2, a3, a4}
  MaxListed = 1
  MaxClusterRetries = 2
  MaxDrafts = 3
  MaxToneRetries = 1
INVARIANTS PublishedIsVetted NothingIsSentAgain FailureReasonIsTrue
PROPERTY Terminates
