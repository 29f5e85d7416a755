----------------------------- MODULE MCFeedCache -----------------------------
EXTENDS FeedCache, TLC

Symmetry == Permutations(Clicks) \cup Permutations(Feeds)

=============================================================================
