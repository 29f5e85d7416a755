-------------------------- MODULE MCFeedCollection --------------------------
EXTENDS FeedCollection, TLC

\* one site with two feeds, as 국민일보 has, and one of its own
CONSTANTS h1, h2
MCHost == [f \in Feeds |-> IF f = 3 THEN h2 ELSE h1]
Symmetry == Permutations(Urls) \cup Permutations(Digests)
=============================================================================
