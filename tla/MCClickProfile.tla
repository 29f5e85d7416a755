--------------------------- MODULE MCClickProfile ---------------------------
EXTENDS ClickProfile, TLC

Symmetry == Permutations(Clicks) \cup Permutations(Rebuilds)

=============================================================================
