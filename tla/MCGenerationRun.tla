--------------------------- MODULE MCGenerationRun ---------------------------
EXTENDS GenerationRun, TLC

Symmetry == Permutations(Workers)

=============================================================================
