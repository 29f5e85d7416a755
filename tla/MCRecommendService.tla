-------------------------- MODULE MCRecommendService --------------------------
EXTENDS RecommendService

=============================================================================
