------------------------ MODULE MCNewsletterWorkflow ------------------------
(* TLC instances of NewsletterWorkflow. *)
EXTENDS NewsletterWorkflow, TLC
ArticleSymmetry == Permutations(Cluster)
=============================================================================
