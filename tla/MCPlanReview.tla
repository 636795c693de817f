--------------------------- MODULE MCPlanReview ---------------------------
(* Instances of PlanReview for TLC.  Ids and clients are interchangeable.  *)
EXTENDS PlanReview, TLC

Symmetric == Permutations(Plans) \cup Permutations(Tasks) \cup Permutations(Reviewers)

===========================================================================
