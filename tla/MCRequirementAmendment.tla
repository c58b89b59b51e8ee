----------------------- MODULE MCRequirementAmendment -----------------------
(* Small instances of RequirementAmendment.                                *)
EXTENDS RequirementAmendment, TLC

CONSTANTS v1, v2, e1, e2

OneReviewer == {v1}
TwoReviewers == {v1, v2}
TwoExecutors == {e1, e2}

Symmetry == Permutations({v1, v2}) \cup Permutations({e1, e2})
=============================================================================
