--------------------------- MODULE MCRoundBarrier ---------------------------
(* RoundBarrier with a small round plan: two targets of one query, and a     *)
(* candidate of the second that the run has opened before.                   *)
EXTENDS RoundBarrier

PlanQuery == <<1, 1>>
PlanTarget == <<2, 2>>
PlanCards == <<2, 2>>
SeenOne == {<<2, 1>>}
=============================================================================
