-------------------------- MODULE MCSourceDispatch --------------------------
(* Instances of SourceDispatch for TLC.                                     *)
EXTENDS SourceDispatchRefinement, TLC

CONSTANT o1

OneOperation == {o1}

NoStops == {}

=============================================================================
