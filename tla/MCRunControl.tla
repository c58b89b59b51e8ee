---------------------------- MODULE MCRunControl ----------------------------
(***************************************************************************)
(* Instances of RunControl for TLC: one run, so that all interleavings of  *)
(* its workers, commands, clock and recovery are explored, or two, whose   *)
(* leases stand in each other's way.                                       *)
(***************************************************************************)
EXTENDS RunControlRefinement, TLC

CONSTANTS r1, r2, w1, w2, c1, c2

OneRun == {r1}
TwoRuns == {r1, r2}
NoRuns == {}
OneWorker == {w1}
TwoWorkers == {w1, w2}
NoCommands == {}
OneCommand == {c1}
TwoCommands == {c1, c2}

Symmetry == Permutations(Workers) \cup Permutations(Commands)
=============================================================================
