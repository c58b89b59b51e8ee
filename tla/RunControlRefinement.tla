------------------------ MODULE RunControlRefinement ------------------------
(***************************************************************************)
(* RunControl implements RunOwnership: the open lease row of a run is its  *)
(* grant, the attempt number its term, the worker whose claim names that   *)
(* row its owner, and the latest checkpoint its result.                    *)
(***************************************************************************)
EXTENDS RunControl

PhaseOf(st) ==
    CASE st = "absent" -> "absent"
      [] st = "needs_attention" -> "parked"
      [] st = "completed" -> "completed"
      [] st \in {"cancelled", "failed"} -> "stopped"
      [] OTHER -> "live"

\* The workers whose writes _require_active_executor accepts for the run.
Owner(r) == {w \in Workers : wrun[w] = r /\ Holds(w)}

RunPhase == [r \in Runs |-> PhaseOf(status[r])]

RunOpen == [r \in Runs |-> HasActiveLease(r)]

RunOwner == [r \in Runs |-> Owner(r)]

Ownership == INSTANCE RunOwnership WITH
    Results <- CheckpointState, phase <- RunPhase, term <- latest,
    open <- RunOpen, owner <- RunOwner, result <- ckpt

\* Every transaction of the store, and every crash or expiry between two of
\* them, is a step of the ownership protocol or changes nothing it can see
\* (claim_next_runnable_run, _require_active_executor, recovery).
ImplementsOwnership == Ownership!OwnershipSpec
=============================================================================
