---------------------- MODULE SourceDispatchRefinement ----------------------
(***************************************************************************)
(* SourceDispatch implements DispatchOnce: the authorizations are those    *)
(* main has minted, the result is kept when some head of the journal is    *)
(* observed, the verdict is main's conclusion.                             *)
(***************************************************************************)
EXTENDS SourceDispatch

\* The journal has the result of the operation, under whichever authorization.
JournalHolds(o) == \E n \in Ordinals : head[o][n].phase = "observed"

OrdinalOf == [o \in Operations |-> op[o].ord]

ResultKept == [o \in Operations |-> JournalHolds(o)]

ConclusionOf == [o \in Operations |-> op[o].concl]

IsCommitted == [o \in Operations |-> op[o].phase = "committed"]

Dispatch == INSTANCE DispatchOnce WITH
    authorized <- OrdinalOf, driven <- effects, kept <- ResultKept,
    verdict <- ConclusionOf, committed <- IsCommitted

\* Every transaction of main's ledger or of the sidecar's journal, every drive of
\* the browser and every death in between is one step of the operation's promise
\* or none (accept_source_operation, mint_current_safe_retry_dispatch_epoch,
\* record_dispatch_intent, record_owned_source_operation_observation,
\* commit_no_owner_source_reconciliation).
ImplementsDispatchOnce == Dispatch!DispatchSpec
=============================================================================
