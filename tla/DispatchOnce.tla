---------------------------- MODULE DispatchOnce ----------------------------
(***************************************************************************)
(* What a browser operation promises to the run that waits for it, without *)
(* rows, outboxes, journals, lanes, sidecars or a coordinator: the browser *)
(* is driven only for an authorization and at most once, a result is what  *)
(* that drive left, and the operation has one verdict, behind which it is  *)
(* neither authorized again nor judged again.  SourceDispatch implements   *)
(* it (SourceDispatchRefinement).                                          *)
(***************************************************************************)
EXTENDS Naturals

CONSTANT Operations

VARIABLES
    authorized,  \* how often it was authorized
    driven,      \* how often the browser was driven
    kept,        \* the result is durable
    verdict,     \* "none", "result", "tabAbsent"
    committed    \* the run has taken the verdict over

dispatchVars == <<authorized, driven, kept, verdict, committed>>

DispatchInit ==
    /\ authorized = [o \in Operations |-> 0]
    /\ driven = [o \in Operations |-> 0]
    /\ kept = [o \in Operations |-> FALSE]
    /\ verdict = [o \in Operations |-> "none"]
    /\ committed = [o \in Operations |-> FALSE]

\* A first attempt, or one more while it is not known what became of the last.
Authorized(o) ==
    /\ verdict[o] = "none"
    /\ authorized' = [authorized EXCEPT ![o] = @ + 1]
    /\ UNCHANGED <<driven, kept, verdict, committed>>

\* However many authorizations there are, and whoever acts for them.
Driven(o) ==
    /\ authorized[o] > 0 /\ driven[o] = 0
    /\ driven' = [driven EXCEPT ![o] = 1]
    /\ UNCHANGED <<authorized, kept, verdict, committed>>

Kept(o) ==
    /\ driven[o] = 1 /\ ~kept[o]
    /\ kept' = [kept EXCEPT ![o] = TRUE]
    /\ UNCHANGED <<authorized, driven, verdict, committed>>

\* A result only if it is kept; that the browser has no tab of the operation may
\* be said of one that was never driven, or is about to be.
Judged(o) ==
    /\ verdict[o] = "none" /\ authorized[o] > 0
    /\ \E v \in {"result", "tabAbsent"} :
           /\ v = "result" => kept[o]
           /\ verdict' = [verdict EXCEPT ![o] = v]
    /\ UNCHANGED <<authorized, driven, kept, committed>>

Committed(o) ==
    /\ verdict[o] # "none" /\ ~committed[o]
    /\ committed' = [committed EXCEPT ![o] = TRUE]
    /\ UNCHANGED <<authorized, driven, kept, verdict>>

DispatchNext ==
    \E o \in Operations :
        Authorized(o) \/ Driven(o) \/ Kept(o) \/ Judged(o) \/ Committed(o)

DispatchSpec == DispatchInit /\ [][DispatchNext]_dispatchVars
=============================================================================
