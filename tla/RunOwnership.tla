---------------------------- MODULE RunOwnership ----------------------------
(***************************************************************************)
(* What the run-control plane promises about who executes a run, without   *)
(* lease rows, statuses, heartbeats or commands: a run is granted to one   *)
(* worker at a time, each grant is a new term, only the owner writes the   *)
(* run's result or completes it, and a run is parked for its user only in  *)
(* the step that ends its term.  That a run which has ended stays as it is *)
(* is not promised.  RunControl implements it (RunControlRefinement).      *)
(***************************************************************************)
EXTENDS Naturals

CONSTANTS Runs, Workers, Results

VARIABLES
    phase,   \* "absent", "live", "parked", or how it ended: "completed", "stopped"
    term,    \* the number of grants so far
    open,    \* the newest grant is not closed
    owner,   \* the worker the grant is known to: none or one
    result   \* the durable result of the run so far

ownershipVars == <<phase, term, open, owner, result>>

OwnershipInit ==
    /\ phase = [r \in Runs |-> "absent"]
    /\ term = [r \in Runs |-> 0]
    /\ open = [r \in Runs |-> FALSE]
    /\ owner = [r \in Runs |-> {}]
    /\ \E first \in Results : result = [r \in Runs |-> first]

Accepted(r) ==
    /\ phase[r] = "absent"
    /\ phase' = [phase EXCEPT ![r] = "live"]
    /\ UNCHANGED <<term, open, owner, result>>

\* Nobody has the run: the worker gets it, under a term of its own.
Granted(w, r) ==
    /\ phase[r] = "live" /\ ~open[r]
    /\ \A s \in Runs : w \notin owner[s]
    /\ term' = [term EXCEPT ![r] = @ + 1]
    /\ open' = [open EXCEPT ![r] = TRUE]
    /\ owner' = [owner EXCEPT ![r] = {w}]
    /\ UNCHANGED <<phase, result>>

\* The worker dies or drops its grant: the term stays open and nobody owns it.
Forgotten(w) ==
    /\ owner' = [r \in Runs |-> owner[r] \ {w}]
    /\ UNCHANGED <<phase, term, open, result>>

Written(w, r) ==
    /\ owner[r] = {w}
    /\ \E new \in Results : result' = [result EXCEPT ![r] = new]
    /\ UNCHANGED <<phase, term, open, owner>>

Completed(w, r) ==
    /\ phase[r] = "live" /\ owner[r] = {w}
    /\ phase' = [phase EXCEPT ![r] = "completed"]
    /\ UNCHANGED <<term, open, owner, result>>

\* What becomes of the run otherwise is decided by its owner, by recovery or by
\* its user: it is stopped, or it goes on.  A user who decides on what the run
\* was a moment ago may do so to a run that is parked or has ended.
Decided(r) ==
    /\ phase[r] # "absent"
    /\ \E next \in {"live", "stopped"} : phase' = [phase EXCEPT ![r] = next]
    /\ UNCHANGED <<term, open, owner, result>>

\* The term ends, with or without its owner's knowledge; recovery decides what
\* becomes of a live run in the same step.
Closed(r) ==
    /\ open' = [open EXCEPT ![r] = FALSE]
    /\ owner' = [owner EXCEPT ![r] = {}]
    /\ \E next \in {phase[r]} \cup (IF phase[r] = "live" THEN {"parked", "stopped"} ELSE {}) :
           phase' = [phase EXCEPT ![r] = next]
    /\ UNCHANGED <<term, result>>

OwnershipNext ==
    \/ \E w \in Workers : Forgotten(w)
    \/ \E r \in Runs : Accepted(r) \/ Decided(r) \/ Closed(r)
    \/ \E w \in Workers, r \in Runs : Granted(w, r) \/ Written(w, r) \/ Completed(w, r)

OwnershipSpec == OwnershipInit /\ [][OwnershipNext]_ownershipVars
=============================================================================
