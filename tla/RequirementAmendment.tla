------------------------ MODULE RequirementAmendment ------------------------
(***************************************************************************)
(* Next-round requirement amendments: a user changes the requirements of a *)
(* run that is already searching (RuntimeCommandService.submit_next_round_ *)
(* requirement and resolve_next_round_requirement_review, commands.py),    *)
(* the worker takes the change over at the boundary before a round (the    *)
(* callbacks of executor.py and the round loop of orchestrator.py), and a  *)
(* later attempt resumes from a checkpoint that names a revision.          *)
(*                                                                         *)
(* A requirement sheet is the set of amendments patched into it: the       *)
(* accepted base revision is {} and apply_next_round_patch adds one.       *)
(* Amendments are numbered in the order of their rows.  One transaction of *)
(* the store is one step; the extraction (an LLM call), the projection and *)
(* the round itself lie between steps.  Of the run's status the module     *)
(* keeps who may go on with the run; RunControl has the rest.              *)
(***************************************************************************)
EXTENDS Naturals, FiniteSets, FiniteSetsExt

CONSTANTS
    Reviewers,        \* threads that resolve a review
    Executors,        \* execution attempts, the superseded ones included
    MaxAmendments,    \* bound on the amendment rows
    MaxRounds,        \* settings.max_rounds
    MaxLapses,        \* bound on the leases lost
    NoOne             \* nobody holds the run's executor lease

ASSUME BoundsAssumption ==
    /\ MaxAmendments \in Nat /\ MaxRounds \in Nat \ {0} /\ MaxLapses \in Nat

ASSUME NoOneAssumption == NoOne \notin Executors

VARIABLES
    run,        \* status, revision (approved_requirement_revision_id) and the
                \* executor that holds the lease; "open" is waiting to be claimed or
                \* running, "starting" claimed but not yet reported running, "parked"
                \* waits for a user or a reconciliation, and nobody may claim a
                \* "stranded" run again
    status, target, base, result,  \* the columns of the amendment rows
    locked,     \* rounds with a runtime_round_input_locked event
    ckpt,       \* the latest checkpoint
    barrier,    \* is a workflow round barrier active for that checkpoint
    extractions,  \* rows whose submitter is alive and extracting
    review,     \* per reviewer: amendment, the target and base it read
    pc, at,     \* per executor: next call and round
    approved, projected,  \* the revisions of its closures (executor.py); the
                \* requirement sheet of its RunState is that of `projected`
    under,      \* the revision its query terms and scorecards are projected under
    taken,      \* the amendment prepared for the boundary, 0 for none
    chosen,     \* the revision prepared for the boundary
    lapses,
    renamed     \* auxiliary: a refresh has renamed a checkpoint

rows == <<status, target, base, result>>
execVars == <<pc, at, approved, projected, under, taken, chosen>>
vars == <<run, rows, locked, ckpt, barrier, extractions, review, execVars, lapses, renamed>>

Amendments == 1 .. MaxAmendments
Rounds == 1 .. MaxRounds
Revisions == SUBSET Amendments
Targets == 0 .. (MaxRounds + 1)
Live == {"open", "starting", "parked", "stranded"}

TypeOK ==
    /\ run \in [status : Live \cup {"completed", "failed", "cancelled"},
                revision : Revisions, holder : Executors \cup {NoOne}]
    /\ status \in [Amendments -> {"absent", "extracting", "needs_review", "pending",
                                  "superseded", "applied", "failed"}]
    /\ target \in [Amendments -> Targets]
    /\ base \in [Amendments -> Revisions] /\ result \in [Amendments -> Revisions]
    /\ locked \in SUBSET Rounds
    /\ ckpt \in [boundary : {"none", "before", "after", "finalization"},
                 round : Targets, done : Targets, names : Revisions, under : Revisions]
    /\ barrier \in BOOLEAN
    /\ extractions \in SUBSET Amendments
    /\ review \in [Reviewers -> [row : Amendments \cup {0}, after : Targets, base : Revisions]]
    /\ pc \in [Executors -> {"idle", "starting", "boundary", "waiting", "project",
                             "checkpoint", "round", "stopping", "finalizing"}]
    /\ at \in [Executors -> Targets]
    /\ approved \in [Executors -> Revisions] /\ projected \in [Executors -> Revisions]
    /\ under \in [Executors -> Revisions] /\ chosen \in [Executors -> Revisions]
    /\ taken \in [Executors -> Amendments \cup {0}]
    /\ lapses \in 0 .. MaxLapses
    /\ renamed \in BOOLEAN

NoCheckpoint == [boundary |-> "none", round |-> 0, done |-> 0, names |-> {}, under |-> {}]
NoReview == [row |-> 0, after |-> 0, base |-> {}]

\* An accepted run and its approved requirement, nobody working on it yet.
Init ==
    /\ run = [status |-> "open", revision |-> {}, holder |-> NoOne]
    /\ status = [a \in Amendments |-> "absent"]
    /\ target = [a \in Amendments |-> 0]
    /\ base = [a \in Amendments |-> {}] /\ result = [a \in Amendments |-> {}]
    /\ locked = {} /\ ckpt = NoCheckpoint /\ barrier = FALSE
    /\ extractions = {}
    /\ review = [v \in Reviewers |-> NoReview]
    /\ pc = [e \in Executors |-> "idle"] /\ at = [e \in Executors |-> 0]
    /\ approved = [e \in Executors |-> {}] /\ projected = [e \in Executors |-> {}]
    /\ under = [e \in Executors |-> {}] /\ chosen = [e \in Executors |-> {}]
    /\ taken = [e \in Executors |-> 0]
    /\ lapses = 0 /\ renamed = FALSE

-----------------------------------------------------------------------------
(* The amendment rows.                                                     *)

Open == run.status \in Live

\* Mutant of NextUnlocked: one round too far.
NextUnlockedOffByOne(after) == after + 2

\* Mutant of NextUnlocked: the rounds already locked are not skipped.
NextUnlockedIgnoringLocks(after) == after + 1

\* _next_unlocked_round_in_transaction
NextUnlocked(after) == Min({r \in (after + 1) .. (MaxRounds + 1) : r \notin locked})

\* The rows reserve_next_round_requirement refuses to reserve behind.
Unsettled == {a \in Amendments : status[a] \in {"extracting", "needs_review"}}

\* The pending row a new amendment builds on: the newest of the latest round.
Predecessors(t) ==
    LET pending == {a \in Amendments : status[a] = "pending" /\ target[a] <= t}
    IN {a \in pending : \A b \in pending :
            target[b] < target[a] \/ (target[b] = target[a] /\ b <= a)}

BaseFor(t) ==
    IF Predecessors(t) = {} THEN run.revision
    ELSE result[CHOOSE a \in Predecessors(t) : TRUE]

\* _supersede_requirement_chain_predecessor, for row a with base b and target t
SupersededBy(a, b, t) ==
    LET chain == {p \in Amendments \ {a} :
                    status[p] = "pending" /\ target[p] = t /\ result[p] = b}
    IN {p \in chain : \A q \in chain : q <= p}

\* The row a becomes pending for round t and replaces its predecessor.
BecomesPending(a, b, t) ==
    /\ status' = [p \in Amendments |->
                    IF p = a THEN "pending"
                    ELSE IF p \in SupersededBy(a, b, t) THEN "superseded" ELSE status[p]]
    /\ target' = [target EXCEPT ![a] = t]
    /\ result' = [result EXCEPT ![a] = b \cup {a}]
    /\ UNCHANGED base

-----------------------------------------------------------------------------
(* Submitting.                                                             *)

\* submit_next_round_requirement reads the run and then reserves a row.  Its call
\* may be slow, and an event without a round clears current_round, so the round it
\* read is none or any that was ever current.  reserve_next_round_requirement
\* raises on a closed run and behind an unsettled row.
Reserve(after) ==
    /\ Open
    /\ Unsettled = {}
    /\ \E a \in Amendments :
          /\ status[a] = "absent"
          /\ \A b \in Amendments : status[b] = "absent" => a <= b
          /\ status' = [status EXCEPT ![a] = "extracting"]
          /\ target' = [target EXCEPT ![a] = NextUnlocked(after)]
          /\ base' = [base EXCEPT ![a] = BaseFor(NextUnlocked(after))]
          /\ extractions' = extractions \cup {a}
    /\ UNCHANGED <<run, result, locked, ckpt, barrier, review, execVars, lapses, renamed>>

\* save_approved_requirement and complete_runtime_requirement_amendment_extraction.
ExtractionCompletes(a) ==
    /\ a \in extractions
    /\ BecomesPending(a, base[a], target[a])
    /\ extractions' = extractions \ {a}
    /\ UNCHANGED <<run, locked, ckpt, barrier, review, execVars, lapses, renamed>>

\* The extraction found review items, or failed.
ExtractionStops(a) ==
    /\ a \in extractions
    /\ \E s \in {"needs_review", "failed"} : status' = [status EXCEPT ![a] = s]
    /\ extractions' = extractions \ {a}
    /\ UNCHANGED <<run, target, base, result, locked, ckpt, barrier, review, execVars,
                   lapses, renamed>>

\* The process dies during the extraction; the row stays extracting.
SubmitterDies(a) ==
    /\ a \in extractions
    /\ extractions' = extractions \ {a}
    /\ UNCHANGED <<run, rows, locked, ckpt, barrier, review, execVars, lapses, renamed>>

\* resolve_next_round_requirement_review reads the row.
BeginReview(v, a) ==
    /\ Open
    /\ review[v].row = 0
    /\ status[a] = "needs_review"
    /\ review' = [review EXCEPT ![v] =
                     [row |-> a, after |-> target[a] - 1, base |-> base[a]]]
    /\ UNCHANGED <<run, rows, locked, ckpt, barrier, extractions, execVars, lapses,
                   renamed>>

\* resolve_runtime_requirement_amendment: the UPDATE has no condition on the status.
ResolveReview(v) ==
    /\ review[v].row # 0
    /\ IF Open
       THEN BecomesPending(review[v].row, review[v].base, NextUnlocked(review[v].after))
       ELSE UNCHANGED rows
    /\ review' = [review EXCEPT ![v] = NoReview]
    /\ UNCHANGED <<run, locked, ckpt, barrier, extractions, execVars, lapses, renamed>>

-----------------------------------------------------------------------------
(* Execution attempts.                                                     *)

Holds(e) == run.holder = e /\ Open

\* The attempt returns or raises; its closures are gone.
Ends(e) ==
    /\ pc' = [pc EXCEPT ![e] = "idle"]
    /\ at' = [at EXCEPT ![e] = 0]
    /\ approved' = [approved EXCEPT ![e] = {}] /\ projected' = [projected EXCEPT ![e] = {}]
    /\ under' = [under EXCEPT ![e] = {}]
    /\ taken' = [taken EXCEPT ![e] = 0] /\ chosen' = [chosen EXCEPT ![e] = {}]

\* Mutant of Claim: the resumed state is taken to be under the run's revision.
ClaimAssumingActive(e) ==
    /\ run.status = "open" /\ run.holder = NoOne
    /\ pc[e] = "idle"
    /\ run' = [run EXCEPT !.status = "starting", !.holder = e]
    /\ pc' = [pc EXCEPT ![e] = "starting"]
    /\ approved' = [approved EXCEPT ![e] = run.revision]
    /\ projected' = [projected EXCEPT ![e] = run.revision]
    /\ under' = [under EXCEPT ![e] =
                    IF ckpt.boundary = "none" THEN run.revision ELSE ckpt.under]
    /\ UNCHANGED <<rows, locked, ckpt, barrier, extractions, review, at, taken, chosen,
                   lapses, renamed>>

\* A claimed attempt reads the run and the checkpoint (_load_resume_checkpoint):
\* RecoveryStateAssembler takes the sheet of the revision the checkpoint names and
\* the query terms and scorecards as they were written.
Claim(e) ==
    /\ run.status = "open" /\ run.holder = NoOne
    /\ pc[e] = "idle"
    /\ run' = [run EXCEPT !.status = "starting", !.holder = e]
    /\ pc' = [pc EXCEPT ![e] = "starting"]
    /\ approved' = [approved EXCEPT ![e] = run.revision]
    /\ projected' = [projected EXCEPT ![e] =
                        IF ckpt.boundary = "none" THEN run.revision ELSE ckpt.names]
    /\ under' = [under EXCEPT ![e] =
                    IF ckpt.boundary = "none" THEN run.revision ELSE ckpt.under]
    /\ UNCHANGED <<rows, locked, ckpt, barrier, extractions, review, at, taken, chosen,
                   lapses, renamed>>

\* runtime_resumed, or runtime_executor_started of a first attempt
ReportRunning(e) ==
    /\ run.status = "starting"
    /\ pc[e] = "starting"
    /\ Holds(e)
    /\ run' = [run EXCEPT !.status = "open"]
    /\ UNCHANGED <<rows, locked, ckpt, barrier, extractions, review, execVars, lapses,
                   renamed>>

\* _resume_continuation: where the attempt goes on.  A recovered source round
\* skips the boundary it has already crossed.
Resumption ==
    IF ckpt.boundary = "finalization" THEN "finalizing"
    ELSE IF barrier THEN "round"
    ELSE IF ckpt.done < MaxRounds THEN "boundary" ELSE "stopping"

\* The round loop begins at the round of the checkpoint.
Start(e) ==
    /\ run.status = "open"
    /\ pc[e] = "starting"
    /\ Holds(e)
    /\ pc' = [pc EXCEPT ![e] = Resumption]
    /\ at' = [at EXCEPT ![e] = ckpt.done + 1]
    /\ UNCHANGED <<run, rows, locked, ckpt, barrier, extractions, review, approved,
                   projected, under,
                   taken, chosen, lapses, renamed>>

\* _refresh_recovered_scoring_semantics writes the resumed state again, under
\* the name of the run's revision.  An open round barrier refuses the write and
\* the run fails (RunFails).
StartRefreshed(e) ==
    /\ run.status = "open" /\ ckpt.boundary # "none" /\ ~barrier
    /\ pc[e] = "starting"
    /\ Holds(e)
    /\ ckpt' = [ckpt EXCEPT !.names = approved[e], !.under = under[e]]
    /\ renamed' = (renamed \/ approved[e] # projected[e])
    /\ pc' = [pc EXCEPT ![e] = Resumption]
    /\ at' = [at EXCEPT ![e] = ckpt.done + 1]
    /\ UNCHANGED <<run, rows, locked, barrier, extractions, review, approved, projected,
                   under,
                   taken, chosen, lapses>>

\* prepare_next_round_requirements_at_boundary locks the input of the round.
LockRound(e) ==
    /\ pc[e] = "boundary"
    /\ Holds(e)
    /\ locked' = locked \cup {at[e]}
    /\ pc' = [pc EXCEPT ![e] = "waiting"]
    /\ UNCHANGED <<run, rows, ckpt, barrier, extractions, review, at, approved,
                   projected, under,
                   taken, chosen, lapses, renamed>>

\* _wait_for_blocking_next_round_requirements
Blocking(k) == {a \in Unsettled : target[a] = k}

Pending(k) == {a \in Amendments : status[a] = "pending" /\ target[a] = k}

BoundaryReady(k) == Blocking(k) = {} /\ Cardinality(Pending(k)) <= 1

\* runtime_round_boundary_callback
Prepare(e) ==
    /\ pc[e] = "waiting"
    /\ BoundaryReady(at[e])
    /\ LET goal == IF Pending(at[e]) = {} THEN run.revision
                   ELSE result[CHOOSE a \in Pending(at[e]) : TRUE] IN
       IF goal = projected[e]
       THEN /\ pc' = [pc EXCEPT ![e] = "checkpoint"]
            /\ UNCHANGED <<taken, chosen>>
       ELSE /\ pc' = [pc EXCEPT ![e] = "project"]
            /\ taken' = [taken EXCEPT ![e] =
                            IF Pending(at[e]) = {} THEN 0
                            ELSE CHOOSE a \in Pending(at[e]) : TRUE]
            /\ chosen' = [chosen EXCEPT ![e] = goal]
    /\ UNCHANGED <<run, rows, locked, ckpt, barrier, extractions, review, at, approved,
                   projected, under, lapses, renamed>>

\* runtime_round_boundary_commit_callback without a row to activate: nothing is
\* written, the closures and the state move to the chosen revision.
AdoptRevision(e) ==
    /\ pc[e] = "project"
    /\ taken[e] # 0 => status[taken[e]] = "applied"
    /\ under' = [under EXCEPT ![e] = chosen[e]]
    /\ approved' = [approved EXCEPT ![e] = chosen[e]]
    /\ projected' = [projected EXCEPT ![e] = chosen[e]]
    /\ pc' = [pc EXCEPT ![e] = "checkpoint"]
    /\ taken' = [taken EXCEPT ![e] = 0] /\ chosen' = [chosen EXCEPT ![e] = {}]
    /\ UNCHANGED <<run, rows, locked, ckpt, barrier, extractions, review, at, lapses,
                   renamed>>

\* activate_requirement_amendment_at_boundary, then the closures and the state.
Activate(e) ==
    /\ pc[e] = "project"
    /\ taken[e] # 0
    /\ Holds(e)
    /\ status[taken[e]] = "pending" /\ target[taken[e]] = at[e]
    /\ status' = [status EXCEPT ![taken[e]] = "applied"]
    /\ run' = [run EXCEPT !.revision = result[taken[e]]]
    /\ under' = [under EXCEPT ![e] = chosen[e]]
    /\ approved' = [approved EXCEPT ![e] = chosen[e]]
    /\ projected' = [projected EXCEPT ![e] = chosen[e]]
    /\ pc' = [pc EXCEPT ![e] = "checkpoint"]
    /\ taken' = [taken EXCEPT ![e] = 0] /\ chosen' = [chosen EXCEPT ![e] = {}]
    /\ UNCHANGED <<target, base, result, locked, ckpt, barrier, extractions, review, at,
                   lapses, renamed>>

\* runtime_checkpoint_callback
WriteCheckpoint(e, boundary, round, done) ==
    ckpt' = [boundary |-> boundary, round |-> round, done |-> done,
             names |-> approved[e], under |-> under[e]]

\* The before_round_controller checkpoint; the round then runs under `under`.
EnterRound(e) ==
    /\ pc[e] = "checkpoint"
    /\ Holds(e)
    /\ WriteCheckpoint(e, "before", at[e], at[e] - 1)
    /\ pc' = [pc EXCEPT ![e] = "round"]
    /\ UNCHANGED <<run, rows, locked, barrier, extractions, review, at, approved, projected,
                   under, taken, chosen, lapses, renamed>>

\* open_workflow_round_barrier: the source lanes of the round are durable.
OpenBarrier(e) ==
    /\ pc[e] = "round"
    /\ Holds(e)
    /\ ~barrier
    /\ barrier' = TRUE
    /\ UNCHANGED <<run, rows, locked, ckpt, extractions, review, execVars, lapses, renamed>>

\* The after_round_controller checkpoint settles the barrier.
FinishRound(e) ==
    /\ pc[e] = "round"
    /\ Holds(e)
    /\ WriteCheckpoint(e, "after", at[e], at[e])
    /\ barrier' = FALSE
    /\ IF at[e] < MaxRounds
       THEN /\ pc' = [pc EXCEPT ![e] = "boundary"]
            /\ at' = [at EXCEPT ![e] = @ + 1]
       ELSE /\ pc' = [pc EXCEPT ![e] = "stopping"]
            /\ UNCHANGED at
    /\ UNCHANGED <<run, rows, locked, extractions, review, approved, projected, under,
                   taken,
                   chosen, lapses, renamed>>

\* The controller stops the search before it opens the round's lanes.
StopSearch(e) ==
    /\ pc[e] = "round"
    /\ ~barrier
    /\ pc' = [pc EXCEPT ![e] = "stopping"]
    /\ UNCHANGED <<run, rows, locked, ckpt, barrier, extractions, review, at, approved,
                   projected,
                   under, taken, chosen, lapses, renamed>>

\* The before_finalization checkpoint.
EnterFinalization(e) ==
    /\ pc[e] = "stopping"
    /\ Holds(e)
    /\ WriteCheckpoint(e, "finalization", ckpt.done, ckpt.done)
    /\ pc' = [pc EXCEPT ![e] = "finalizing"]
    /\ UNCHANGED <<run, rows, locked, barrier, extractions, review, at, approved,
                   projected, under,
                   taken, chosen, lapses, renamed>>

\* _settle_completed_run
Complete(e) ==
    /\ pc[e] = "finalizing"
    /\ Holds(e)
    /\ run' = [run EXCEPT !.status = "completed", !.holder = NoOne]
    /\ Ends(e)
    /\ UNCHANGED <<rows, locked, ckpt, barrier, extractions, review, lapses, renamed>>

\* An error of execute_claimed_run ends the run.
RunFails(e) ==
    /\ Holds(e)
    /\ run' = [run EXCEPT !.status = "failed", !.holder = NoOne]
    /\ Ends(e)
    /\ UNCHANGED <<rows, locked, ckpt, barrier, extractions, review, lapses, renamed>>

\* Mutant of BoundaryFails: the boundary waits without a deadline.
BoundaryNeverFails(e) == pc[e] = "waiting" /\ BoundaryReady(at[e]) /\ RunFails(e)

\* The wait of 30 s is over (runtime_requirement_amendment_extraction_timeout), or
\* two rows are pending (runtime_requirement_amendment_chain_conflict).
BoundaryFails(e) == pc[e] = "waiting" /\ ~BoundaryReady(at[e]) /\ RunFails(e)

\* The projection, the activation (requirement_amendment_stale), a stage of the
\* round or the finalization raises, a refresh meets an open barrier, or an event is
\* refused because a pause is requested (pause_requested has no edge to running).
WorkFails(e) == pc[e] \notin {"idle", "waiting"} /\ RunFails(e)

\* Before or after a dispatch of the round's lanes the attempt gives the run back:
\* a pause is applied, the browser lane is busy, an operation must be reconciled.
Park(e) ==
    /\ pc[e] = "round" /\ barrier
    /\ Holds(e)
    /\ run' = [run EXCEPT !.status = "parked", !.holder = NoOne]
    /\ Ends(e)
    /\ UNCHANGED <<rows, locked, ckpt, barrier, extractions, review, lapses, renamed>>

\* The store refuses a superseded attempt or a closed run; the attempt ends.
FencedOut(e) ==
    /\ pc[e] # "idle"
    /\ ~Holds(e)
    /\ Ends(e)
    /\ UNCHANGED <<run, rows, locked, ckpt, barrier, extractions, review, lapses, renamed>>

-----------------------------------------------------------------------------
(* The world around them.                                                  *)

\* What becomes of a run whose lease ran out: it fails without a checkpoint or with
\* a pause requested; an operation in doubt, of an open barrier only, parks it; and
\* the settlement rolls back, pass after pass, when a resumed attempt had not yet
\* reported running or an earlier attention was resolved.
Settlements ==
    IF ckpt.boundary = "none" THEN {"failed"}
    ELSE (IF run.status = "starting" THEN {"stranded"} ELSE {"open", "failed"})
         \cup (IF barrier THEN {"parked", "stranded"} ELSE {})

\* The lease runs out (the process died or stalled) and is settled, or never is:
\* either way it is no longer held.
LoseLease ==
    /\ Open /\ run.holder # NoOne
    /\ lapses < MaxLapses
    /\ lapses' = lapses + 1
    /\ \E s \in Settlements : run' = [run EXCEPT !.status = s, !.holder = NoOne]
    /\ UNCHANGED <<rows, locked, ckpt, barrier, extractions, review, execVars, renamed>>

\* resume_workflow, or the end of what a parked run waited for.
Unpark ==
    /\ run.status = "parked"
    /\ run' = [run EXCEPT !.status = "open"]
    /\ UNCHANGED <<rows, locked, ckpt, barrier, extractions, review, execVars, lapses,
                   renamed>>

\* request_pause of a run that waits to be resumed: no executor will apply it, nobody
\* claims a pause_requested run and resume_workflow asks for a paused one.
PauseWaiting ==
    /\ run.status = "open" /\ run.holder = NoOne /\ ckpt.boundary # "none"
    /\ run' = [run EXCEPT !.status = "stranded"]
    /\ UNCHANGED <<rows, locked, ckpt, barrier, extractions, review, execVars, lapses,
                   renamed>>

\* A cancellation is applied.
CancelRun ==
    /\ Open
    /\ run' = [run EXCEPT !.status = "cancelled", !.holder = NoOne]
    /\ UNCHANGED <<rows, locked, ckpt, barrier, extractions, review, execVars, lapses,
                   renamed>>

ExecutorStep(e) ==
    \/ ReportRunning(e) \/ Start(e) \/ StartRefreshed(e)
    \/ LockRound(e) \/ Prepare(e) \/ AdoptRevision(e)
    \/ Activate(e) \/ EnterRound(e) \/ OpenBarrier(e) \/ FinishRound(e) \/ StopSearch(e)
    \/ EnterFinalization(e) \/ Complete(e)
    \/ BoundaryFails(e) \/ WorkFails(e) \/ Park(e) \/ FencedOut(e)

Next ==
    \/ \E after \in {0} \cup locked : Reserve(after)
    \/ \E a \in Amendments : ExtractionCompletes(a) \/ ExtractionStops(a) \/ SubmitterDies(a)
    \/ \E v \in Reviewers : ResolveReview(v) \/ \E a \in Amendments : BeginReview(v, a)
    \/ \E e \in Executors : Claim(e) \/ ExecutorStep(e)
    \/ LoseLease \/ Unpark \/ PauseWaiting \/ CancelRun

Spec == Init /\ [][Next]_vars

\* Some runner comes to a run that waits for an executor and some attempt goes on;
\* neither the user, nor the extraction, nor a failure has to happen.
FairSpec == Spec /\ WF_vars(\E e \in Executors : Claim(e) \/ ExecutorStep(e))

-----------------------------------------------------------------------------
(* What the amendments promise.                                            *)

\* runtime_requirement_amendment_chain_conflict is never raised: at most one
\* pending row per round, however submissions, reviews and the locking of
\* rounds interleave (reserve_next_round_requirement, commands.py:573).
OnePendingPerRound == \A k \in 1 .. (MaxRounds + 1) : Cardinality(Pending(k)) <= 1

\* The round loop searches under the run's active revision, also after a crash
\* between the activation and the checkpoint (executor.py:285), as long as no
\* refresh has renamed a checkpoint.
InRound(e) == Holds(e) /\ pc[e] = "round"

RoundUsesActiveRevision ==
    \A e \in Executors : InRound(e) /\ ~renamed => under[e] = run.revision

\* A round runs under exactly the changes submitted for it or for an earlier
\* round: none is lost to a concurrent submission, none is early, and the input
\* lock closes the round (store.py:3247, commands.py:530).
Submitted(k) ==
    {a \in Amendments : status[a] \notin {"absent", "failed"} /\ target[a] <= k}

RoundHonoursSubmissions ==
    \A e \in Executors : InRound(e) /\ ~renamed => under[e] = Submitted(at[e])

\* A locked round is entered or the run ends, unless the run is stranded: neither an
\* extraction that never returns, nor a review nobody resolves, nor a parked run can
\* hold the boundary (commands.py:644).  Stranded are a resumed attempt that died
\* before it reported running and a run paused while it waited to be resumed.
LockedRoundIsSettled ==
    \A k \in Rounds : k \in locked ~>
        \/ ckpt.boundary = "before" /\ ckpt.round = k
        \/ ckpt.done >= k
        \/ ~Open \/ run.status = "stranded"

=============================================================================
