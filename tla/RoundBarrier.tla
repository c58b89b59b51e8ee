---------------------------- MODULE RoundBarrier ----------------------------
(***************************************************************************)
(* One search round as a durable workflow: the worker opens a barrier over *)
(* the lanes of the round (one per query and target), moves each lane      *)
(* through its transitions (source_dispatch, detail_queued,                *)
(* detail_dispatch, lane_completed) while the source operations behind     *)
(* them are accepted, sent, observed and committed, and writes the         *)
(* checkpoint that closes the barrier.  An attempt that dies is followed   *)
(* by one that resumes the round from the transitions (store.py,           *)
(* liepin_cards_source_operation.py, sources/liepin/runtime_lane.py,       *)
(* providers/liepin/liepin_search_workflow.py).                            *)
(*                                                                         *)
(* An operation reads the cards of a query, or resolves the locator of a   *)
(* card, or captures the resume behind a locator: its item.  One           *)
(* transaction of the store, or one exchange with the sidecar, is one step *)
(* and the worker may die between any two.  Which executor may write, and  *)
(* how an operation's dispatch is fenced, is the subject of RunControl and *)
(* SourceDispatch.                                                         *)
(***************************************************************************)
EXTENDS Naturals, FiniteSets, FiniteSetsExt

CONSTANTS
    NumLanes,      \* lanes of the round plan, in plan order
    Query,         \* the logical query of each lane
    Target,        \* logical_target_total of each lane's query
    MaxCards,      \* max_cards of each lane
    Seen,          \* <<lane, rank>> of the candidates the run had opened before
    MaxCrashes,    \* bound on the attempts that die
    MaxUnknowns    \* bound on the operations whose answer is lost

Lanes == 1 .. NumLanes

ASSUME PlanAssumption ==
    /\ NumLanes \in Nat
    /\ Target \in [Lanes -> Nat \ {0}] /\ MaxCards \in [Lanes -> Nat]
    /\ \A l, m \in Lanes : Query[l] = Query[m] => Target[l] = Target[m]
    /\ MaxCrashes \in Nat /\ MaxUnknowns \in Nat

VARIABLES
    run,       \* "running", "resumable" (resume_requested), "starting" (claimed again),
               \* "attention" (needs_attention), "failed", or "done" when the round's
               \* checkpoint is written
    attended,  \* the run's row of runtime_control_recovery_attention is resolved
    barrier,   \* runtime_control_workflow_round_barriers: "none", "active", "checkpointed"
    lane,      \* status of each row of runtime_control_workflow_barrier_lanes
    step, at, epoch,  \* the active transition of each lane: step_kind, the item of
               \* its operation, its dispatchAuthorizationOrdinal
    op,        \* the source operation of each item
    found,     \* cards the cards operation of a lane found
    want,      \* requested_count of a lane's detail work plan
    prep,      \* phase of the verify_session operation of prepare_readiness
    mem,       \* what the running attempt holds in memory
    crashes, unknowns

ops == <<op, found>>
transitions == <<lane, step, at, epoch>>
past == <<attended, crashes, unknowns>>
vars == <<run, barrier, transitions, ops, want, prep, mem, past>>

Cards == <<"cards", 0>>
Locator(k) == <<"locator", k>>
Capture(k) == <<"capture", k>>
Ranks == 1 .. Max({MaxCards[l] : l \in Lanes} \cup {0})
Items == {Cards} \cup {Locator(k) : k \in Ranks} \cup {Capture(k) : k \in Ranks}

Idle == [pc |-> "idle", lane |-> 0, item |-> Cards, mode |-> "search", opened |-> 0,
         skips |-> {}, resumed |-> FALSE, prepared |-> FALSE, stop |-> FALSE]

NoOperation == [phase |-> "absent", ord |-> 0, res |-> "none"]

TypeOK ==
    /\ run \in {"running", "resumable", "starting", "attention", "failed", "done"}
    /\ attended \in BOOLEAN
    /\ barrier \in {"none", "active", "checkpointed"}
    /\ lane \in [Lanes -> {"pending", "skipped", "active", "completed"}]
    /\ step \in [Lanes -> {"none", "source_dispatch", "detail_queued", "detail_dispatch",
                           "lane_completed"}]
    /\ at \in [Lanes -> Items]
    /\ epoch \in [Lanes -> 0 .. (MaxUnknowns + 1)]
    /\ op \in [Lanes -> [Items ->
                [phase : {"absent", "pending", "acked", "observed", "committed", "unknown",
                          "safe_retry", "concluded"},
                 ord : 0 .. (MaxUnknowns + 1), res : {"none", "ok", "failed"}]]]
    /\ found \in [Lanes -> Ranks \cup {0}]
    /\ want \in [Lanes -> Nat] /\ \A l \in Lanes : want[l] <= Target[l]
    /\ prep \in {"none", "accepted", "observed", "committed"}
    /\ mem \in [pc : {"idle", "lanes", "item", "preparing", "ready", "send", "ack",
                      "observe", "settled", "captures", "complete", "skips", "checkpoint"},
                lane : Lanes \cup {0}, item : Items \cup {Capture(0)},
                mode : {"search", "resume", "queue"}, opened : Ranks \cup {0},
                skips : SUBSET Lanes, resumed : BOOLEAN, prepared : BOOLEAN, stop : BOOLEAN]
    /\ crashes \in 0 .. MaxCrashes /\ unknowns \in 0 .. MaxUnknowns

\* The round is about to be searched: its controller has chosen the queries and
\* the before_round_controller checkpoint is written.
Init ==
    /\ run = "running" /\ attended = FALSE /\ barrier = "none"
    /\ lane = [l \in Lanes |-> "pending"] /\ step = [l \in Lanes |-> "none"]
    /\ at = [l \in Lanes |-> Cards] /\ epoch = [l \in Lanes |-> 0]
    /\ op = [l \in Lanes |-> [i \in Items |-> NoOperation]]
    /\ found = [l \in Lanes |-> 0] /\ want = [l \in Lanes |-> 0]
    /\ prep = "none" /\ mem = [Idle EXCEPT !.pc = "lanes"]
    /\ crashes = 0 /\ unknowns = 0

-----------------------------------------------------------------------------
(* What the rows say.                                                      *)

Settled(o) == o.phase \in {"observed", "committed"}

\* _completed_detail_results, successful or not
SettledCaptures(l) == {k \in 1 .. found[l] : Settled(op[l][Capture(k)])}

\* candidate_store_updates of the lane's result
Opened(l) == {k \in SettledCaptures(l) : op[l][Capture(k)].res = "ok"}

\* _capture_plan_from_completed_locators
CapturePlan(l) ==
    {k \in 1 .. found[l] : Settled(op[l][Locator(k)]) /\ op[l][Locator(k)].res = "ok"}

\* remaining_target: the target of the query less what its earlier lanes opened.
Remaining(l) ==
    LET opened == UNION {{m} \X Opened(m) :
                    m \in {m \in 1 .. (l - 1) : Query[m] = Query[l] /\ lane[m] = "completed"}}
    IN IF Cardinality(opened) >= Target[l] THEN 0 ELSE Target[l] - Cardinality(opened)

Unresolved == {x \in Lanes \X Items : op[x[1]][x[2]].phase \notin {"absent", "committed"}}

\* Dispatched operations, with the epoch their transition names.
InDispatch == {l \in Lanes : /\ lane[l] = "active"
                             /\ step[l] \in {"source_dispatch", "detail_dispatch"}
                             /\ op[l][at[l]].phase # "absent"}

\* _source_dispatch_is_recoverable, _detail_dispatch_is_recoverable
DispatchRecoverable(l) ==
    /\ op[l][at[l]].phase \in {"observed", "pending", "acked", "safe_retry"}
    /\ op[l][at[l]].ord = epoch[l]

LaneRecoverable(l) ==
    \/ lane[l] \in {"pending", "skipped"} /\ step[l] = "none"
    \/ /\ lane[l] = "completed" /\ step[l] = "lane_completed"
       /\ op[l][at[l]].phase = "committed"
    \/ /\ lane[l] = "active" /\ step[l] \in {"source_dispatch", "detail_dispatch"}
       /\ IF op[l][at[l]].phase = "absent" THEN step[l] = "source_dispatch" /\ epoch[l] = 0
                                           ELSE DispatchRecoverable(l)
    \/ lane[l] = "active" /\ step[l] = "detail_queued" /\ op[l][at[l]].phase = "absent"

\* _source_operations_recoverable_at_checkpoint: an operation that belongs to no
\* transition, prepare_readiness's among them, makes the round unrecoverable.
Recoverable ==
    /\ prep \in {"none", "committed"}
    /\ barrier = "none" => Unresolved = {}
    /\ barrier = "active" => /\ \A l \in Lanes : LaneRecoverable(l)
                             /\ Unresolved = {<<l, at[l]>> : l \in InDispatch}

-----------------------------------------------------------------------------
(* The attempt moves over the lanes of the plan.                           *)

Here == mem.lane
Op == op[Here][mem.item]
Goto(pc) == mem' = [mem EXCEPT !.pc = pc]
At(pc) == run = "running" /\ mem.pc = pc

\* An error leaves the attempt: the run has failed.
Fails == run' = "failed" /\ mem' = Idle

\* A lane that ends without being completed: the attempt goes on to the next.
Blocked == Goto("lanes")

\* open_workflow_round_barrier
OpenBarrier ==
    /\ At("lanes") /\ barrier = "none"
    /\ barrier' = "active"
    /\ UNCHANGED <<run, transitions, ops, want, prep, mem, past>>

InBarrier == At("lanes") /\ barrier = "active" /\ mem.lane < NumLanes /\ ~mem.stop

\* The next lane has something to do.
Begin(l, item, mode) ==
    mem' = [mem EXCEPT !.lane = l, !.pc = "item", !.item = item, !.mode = mode,
                       !.opened = 0]

\* A lane nobody began, or one still reading its cards, while the query's
\* target is not met.
SearchLane ==
    LET l == mem.lane + 1 IN
    /\ InBarrier
    /\ lane[l] = "pending" \/ step[l] = "source_dispatch"
    /\ Remaining(l) > 0
    /\ Begin(l, Cards, "search")
    /\ UNCHANGED <<run, barrier, transitions, ops, want, prep, past>>

\* The target is met: run_liepin_logical_query_bundle skips the lane when all
\* queries are through, resume_liepin_round_work_plan at once.
SkipLater ==
    LET l == mem.lane + 1 IN
    /\ InBarrier /\ lane[l] = "pending" /\ Remaining(l) = 0 /\ ~mem.resumed
    /\ mem' = [mem EXCEPT !.lane = l, !.skips = @ \cup {l}]
    /\ UNCHANGED <<run, barrier, transitions, ops, want, prep, past>>

SkipNow ==
    LET l == mem.lane + 1 IN
    /\ InBarrier /\ lane[l] = "pending" /\ Remaining(l) = 0 /\ mem.resumed
    /\ lane' = [lane EXCEPT ![l] = "skipped"]
    /\ mem' = [mem EXCEPT !.lane = l]
    /\ UNCHANGED <<run, barrier, step, at, epoch, ops, want, prep, past>>

\* A dispatched lane with no target left is refused.
RefuseLane ==
    LET l == mem.lane + 1 IN
    /\ InBarrier /\ step[l] = "source_dispatch" /\ Remaining(l) = 0
    /\ Fails
    /\ UNCHANGED <<barrier, transitions, ops, want, prep, past>>

\* resume_detail_workflow_transition
ResumeQueue ==
    LET l == mem.lane + 1 IN
    /\ InBarrier /\ step[l] \in {"detail_queued", "detail_dispatch"}
    /\ Begin(l, at[l], "resume")
    /\ UNCHANGED <<run, barrier, transitions, ops, want, prep, past>>

\* A settled lane is replayed from its artifacts.
ReplayLane ==
    LET l == mem.lane + 1 IN
    /\ InBarrier /\ lane[l] \in {"skipped", "completed"}
    /\ mem' = [mem EXCEPT !.lane = l]
    /\ UNCHANGED <<run, barrier, transitions, ops, want, prep, past>>

LanesDone ==
    /\ At("lanes") /\ barrier = "active"
    /\ mem.lane = NumLanes \/ mem.stop
    /\ Goto("skips")
    /\ UNCHANGED <<run, barrier, transitions, ops, want, prep, past>>

-----------------------------------------------------------------------------
(* One item: its transition, its operation, its answer.                    *)

\* prepare_readiness: the session is verified before the lane's cards are read.
PrepareReadiness ==
    /\ At("item") /\ mem.item = Cards /\ mem.mode = "search" /\ prep = "none"
    /\ prep' = "accepted" /\ Goto("preparing")
    /\ UNCHANGED <<run, barrier, transitions, ops, want, past>>

\* Its operation is owned by this attempt's memory until the checkpoint.
Prepared ==
    /\ At("preparing")
    /\ prep' = "observed"
    /\ \E pc \in {"item", "lanes"} : mem' = [mem EXCEPT !.prepared = TRUE, !.pc = pc]
    /\ UNCHANGED <<run, barrier, transitions, ops, want, past>>

\* _replay_committed_cards, _replay_committed_details
Replay ==
    /\ At("item") /\ Settled(Op)
    /\ Goto("settled")
    /\ UNCHANGED <<run, barrier, transitions, ops, want, prep, past>>

\* _ensure_source_dispatch_transition
PersistCards ==
    /\ At("item") /\ mem.item = Cards /\ Op.phase = "absent"
    /\ lane' = [lane EXCEPT ![Here] = "active"]
    /\ step' = [step EXCEPT ![Here] = "source_dispatch"]
    /\ Goto("ready")
    /\ UNCHANGED <<run, barrier, at, epoch, ops, want, prep, past>>

\* Mutant of Queue: the operation before is not committed with the transition.
QueueWithoutCommit(l, i) ==
    /\ op[l][at[l]].phase = "observed"
    /\ step' = [step EXCEPT ![l] = "detail_queued"]
    /\ at' = [at EXCEPT ![l] = i] /\ epoch' = [epoch EXCEPT ![l] = 0]
    /\ UNCHANGED <<lane, ops>>

\* _queue_detail_work_item: the next item replaces the one before, whose
\* operation must be observed and is committed in the same transaction.
Queue(l, i) ==
    /\ op[l][at[l]].phase = "observed"
    /\ op' = [op EXCEPT ![l][at[l]].phase = "committed"]
    /\ step' = [step EXCEPT ![l] = "detail_queued"]
    /\ at' = [at EXCEPT ![l] = i] /\ epoch' = [epoch EXCEPT ![l] = 0]
    /\ UNCHANGED <<lane, found>>

DetailAbsent == At("item") /\ mem.item # Cards /\ Op.phase = "absent"

\* _persist_detail_dispatch_transition
PersistDetail ==
    /\ DetailAbsent
    /\ \/ step[Here] = "detail_queued" /\ at[Here] = mem.item /\ UNCHANGED <<transitions, ops>>
       \/ step[Here] = "detail_dispatch" /\ Queue(Here, mem.item)
    /\ Goto("ready")
    /\ UNCHANGED <<run, barrier, want, prep, past>>

\* Another item is queued: the search reports a blocked lane, the resume fails.
DetailMismatch ==
    /\ DetailAbsent /\ step[Here] = "detail_queued" /\ at[Here] # mem.item
    /\ IF mem.mode = "search" THEN Blocked /\ UNCHANGED run ELSE Fails
    /\ UNCHANGED <<barrier, transitions, ops, want, prep, past>>

\* The sidecar is not ready: nothing is accepted.  No cards end the lane; a
\* detail counts as failed.
NotReady ==
    /\ At("ready")
    /\ IF mem.item = Cards THEN Blocked ELSE Goto("settled")
    /\ UNCHANGED <<run, barrier, transitions, ops, want, prep, past>>

\* Mutant of Accept: the transition stays behind the operation.
AcceptWithoutTransition ==
    /\ At("ready")
    /\ op' = [op EXCEPT ![Here][mem.item] = [phase |-> "pending", ord |-> 1, res |-> "none"]]
    /\ Goto("send")
    /\ UNCHANGED <<run, barrier, transitions, found, want, prep, past>>

\* accept_source_operation: the operation and the dispatch epoch of its
\* transition in one transaction.
Accept ==
    /\ At("ready")
    /\ op' = [op EXCEPT ![Here][mem.item] = [phase |-> "pending", ord |-> 1, res |-> "none"]]
    /\ step' = [step EXCEPT ![Here] = IF mem.item = Cards THEN "source_dispatch"
                                                         ELSE "detail_dispatch"]
    /\ epoch' = [epoch EXCEPT ![Here] = 1]
    /\ Goto("send")
    /\ UNCHANGED <<run, barrier, lane, at, found, want, prep, past>>

\* An accepted operation nobody answered is delivered again.
Redeliver ==
    /\ At("item") /\ Op.phase = "pending"
    /\ Goto("send")
    /\ UNCHANGED <<run, barrier, transitions, ops, want, prep, past>>

\* Mutant of MintRetry: the transition keeps the epoch before.
MintRetryStaleEpoch ==
    /\ At("item") /\ Op.phase = "safe_retry"
    /\ op' = [op EXCEPT ![Here][mem.item].phase = "pending", ![Here][mem.item].ord = @ + 1]
    /\ Goto("send")
    /\ UNCHANGED <<run, barrier, transitions, found, want, prep, past>>

\* mint_current_safe_retry_dispatch_epoch
MintRetry ==
    /\ At("item") /\ Op.phase = "safe_retry"
    /\ op' = [op EXCEPT ![Here][mem.item].phase = "pending", ![Here][mem.item].ord = @ + 1]
    /\ epoch' = [epoch EXCEPT ![Here] = op[Here][mem.item].ord + 1]
    /\ Goto("send")
    /\ UNCHANGED <<run, barrier, lane, step, at, found, want, prep, past>>

\* Mutant of Effect: the cards beyond max_cards are returned too.
EffectUnbounded ==
    \/ Op.res # "none" /\ UNCHANGED ops
    \/ /\ Op.res = "none"
       /\ \E res \in {"ok", "failed"} :
            /\ op' = [op EXCEPT ![Here][mem.item].res = res]
            /\ IF mem.item = Cards /\ res = "ok"
                 THEN \E n \in 0 .. (MaxCards[Here] + 1) : found' = [found EXCEPT ![Here] = n]
                 ELSE UNCHANGED found

\* The sidecar does the work of an item once and keeps the answer.
Effect ==
    \/ Op.res # "none" /\ UNCHANGED ops
    \/ /\ Op.res = "none"
       /\ \E res \in {"ok", "failed"} :
            /\ op' = [op EXCEPT ![Here][mem.item].res = res]
            /\ IF mem.item = Cards /\ res = "ok"
                 THEN \E n \in 0 .. MaxCards[Here] : found' = [found EXCEPT ![Here] = n]
                 ELSE UNCHANGED found

Send ==
    /\ At("send") /\ Effect /\ Goto("ack")
    /\ UNCHANGED <<run, barrier, transitions, want, prep, past>>

\* The sidecar dies, before or after the effect, and its history is unreadable.
SendLost ==
    /\ At("send") /\ unknowns < MaxUnknowns
    /\ Effect \/ (Op.res = "none" /\ UNCHANGED ops)
    /\ mem' = [mem EXCEPT !.pc = "observe", !.stop = TRUE]
    /\ unknowns' = unknowns + 1
    /\ UNCHANGED <<run, attended, barrier, transitions, want, prep, crashes>>

\* record_source_dispatch_ack
Ack ==
    /\ At("ack")
    /\ op' = [op EXCEPT ![Here][mem.item].phase = "acked"]
    /\ Goto("observe")
    /\ UNCHANGED <<run, barrier, transitions, found, want, prep, past>>

\* _query_terminal_history: the journal has the answer of an acknowledged operation.
QueryHistory ==
    /\ At("item") /\ Op.phase = "acked" /\ Op.res # "none"
    /\ Goto("observe")
    /\ UNCHANGED <<run, barrier, transitions, ops, want, prep, past>>

\* record_owned_source_operation_observation
Observe ==
    /\ At("observe") /\ ~mem.stop
    /\ op' = [op EXCEPT ![Here][mem.item].phase = "observed"]
    /\ Goto("settled")
    /\ UNCHANGED <<run, barrier, transitions, found, want, prep, past>>

\* record_owned_source_reconciliation_unknown: the lane is blocked, and the
\* attempt ends without looking at further lanes.
RecordUnknown ==
    /\ At("observe") /\ mem.stop
    /\ op' = [op EXCEPT ![Here][mem.item].phase = "unknown"]
    /\ Blocked
    /\ UNCHANGED <<run, barrier, transitions, found, want, prep, past>>

-----------------------------------------------------------------------------
(* What the answer leads to.                                               *)

Ok == Settled(Op) /\ Op.res = "ok"
IsLocator == mem.item[1] = "locator"
Rank == mem.item[2]

CardsFailed ==
    /\ At("settled") /\ mem.item = Cards /\ ~Ok
    /\ Blocked
    /\ UNCHANGED <<run, barrier, transitions, ops, want, prep, past>>

NoCards ==
    /\ At("settled") /\ mem.item = Cards /\ Ok /\ found[Here] = 0
    /\ Goto("complete")
    /\ UNCHANGED <<run, barrier, transitions, ops, want, prep, past>>

\* bind_detail_work_plan for the locators of the cards found
BindLocators ==
    /\ At("settled") /\ mem.item = Cards /\ Ok /\ found[Here] > 0
    /\ Queue(Here, Locator(1))
    /\ want' = [want EXCEPT ![Here] = Remaining(Here)]
    /\ mem' = [mem EXCEPT !.pc = "item", !.item = Locator(1)]
    /\ UNCHANGED <<run, barrier, prep, past>>

NextLocator ==
    /\ At("settled") /\ IsLocator /\ Rank < found[Here]
    /\ mem' = [mem EXCEPT !.pc = "item", !.item = Locator(Rank + 1),
                          !.mode = IF @ = "resume" THEN "queue" ELSE @]
    /\ UNCHANGED <<run, barrier, transitions, ops, want, prep, past>>

LastLocator == At("settled") /\ IsLocator /\ Rank = found[Here]

\* The captures of a search start at the first card with a locator; a resume
\* that finds none has nothing left to do.
BindCaptures ==
    /\ LastLocator
    /\ mem.mode = "search" \/ CapturePlan(Here) = {}
    /\ mem' = [mem EXCEPT !.pc = "captures", !.item = Capture(0),
                          !.mode = IF @ = "resume" THEN "queue" ELSE @]
    /\ UNCHANGED <<run, barrier, transitions, ops, want, prep, past>>

\* A resume queues the first capture itself, whoever has opened it before, and
\* fails when the last locator was not even accepted.
QueueFirstCapture ==
    /\ LastLocator /\ mem.mode # "search" /\ CapturePlan(Here) # {}
    /\ IF step[Here] = "detail_dispatch"
         THEN /\ Queue(Here, Capture(Min(CapturePlan(Here))))
              /\ mem' = [mem EXCEPT !.pc = "captures", !.item = Capture(0), !.mode = "queue"]
              /\ UNCHANGED run
         ELSE Fails /\ UNCHANGED <<transitions, ops>>
    /\ UNCHANGED <<barrier, want, prep, past>>

\* Mutant of CaptureSettled: a recovered capture does not count.
CaptureSettledFromZero ==
    /\ At("settled") /\ mem.item[1] = "capture"
    /\ mem' = [mem EXCEPT !.pc = "captures",
                  !.opened = IF mem.mode = "resume" THEN 0 ELSE IF Ok THEN @ + 1 ELSE @,
                  !.mode = IF @ = "resume" THEN "queue" ELSE @]
    /\ UNCHANGED <<run, barrier, transitions, ops, want, prep, past>>

\* After the recovered item a resume counts every settled capture as opened.
CaptureSettled ==
    /\ At("settled") /\ mem.item[1] = "capture"
    /\ mem' = [mem EXCEPT !.pc = "captures",
                  !.opened = IF mem.mode = "resume" THEN Cardinality(SettledCaptures(Here))
                             ELSE IF Ok THEN @ + 1 ELSE @,
                  !.mode = IF @ = "resume" THEN "queue" ELSE @]
    /\ UNCHANGED <<run, barrier, transitions, ops, want, prep, past>>

\* try_claim: a candidate the run has opened before is passed over.
Untried == {k \in CapturePlan(Here) : k > Rank /\ <<Here, k>> \notin Seen}

NextCapture ==
    /\ At("captures") /\ mem.opened < want[Here] /\ Untried # {}
    /\ mem' = [mem EXCEPT !.pc = "item", !.item = Capture(Min(Untried))]
    /\ UNCHANGED <<run, barrier, transitions, ops, want, prep, past>>

\* The search of a lane that opened nothing is blocked; a resume completes it.
CapturesDone ==
    /\ At("captures") /\ (mem.opened >= want[Here] \/ Untried = {})
    /\ IF mem.mode = "search" /\ mem.opened = 0 THEN Blocked ELSE Goto("complete")
    /\ UNCHANGED <<run, barrier, transitions, ops, want, prep, past>>

\* complete_lane
CompleteLane ==
    /\ At("complete")
    /\ IF op[Here][at[Here]].phase = "observed"
         THEN /\ op' = [op EXCEPT ![Here][at[Here]].phase = "committed"]
              /\ lane' = [lane EXCEPT ![Here] = "completed"]
              /\ step' = [step EXCEPT ![Here] = "lane_completed"]
              /\ Goto("lanes") /\ UNCHANGED <<run, at, epoch>>
         ELSE Fails /\ UNCHANGED <<transitions, op>>
    /\ UNCHANGED <<barrier, found, want, prep, past>>

-----------------------------------------------------------------------------
(* The end of the round, and of an attempt.                                *)

\* skip_workflow_barrier_lane
Skip ==
    /\ At("skips") /\ mem.skips # {}
    /\ LET l == Min(mem.skips) IN
        /\ lane' = [lane EXCEPT ![l] = "skipped"]
        /\ mem' = [mem EXCEPT !.skips = @ \ {l}]
    /\ UNCHANGED <<run, barrier, step, at, epoch, ops, want, prep, past>>

LanesSettled == \A l \in Lanes : lane[l] \in {"completed", "skipped"}

\* write_checkpoint_v2 with _checkpoint_workflow_round_barrier
WriteCheckpoint ==
    /\ At("skips") /\ mem.skips = {} /\ ~mem.stop
    /\ LET done == LanesSettled /\ Unresolved = {} /\ (prep \in {"none", "committed"} \/ mem.prepared)
       IN IF done THEN /\ barrier' = "checkpointed" /\ run' = "done"
                       /\ prep' = IF mem.prepared THEN "committed" ELSE prep
                       /\ mem' = Idle
                  ELSE Fails /\ UNCHANGED <<barrier, prep>>
    /\ UNCHANGED <<transitions, ops, want, past>>

\* yield_executor_for_automatic_source_reconciliation
Yield ==
    /\ At("skips") /\ mem.skips = {} /\ mem.stop
    /\ run' = "resumable" /\ mem' = Idle
    /\ UNCHANGED <<barrier, transitions, ops, want, prep, past>>

Crash ==
    /\ run \in {"starting", "running"} /\ mem # Idle /\ crashes < MaxCrashes
    /\ mem' = Idle /\ crashes' = crashes + 1
    /\ UNCHANGED <<run, attended, barrier, transitions, ops, want, prep, unknowns>>

\* The settlement of a dead attempt rolls back, in every pass: the FSM has no edge
\* from starting to resume_requested, and a resolved attention row stays resolved.
SettlementRefused == IF Recoverable THEN run = "starting" ELSE attended

\* settle_next_expired_executor_lease
Lapse ==
    /\ run \in {"starting", "running"} /\ mem = Idle /\ ~SettlementRefused
    /\ run' = IF Recoverable THEN "resumable" ELSE "attention"
    /\ UNCHANGED <<barrier, transitions, ops, want, prep, mem, past>>

UnknownOperations == {x \in Unresolved : op[x[1]][x[2]].phase = "unknown"}

\* claim_next_runnable_run: the next attempt, once no operation waits to be
\* reconciled.
Claim ==
    /\ run = "resumable" /\ UnknownOperations = {}
    /\ run' = "starting"
    /\ mem' = [Idle EXCEPT !.pc = "lanes", !.resumed = (barrier = "active")]
    /\ UNCHANGED <<barrier, transitions, ops, want, prep, past>>

\* _load_resume_checkpoint: the attempt reports running, or that it cannot resume.
Resume ==
    /\ run = "starting" /\ mem.pc = "lanes"
    /\ IF Recoverable THEN run' = "running" /\ UNCHANGED mem ELSE Fails
    /\ UNCHANGED <<barrier, transitions, ops, want, prep, past>>

\* Mutant of Reconcile: an operation whose effect is proved absent stays unknown.
ReconcileNothing(x) == FALSE /\ UNCHANGED vars

\* The reconciliation coordinator reads the sidecar's history: no effect makes
\* the operation repeatable, an answer concludes it.
Reconcile(x) ==
    /\ run \in {"resumable", "attention"} /\ x \in UnknownOperations
    /\ LET done == op[x[1]][x[2]].res # "none" IN
        /\ op' = [op EXCEPT ![x[1]][x[2]].phase = IF done THEN "concluded" ELSE "safe_retry"]
        /\ IF ~done /\ run = "attention" THEN run' = "resumable" /\ attended' = TRUE
                                         ELSE UNCHANGED <<run, attended>>
    /\ UNCHANGED <<barrier, transitions, found, want, prep, mem, crashes, unknowns>>

WorkerStep ==
    \/ OpenBarrier \/ SearchLane \/ SkipLater \/ SkipNow \/ RefuseLane \/ ResumeQueue
    \/ ReplayLane \/ LanesDone
    \/ PrepareReadiness \/ Prepared \/ Replay \/ PersistCards \/ PersistDetail
    \/ DetailMismatch \/ NotReady \/ Accept \/ Redeliver \/ MintRetry \/ Send
    \/ SendLost \/ Ack \/ QueryHistory \/ Observe \/ RecordUnknown
    \/ CardsFailed \/ NoCards \/ BindLocators \/ NextLocator \/ BindCaptures
    \/ QueueFirstCapture \/ CaptureSettled \/ NextCapture \/ CapturesDone
    \/ CompleteLane \/ Skip \/ WriteCheckpoint \/ Yield \/ Resume

Next ==
    \/ WorkerStep \/ Crash \/ Lapse \/ Claim
    \/ \E x \in Lanes \X Items : Reconcile(x)

Spec == Init /\ [][Next]_vars

\* The worker runs, the recovery service looks at the expired lease, the worker
\* claims what may be resumed and the coordinator reconciles, again and again.
Fairness ==
    /\ WF_vars(WorkerStep) /\ WF_vars(Lapse) /\ WF_vars(Claim)
    /\ \A x \in Lanes \X Items : WF_vars(Reconcile(x))

FairSpec == Spec /\ Fairness

-----------------------------------------------------------------------------
(* Properties.                                                             *)

\* A round whose worker may die now can be resumed: between any two steps its
\* rows satisfy what the recovery service and the claim ask of them.  Excepted
\* are an operation whose effect is unknown or concluded by reconciliation, and
\* the operation of prepare_readiness, which no transition accounts for.
RoundIsRecoverable ==
    /\ run \in {"running", "resumable", "starting"} /\ prep \in {"none", "committed"}
    /\ \A x \in Unresolved : op[x[1]][x[2]].phase \notin {"unknown", "concluded"}
    => Recoverable

\* detailCompletedHighWatermark = detailCursor - 1 is true of the operations:
\* everything before the item of the active transition is committed, candidates
\* opened before the round excepted, and nothing after it is accepted.
WatermarkIsTrue ==
    \A l \in Lanes : step[l] \in {"detail_queued", "detail_dispatch"} =>
        LET k == at[l][2]
            committed(i) == op[l][i].phase = "committed"
            absent(i) == op[l][i].phase = "absent"
        IN /\ committed(Cards)
           /\ at[l] = Locator(k) =>
                /\ \A j \in 1 .. (k - 1) : committed(Locator(j))
                /\ \A j \in (k + 1) .. found[l] : absent(Locator(j))
                /\ \A j \in Ranks : absent(Capture(j))
           /\ at[l] = Capture(k) =>
                /\ \A j \in 1 .. found[l] : committed(Locator(j))
                /\ \A j \in CapturePlan(l) :
                    /\ j < k /\ <<l, j>> \notin Seen => committed(Capture(j))
                    /\ j > k => absent(Capture(j))

\* However often a lane is resumed, it opens no more resumes than its plan asked
\* for (requested_count).
OpensAtMostWanted ==
    \A l \in Lanes : Cardinality({k \in Ranks : op[l][Capture(k)].res = "ok"}) <= want[l]

\* A round that was opened is checkpointed, or its run fails or waits for a user,
\* or its attempt died where the settlement of its lease rolls back: before a
\* resumed attempt reported running, or a second time with an operation to attend.
RoundEnds ==
    barrier = "active" ~>
        \/ run \in {"done", "failed", "attention"}
        \/ run \in {"starting", "running"} /\ mem = Idle /\ SettlementRefused

=============================================================================
