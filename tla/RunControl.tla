----------------------------- MODULE RunControl -----------------------------
(***************************************************************************)
(* The durable run-control plane: the runs and executor leases of          *)
(* RuntimeControlStore (store.py), the execution workers that claim and    *)
(* execute runs (worker.py, executor.py), the lifecycle commands           *)
(* (commands.py) and the recovery pass of the runner loop (recovery.py,    *)
(* checkpoint_recovery.py, runtime_runner.py).                             *)
(*                                                                         *)
(* A method of the store that reads before it writes is one SQLite         *)
(* transaction (BEGIN IMMEDIATE), hence one atomic step here.  The one     *)
(* exception is update_run_status: its SELECT runs in autocommit and its   *)
(* UPDATE asks for nothing of what was read, so it is two steps.  A        *)
(* worker, an API request and the recovery pass make several calls one     *)
(* after the other; pc and cmd[c].pc say which comes next, so the calls of *)
(* different actors interleave and an actor may die between its own.       *)
(*                                                                         *)
(* Time is abstract: an active lease row becomes overdue when the clock    *)
(* passes lease_expires_at.  The store compares that column with a         *)
(* timestamp its caller took before the transaction began, so a write of   *)
(* the holder of an overdue row may still be accepted or already refused.  *)
(* Recovery takes the overdue rows in the order of lease_expires_at, which *)
(* is the order in which they became overdue.                              *)
(***************************************************************************)
EXTENDS Naturals, FiniteSets

CONSTANTS
    Runs,         \* runtime_run_id values
    SourceRuns,   \* those whose source_ids name liepin: operations and a browser
    Workers,      \* RuntimeExecutionWorker loops (one per runner process)
    Commands,     \* lifecycle command requests, one idempotency key each
    MaxAttempts,  \* bound on the attempts of one run
    NoRun,        \* a worker that has claimed nothing
    NoCommand     \* a worker that is applying no command

ASSUME MaxAttemptsAssumption == MaxAttempts \in Nat

ASSUME SourceRunsAssumption == SourceRuns \subseteq Runs

ASSUME NoRunAssumption == NoRun \notin Runs

ASSUME NoCommandAssumption == NoCommand \notin Commands

VARIABLES
    status,     \* runtime_control_runs.status, "absent" before acceptance
    latest,     \* SELECT COALESCE(MAX(attempt_no), 0) over the run's leases
    lease,      \* state of the lease row of each attempt
    waiting,    \* is the latest event runtime_resource_waiting, and how old
    ckpt,       \* what latest_checkpoint_id points to
    ops,        \* the run's source operation that is not main-committed
    attention,  \* runtime_control_recovery_attention row of the run
    pc, wrun, watt, reason, wcmd,  \* the workers
    cmd,        \* the command requests and their rows
    earlier     \* pairs of overdue leases, the one that expired first before

runVars == <<status, latest, lease, waiting, ckpt, ops, attention, earlier>>
workerVars == <<pc, wrun, watt, reason, wcmd>>
vars == <<runVars, workerVars, cmd>>

-----------------------------------------------------------------------------
(* The run state machine, fsm.py.                                          *)

Terminal == {"cancelled", "completed", "failed"}

Transitions ==
    [queued |-> {"queued", "starting", "cancellation_requested", "cancelled", "failed"},
     starting |-> {"starting", "running", "needs_attention",
                   "cancellation_requested", "cancelled", "failed"},
     running |-> {"running", "pause_requested", "paused", "resume_requested",
                  "needs_attention", "cancellation_requested", "cancelled",
                  "completed", "failed"},
     pause_requested |-> {"pause_requested", "paused", "needs_attention",
                          "cancellation_requested", "cancelled", "failed"},
     paused |-> {"paused", "resume_requested", "cancellation_requested",
                 "cancelled", "failed"},
     resume_requested |-> {"resume_requested", "starting", "running",
                           "pause_requested", "needs_attention",
                           "cancellation_requested", "cancelled", "failed"},
     needs_attention |-> {"needs_attention", "resume_requested", "cancelled", "failed"},
     cancellation_requested |-> {"cancellation_requested", "cancelled", "failed"},
     cancelled |-> {"cancelled"},
     completed |-> {"completed"},
     failed |-> {"failed"}]

RunStatus == DOMAIN Transitions

Allowed(from, to) == from \in RunStatus /\ to \in Transitions[from]

-----------------------------------------------------------------------------
(* Leases.  "active" and "overdue" are both rows whose column status is    *)
(* 'active'; "settled" is an expired row whose recovery decision event     *)
(* exists (idempotency key runtime-recovery:<lease>:decision).             *)

Attempts == 1..MaxAttempts

OpenLease == {"active", "overdue"}

ClosedLease == {"released", "failed", "revoked", "expired", "settled"}

LeaseState == {"absent"} \cup OpenLease \cup ClosedLease

\* _active_lease_row: some attempt of the run has a row with status 'active'.
HasActiveLease(r) == \E a \in Attempts : lease[r][a] \in OpenLease

\* _require_active_executor without observed_at.
Holds(w) == watt[w] \in Attempts /\ lease[wrun[w]][watt[w]] \in OpenLease

\* _require_active_executor with observed_at may raise: the row is gone, or
\* the caller's timestamp is not before lease_expires_at.
MayBeStale(w) == watt[w] \in Attempts => lease[wrun[w]][watt[w]] # "active"

\* The leases of all runs and attempts, and the overdue ones among them.
Rows == Runs \X Attempts

Overdue(table, row) == table[row[1]][row[2]] = "overdue"

\* lease_expires_at orders the overdue rows: a row that becomes overdue comes
\* behind those that are, and a row that is renewed or closed leaves the order.
ExpiryOrder ==
    earlier' = {p \in Rows \X Rows :
        /\ Overdue(lease', p[1]) /\ Overdue(lease', p[2])
        /\ p \in earlier \/ (Overdue(lease, p[1]) /\ ~Overdue(lease, p[2]))}

CloseLease(w, to) == lease' = [lease EXCEPT ![wrun[w]][watt[w]] = to]

-----------------------------------------------------------------------------
(* Source operations of a run, as far as run control tells them apart:     *)
(*   "clear"      every operation is main-committed                        *)
(*   "open"       accepted, not yet reconciled                             *)
(*   "unknown"    reconciled, retry_posture reconcile_first                *)
(*   "safe"       reconciled, safe_retry (no dispatch proved)              *)
(*   "concluded"  reconciled with a conclusive observation, no_retry       *)

OpsState == {"clear", "open", "unknown", "safe", "concluded"}

CheckpointState == {"none", "rounds", "final"}

\* _recoverable_checkpoint_from_run_row: the answers the store can give.  The
\* run row's stage and round are overwritten by every event, so whether they
\* still equal the checkpoint's is left open, except in "starting", where the
\* validator does not compare them; an operation that is not main-committed
\* makes the checkpoint usable only under a matching round barrier.
Verdicts(r) ==
    (IF ops[r] # "clear" THEN {"unresolved"} ELSE {})
    \cup (IF ckpt[r] = "none"
          THEN IF ops[r] = "clear" THEN {"none"} ELSE {}
          ELSE {"valid"} \cup (IF status[r] = "starting" THEN {} ELSE {"invalid"}))

-----------------------------------------------------------------------------
(* Commands.                                                               *)

CommandTypes == {"pause", "resume", "cancel"}

IdleCommand == [type |-> "none", run |-> NoRun, pc |-> "idle", seen |-> "absent",
                row |-> "none", todo |-> {}]

\* list_commands(conflict_group="lifecycle", statuses=_PENDING_COMMAND_STATUSES)
Pending(r) == {c \in Commands : cmd[c].run = r /\ cmd[c].row = "accepted"}

AppliedStatus(type) ==
    CASE type = "pause" -> "paused"
      [] type = "cancel" -> "cancelled"
      [] OTHER -> "running"

\* _next_lifecycle_command: cancel before pause before resume.
NextLifecycle(r) ==
    {c \in Pending(r) :
        LET rank == [cancel |-> 0, pause |-> 1, resume |-> 2]
        IN  \A d \in Pending(r) : rank[cmd[c].type] <= rank[cmd[d].type]}

-----------------------------------------------------------------------------
Init ==
    /\ status = [r \in Runs |-> "absent"]
    /\ latest = [r \in Runs |-> 0]
    /\ lease = [r \in Runs |-> [a \in Attempts |-> "absent"]]
    /\ waiting = [r \in Runs |-> "no"]
    /\ ckpt = [r \in Runs |-> "none"]
    /\ ops = [r \in Runs |-> "clear"]
    /\ attention = [r \in Runs |-> "none"]
    /\ pc = [w \in Workers |-> "idle"]
    /\ wrun = [w \in Workers |-> NoRun]
    /\ watt = [w \in Workers |-> 0]
    /\ reason = [w \in Workers |-> "none"]
    /\ wcmd = [w \in Workers |-> NoCommand]
    /\ cmd = [c \in Commands |-> IdleCommand]
    /\ earlier = {}

-----------------------------------------------------------------------------
(* Acceptance and claim.                                                   *)

\* accept_run: the run row, its queued event and snapshot in one transaction.
AcceptRun(r) ==
    /\ status[r] = "absent"
    /\ status' = [status EXCEPT ![r] = "queued"]
    /\ UNCHANGED <<latest, lease, waiting, ckpt, ops, attention, earlier, workerVars, cmd>>

\* Mutant of Runnable: the claim query forgets the NOT EXISTS on active leases.
RunnableWithOwner(r) ==
    /\ status[r] \in {"queued", "resume_requested"}
    /\ status[r] = "resume_requested" => ops[r] # "unknown"
    /\ waiting[r] # "fresh"

\* Mutant of Runnable: the claim query selects resumable runs only.
RunnableResumedOnly(r) ==
    /\ status[r] = "resume_requested"
    /\ ~HasActiveLease(r)
    /\ ops[r] # "unknown"
    /\ waiting[r] # "fresh"

\* _next_runnable_run_row, without ORDER BY created_at: any runnable run.
Runnable(r) ==
    /\ status[r] \in {"queued", "resume_requested"}
    /\ ~HasActiveLease(r)
    /\ status[r] = "resume_requested" => ops[r] # "unknown"
    /\ waiting[r] # "fresh"

ClaimReason(r) ==
    IF status[r] = "resume_requested" /\ waiting[r] # "no"
    THEN "resource_wait" ELSE status[r]

\* claim_next_runnable_run: a new attempt, its lease and the claim event.
Claim(w, r) ==
    /\ pc[w] = "idle"
    /\ Runnable(r)
    /\ latest[r] < MaxAttempts
    /\ latest' = [latest EXCEPT ![r] = @ + 1]
    /\ lease' = [lease EXCEPT ![r][latest[r] + 1] = "active"]
    /\ status' = [status EXCEPT ![r] = "starting"]
    /\ waiting' = [waiting EXCEPT ![r] = "no"]
    /\ pc' = [pc EXCEPT ![w] = "claimed"]
    /\ wrun' = [wrun EXCEPT ![w] = r]
    /\ watt' = [watt EXCEPT ![w] = latest[r] + 1]
    /\ reason' = [reason EXCEPT ![w] = ClaimReason(r)]
    /\ UNCHANGED <<ckpt, ops, attention, earlier, wcmd, cmd>>

-----------------------------------------------------------------------------
(* The environment: the clock and process death.                           *)

LeaseOverdue(r, a) ==
    /\ lease[r][a] = "active"
    /\ lease' = [lease EXCEPT ![r][a] = "overdue"]
    /\ ExpiryOrder
    /\ UNCHANGED <<status, latest, waiting, ckpt, ops, attention, workerVars, cmd>>

\* The 0.5 seconds a runtime_resource_waiting run is kept out of the claim.
WaitElapses(r) ==
    /\ waiting[r] = "fresh"
    /\ waiting' = [waiting EXCEPT ![r] = "due"]
    /\ UNCHANGED <<status, latest, lease, ckpt, ops, attention, earlier, workerVars, cmd>>

\* The process of the worker dies; its successor starts with nothing claimed.
Crash(w) ==
    /\ pc[w] # "idle"
    /\ pc' = [pc EXCEPT ![w] = "idle"]
    /\ wrun' = [wrun EXCEPT ![w] = NoRun]
    /\ watt' = [watt EXCEPT ![w] = 0]
    /\ reason' = [reason EXCEPT ![w] = "none"]
    /\ wcmd' = [wcmd EXCEPT ![w] = NoCommand]
    /\ UNCHANGED <<runVars, cmd>>

-----------------------------------------------------------------------------
(* The executor.  Each of its event writes names the run status it asks    *)
(* for and is refused when the FSM does not allow it or the lease is lost. *)

Goto(w, label) == pc' = [pc EXCEPT ![w] = label]

\* Return to the polling loop: the claim is forgotten.
Return(w) ==
    /\ Goto(w, "idle")
    /\ wrun' = [wrun EXCEPT ![w] = NoRun]
    /\ watt' = [watt EXCEPT ![w] = 0]
    /\ reason' = [reason EXCEPT ![w] = "none"]
    /\ wcmd' = [wcmd EXCEPT ![w] = NoCommand]

KeepClaim == UNCHANGED <<wrun, watt, reason, wcmd>>

\* Mutant of ExecutorEvent: the event is appended without require_run_transition.
ExecutorEventUnchecked(w, target) ==
    /\ Holds(w)
    /\ status' = [status EXCEPT ![wrun[w]] = target]
    /\ waiting' = [waiting EXCEPT ![wrun[w]] =
                       IF pc[w] = "laneBusy" THEN "fresh" ELSE "no"]
    /\ UNCHANGED <<latest, lease, ckpt, ops, attention, earlier, cmd>>

\* append_executor_event(run_status=target), accepted.
ExecutorEvent(w, target) ==
    /\ Holds(w)
    /\ Allowed(status[wrun[w]], target)
    /\ status' = [status EXCEPT ![wrun[w]] = target]
    /\ waiting' = [waiting EXCEPT ![wrun[w]] =
                       IF pc[w] = "laneBusy" THEN "fresh" ELSE "no"]
    /\ UNCHANGED <<latest, lease, ckpt, ops, attention, earlier, cmd>>

\* The status the event written at each step of the executor asks for.
EventTarget(w) ==
    CASE pc[w] = "claimed" -> "starting"
      [] pc[w] \in {"resumeRounds", "resumeFinal", "launching", "running", "ckptEvent"}
            -> "running"
      [] pc[w] = "laneBusy" -> "resume_requested"
      [] pc[w] = "completing" -> "completed"
      [] pc[w] \in {"applyEvent", "applyEvent2"} -> AppliedStatus(cmd[wcmd[w]].type)
      [] OTHER -> "failed"

\* append_executor_event raises.  Inside execute_claimed_run's try block the
\* executor's own except clause handles it; elsewhere it reaches run_once.
EventRefused(w) ==
    /\ pc[w] \in {"claimed", "resumeRounds", "resumeFinal", "resumeBad", "launching",
                  "running", "ckptEvent", "laneBusy", "completing",
                  "failing", "applyEvent", "applyEvent2"}
    /\ pc[w] = "failing" => ops[wrun[w]] # "unknown"
    /\ MayBeStale(w) \/ ~Allowed(status[wrun[w]], EventTarget(w))
    /\ Goto(w, IF pc[w] \in {"launching", "running", "ckptEvent"}
               THEN "failing" ELSE "workerFailing")
    /\ KeepClaim
    /\ UNCHANGED <<runVars, cmd>>

\* execute_claimed_run, runtime_executor_starting.
ExecutorStarting(w) ==
    /\ pc[w] = "claimed"
    /\ ExecutorEvent(w, "starting")
    /\ Goto(w, IF reason[w] = "resume_requested" THEN "resuming" ELSE "launching")
    /\ KeepClaim

\* _load_resume_checkpoint: get_latest_recoverable_checkpoint.
ReadCheckpoint(w) ==
    /\ pc[w] = "resuming"
    /\ \E v \in Verdicts(wrun[w]) :
           Goto(w, IF v # "valid" THEN "resumeBad"
                   ELSE IF ckpt[wrun[w]] = "final" THEN "resumeFinal" ELSE "resumeRounds")
    /\ KeepClaim
    /\ UNCHANGED <<runVars, cmd>>

\* _load_resume_checkpoint: runtime_resumed.  An after_finalization_commit
\* checkpoint goes straight to _settle_completed_run.
Resumed(w) ==
    /\ pc[w] \in {"resumeRounds", "resumeFinal"}
    /\ ExecutorEvent(w, "running")
    /\ Goto(w, IF pc[w] = "resumeFinal" THEN "completing" ELSE "launching")
    /\ KeepClaim

\* _load_resume_checkpoint: runtime_resume_failed.
ResumeFailed(w) ==
    /\ pc[w] = "resumeBad"
    /\ ExecutorEvent(w, "failed")
    /\ Goto(w, "failRelease")
    /\ KeepClaim

\* runtime_start_callback: runtime_executor_started.
RuntimeStart(w) ==
    /\ pc[w] = "launching"
    /\ ExecutorEvent(w, "running")
    /\ Goto(w, "running")
    /\ KeepClaim

\* progress_callback: RuntimeControlEventSink.append_progress.
Progress(w) ==
    /\ pc[w] = "running"
    /\ ExecutorEvent(w, "running")
    /\ UNCHANGED workerVars

\* Mutant of WriteCheckpoint: the checkpoint is written without
\* _require_active_executor.
WriteCheckpointUnfenced(w) ==
    LET r == wrun[w] IN
    /\ pc[w] = "running"
    /\ \E k \in {"rounds", "final"} : ckpt' = [ckpt EXCEPT ![r] = k]
    /\ \E o \in IF ops[r] \in {"open", "concluded"} THEN {ops[r], "clear"} ELSE {ops[r]} :
           ops' = [ops EXCEPT ![r] = o]
    /\ Goto(w, "ckptEvent")
    /\ KeepClaim
    /\ UNCHANGED <<status, latest, lease, waiting, attention, earlier, cmd>>

\* runtime_checkpoint_callback, first call: write_checkpoint_v2 commits the
\* checkpoint, moves latest_checkpoint_id and main-commits the operations the
\* source executor reports as finished.  It looks at the lease, not the status.
WriteCheckpoint(w) ==
    LET r == wrun[w] IN
    /\ pc[w] = "running"
    /\ Holds(w)
    /\ \E k \in {"rounds", "final"} : ckpt' = [ckpt EXCEPT ![r] = k]
    /\ \E o \in IF ops[r] \in {"open", "concluded"} THEN {ops[r], "clear"} ELSE {ops[r]} :
           ops' = [ops EXCEPT ![r] = o]
    /\ Goto(w, "ckptEvent")
    /\ KeepClaim
    /\ UNCHANGED <<status, latest, lease, waiting, attention, earlier, cmd>>

\* runtime_checkpoint_callback, second call: runtime_checkpoint_written.
CheckpointEvent(w) ==
    /\ pc[w] = "ckptEvent"
    /\ ExecutorEvent(w, "running")
    /\ Goto(w, "running")
    /\ KeepClaim

\* accept_source_operation: looks at the run status, not at the lease.
AcceptSource(w) ==
    LET r == wrun[w] IN
    /\ pc[w] = "running"
    /\ r \in SourceRuns
    /\ status[r] \in {"starting", "running"}
    /\ ops[r] = "clear"
    /\ ops' = [ops EXCEPT ![r] = "open"]
    /\ UNCHANGED <<status, latest, lease, waiting, ckpt, attention, earlier, workerVars, cmd>>

\* accept_source_operation raises source_operation_run_not_dispatchable; a
\* requested pause or cancel is then applied at this boundary.
SourceRefused(w) ==
    /\ pc[w] = "running"
    /\ status[wrun[w]] \notin {"starting", "running"}
    /\ Goto(w, IF status[wrun[w]] \in {"cancellation_requested", "pause_requested"}
               THEN "applying" ELSE "failing")
    /\ KeepClaim
    /\ UNCHANGED <<runVars, cmd>>

\* record_owned_source_reconciliation_unknown by the lease holder.
RecordUnknown(w) ==
    LET r == wrun[w] IN
    /\ pc[w] = "running"
    /\ Holds(w)
    /\ ops[r] = "open"
    /\ ops' = [ops EXCEPT ![r] = "unknown"]
    /\ UNCHANGED <<status, latest, lease, waiting, ckpt, attention, earlier, workerVars, cmd>>

\* mint_current_safe_retry_dispatch_epoch by the lease holder.
MintSafeRetry(w) ==
    LET r == wrun[w] IN
    /\ pc[w] = "running"
    /\ Holds(w)
    /\ ops[r] = "safe"
    /\ ops' = [ops EXCEPT ![r] = "open"]
    /\ UNCHANGED <<status, latest, lease, waiting, ckpt, attention, earlier, workerVars, cmd>>

\* run_async ends, before or after its start callback: it returns, finds the
\* browser lane busy, raises an error the executor handles, or raises one that
\* only run_once handles.
RuntimeEnds(w) ==
    /\ pc[w] \in {"launching", "running"}
    /\ \E next \in {"completing", "failing", "workerFailing"} \cup
                    (IF wrun[w] \in SourceRuns THEN {"laneBusy"} ELSE {}) : Goto(w, next)
    /\ KeepClaim
    /\ UNCHANGED <<runVars, cmd>>

\* Mutant of LaneBusy: the waiting event does not ask for resume_requested.
LaneBusyStillRunning(w) ==
    /\ pc[w] = "laneBusy"
    /\ ExecutorEvent(w, "running")
    /\ Goto(w, "yieldRelease")
    /\ KeepClaim

\* _yield_for_browser_lane: runtime_resource_waiting, then the release.
LaneBusy(w) ==
    /\ pc[w] = "laneBusy"
    /\ ExecutorEvent(w, "resume_requested")
    /\ Goto(w, "yieldRelease")
    /\ KeepClaim

\* _settle_completed_run: runtime_run_completed, then the release.
Complete(w) ==
    /\ pc[w] = "completing"
    /\ ExecutorEvent(w, "completed")
    /\ Goto(w, "completeRelease")
    /\ KeepClaim

\* execute_claimed_run's except clause: runtime_run_failed, then the release.
ExecutorFailed(w) ==
    /\ pc[w] = "failing"
    /\ ops[wrun[w]] # "unknown"
    /\ ExecutorEvent(w, "failed")
    /\ Goto(w, "failRelease")
    /\ KeepClaim

\* The same clause with an operation to reconcile:
\* yield_executor_for_automatic_source_reconciliation, one transaction.
YieldForReconciliation(w) ==
    LET r == wrun[w] IN
    /\ pc[w] = "failing"
    /\ ops[r] = "unknown"
    /\ \/ /\ Holds(w)
          /\ Allowed(status[r], "resume_requested")
          /\ status' = [status EXCEPT ![r] = "resume_requested"]
          /\ waiting' = [waiting EXCEPT ![r] = "no"]
          /\ CloseLease(w, "revoked")
          /\ Return(w)
       \/ /\ MayBeStale(w) \/ ~Allowed(status[r], "resume_requested")
          /\ Goto(w, "workerFailing")
          /\ KeepClaim
          /\ UNCHANGED <<status, waiting, lease>>
    /\ ExpiryOrder
    /\ UNCHANGED <<latest, ckpt, ops, attention, cmd>>

\* Mutant of ReleaseAs: status and reason_code are swapped in one call.
ReleaseAsReason(w) ==
    IF pc[w] \in {"failRelease", "workerRelease"} THEN "failed"
    ELSE IF pc[w] = "applyRelease" THEN "runtime_run_paused" ELSE "released"

\* release_executor_lease, the last call of every way out of the executor.
ReleaseAs(w) ==
    IF pc[w] \in {"failRelease", "workerRelease"} THEN "failed" ELSE "released"

Release(w) ==
    /\ pc[w] \in {"yieldRelease", "completeRelease", "failRelease",
                  "workerRelease", "applyRelease"}
    /\ \/ /\ Holds(w)
          /\ CloseLease(w, ReleaseAs(w))
          /\ Return(w)
       \/ /\ ~Holds(w)
          /\ IF pc[w] \in {"failRelease", "workerRelease"}
             THEN Return(w)
             ELSE Goto(w, "workerFailing") /\ KeepClaim
          /\ UNCHANGED lease
    /\ ExpiryOrder
    /\ UNCHANGED <<status, latest, waiting, ckpt, ops, attention, cmd>>

\* run_once's except clause: _record_worker_failure.
WorkerFailed(w) ==
    /\ pc[w] = "workerFailing"
    /\ \/ /\ ExecutorEvent(w, "failed")
          /\ Goto(w, "workerRelease")
          /\ KeepClaim
       \/ /\ MayBeStale(w) \/ ~Allowed(status[wrun[w]], "failed")
          /\ Return(w)
          /\ UNCHANGED <<runVars, cmd>>

\* Mutant of Heartbeat: the lease is renewed by attempt number alone, whatever
\* the status of its row.
HeartbeatAnyRow(w) ==
    /\ pc[w] # "idle"
    /\ watt[w] \in Attempts
    /\ CloseLease(w, "active")
    /\ ExpiryOrder
    /\ UNCHANGED <<status, latest, waiting, ckpt, ops, attention, workerVars, cmd>>

\* heartbeat_executor_lease with a timestamp taken before the expiry.
Heartbeat(w) ==
    /\ pc[w] # "idle"
    /\ Holds(w)
    /\ lease[wrun[w]][watt[w]] = "overdue"
    /\ CloseLease(w, "active")
    /\ ExpiryOrder
    /\ UNCHANGED <<status, latest, waiting, ckpt, ops, attention, workerVars, cmd>>

\* The heartbeat task fails: run_once cancels the executor task, which ends at
\* its next await.
HeartbeatLost(w) ==
    /\ pc[w] \in {"launching", "running"}
    /\ MayBeStale(w)
    /\ Goto(w, "workerFailing")
    /\ KeepClaim
    /\ UNCHANGED <<runVars, cmd>>

-----------------------------------------------------------------------------
(* apply_lifecycle_command_at_safe_boundary, four transactions.            *)

\* list_commands and the choice of the command.
ApplyChoose(w) ==
    /\ pc[w] = "applying"
    /\ \/ /\ Pending(wrun[w]) = {}
          /\ Goto(w, "failing")
          /\ UNCHANGED wcmd
       \/ \E c \in NextLifecycle(wrun[w]) :
             /\ wcmd' = [wcmd EXCEPT ![w] = c]
             /\ Goto(w, "applyMark")
    /\ UNCHANGED <<runVars, wrun, watt, reason, cmd>>

\* update_command_status(applied): not conditional on the row's status.
ApplyMark(w) ==
    /\ pc[w] = "applyMark"
    /\ cmd' = [cmd EXCEPT ![wcmd[w]].row = "applied"]
    /\ Goto(w, "applyEvent")
    /\ KeepClaim
    /\ UNCHANGED runVars

\* runtime_command_applied, then runtime_run_paused or runtime_run_cancelled; a
\* resume command has only the first and keeps the lease.
ApplyEvent(w) ==
    /\ pc[w] \in {"applyEvent", "applyEvent2"}
    /\ ExecutorEvent(w, EventTarget(w))
    /\ IF pc[w] = "applyEvent2" THEN Goto(w, "applyRelease") /\ KeepClaim
       ELSE IF cmd[wcmd[w]].type = "resume" THEN Return(w)
       ELSE Goto(w, "applyEvent2") /\ KeepClaim

-----------------------------------------------------------------------------
(* Lifecycle command requests of the API.                                  *)

\* _request_lifecycle_command, the reads: a pause needs a running or resumable
\* run, a resume a paused one, and neither may meet a pending command.
RequestPauseOrResume(c, r) ==
    /\ cmd[c].pc = "idle"
    /\ Pending(r) = {}
    /\ \E type \in {"pause", "resume"} :
          /\ status[r] \in IF type = "pause" THEN {"running", "resume_requested"}
                                             ELSE {"paused"}
          /\ cmd' = [cmd EXCEPT ![c] = [IdleCommand EXCEPT
                         !.type = type, !.run = r, !.pc = "save", !.seen = status[r]]]
    /\ UNCHANGED <<runVars, workerVars>>

\* request_cancel, the reads: any run that is not terminal; the pending pause
\* and resume commands are to be superseded first.
RequestCancel(c, r) ==
    /\ cmd[c].pc = "idle"
    /\ status[r] \in RunStatus \ Terminal
    /\ cmd' = [cmd EXCEPT ![c] = [IdleCommand EXCEPT
                   !.type = "cancel", !.run = r, !.pc = "save", !.seen = status[r],
                   !.todo = {d \in Pending(r) : cmd[d].type # "cancel"}]]
    /\ UNCHANGED <<runVars, workerVars>>

\* request_cancel, one round of its loop: superseded, then its event.
Supersede(c) ==
    \E d \in cmd[c].todo :
        /\ cmd' = [cmd EXCEPT ![d].row = "superseded", ![c].todo = @ \ {d}]
        /\ waiting' = [waiting EXCEPT ![cmd[c].run] = "no"]
        /\ UNCHANGED <<status, latest, lease, ckpt, ops, attention, earlier, workerVars>>

\* save_command(status="accepted").
SaveCommand(c) ==
    /\ cmd[c].pc = "save"
    /\ cmd[c].todo = {}
    /\ cmd' = [cmd EXCEPT ![c].row = "accepted",
                          ![c].pc = IF cmd[c].type = "cancel"
                                       /\ cmd[c].seen \in {"queued", "paused"}
                                    THEN "mark" ELSE "update"]
    /\ UNCHANGED <<runVars, workerVars>>

\* request_cancel of a queued or paused run: the command is applied at once.
MarkApplied(c) ==
    /\ cmd[c].pc = "mark"
    /\ cmd' = [cmd EXCEPT ![c].row = "applied", ![c].pc = "update"]
    /\ UNCHANGED <<runVars, workerVars>>

RequestedStatus(c) ==
    CASE cmd[c].type = "pause" -> "pause_requested"
      [] cmd[c].type = "resume" -> "resume_requested"
      [] cmd[c].seen \in {"queued", "paused"} -> "cancelled"
      [] OTHER -> "cancellation_requested"

\* update_run_status, its SELECT and require_run_transition: a refusal raises
\* out of the request and leaves the command row as it is.
CheckRunStatus(c) ==
    /\ cmd[c].pc = "update"
    /\ cmd' = [cmd EXCEPT ![c].pc =
                   IF Allowed(status[cmd[c].run], RequestedStatus(c)) THEN "write" ELSE "done"]
    /\ UNCHANGED <<runVars, workerVars>>

\* update_run_status, its UPDATE: the WHERE clause names the run and asks that
\* no typed failure is recorded, and nothing of the status that was checked.
UpdateRunStatus(c) ==
    /\ cmd[c].pc = "write"
    /\ status' = [status EXCEPT ![cmd[c].run] = RequestedStatus(c)]
    /\ cmd' = [cmd EXCEPT ![c].pc = "event"]
    /\ UNCHANGED <<latest, lease, waiting, ckpt, ops, attention, earlier, workerVars>>

\* _append_command_event: runtime_command_accepted (and runtime_run_cancelled).
CommandEvent(c) ==
    /\ cmd[c].pc = "event"
    /\ cmd' = [cmd EXCEPT ![c].pc = "done"]
    /\ waiting' = [waiting EXCEPT ![cmd[c].run] = "no"]
    /\ UNCHANGED <<status, latest, lease, ckpt, ops, attention, earlier, workerVars>>

\* The API process dies between two transactions of a request.
CommandCrash(c) ==
    /\ cmd[c].pc \in {"save", "mark", "update", "write", "event"}
    /\ cmd' = [cmd EXCEPT ![c].pc = "done", ![c].todo = {}]
    /\ UNCHANGED <<runVars, workerVars>>

\* append_event of any other main-process service (requirement submissions,
\* for one): it takes the place of runtime_resource_waiting as latest event.
OtherEvent(r) ==
    /\ waiting[r] # "no"
    /\ waiting' = [waiting EXCEPT ![r] = "no"]
    /\ UNCHANGED <<status, latest, lease, ckpt, ops, attention, earlier, workerVars, cmd>>

-----------------------------------------------------------------------------
(* Recovery: recover_start_timeouts and the reconciliation coordinator.    *)

\* worker.recover_expired_leases: expire_executor_leases, no settlement.
ExpireLease(r, a) ==
    /\ lease[r][a] = "overdue"
    /\ lease' = [lease EXCEPT ![r][a] = "expired"]
    /\ ExpiryOrder
    /\ UNCHANGED <<status, latest, waiting, ckpt, ops, attention, workerVars, cmd>>

LeaseOnlyCleanup == Terminal \cup {"queued", "paused", "resume_requested"}

\* A row of the first kind the query selects: active, past its expiry.
Selectable(r, a) == lease[r][a] = "overdue" /\ status[r] # "needs_attention"

\* Mutant of OverdueFirst: the row that expired last comes first.
OverdueLast(r, a) ==
    /\ Selectable(r, a)
    /\ \A s \in Runs, b \in Attempts :
           Selectable(s, b) => <<<<r, a>>, <<s, b>>>> \notin earlier

\* ORDER BY lease_expires_at LIMIT 1, over the runs of everybody.
OverdueFirst(r, a) ==
    /\ Selectable(r, a)
    /\ \A s \in Runs, b \in Attempts :
           Selectable(s, b) => <<<<s, b>>, <<r, a>>>> \notin earlier

\* An expired lease of the latest attempt that has no recovery decision.
Stranded(r, a) ==
    /\ lease[r][a] = "expired"
    /\ a = latest[r]
    /\ status[r] \in {"starting", "running", "cancellation_requested"}
    /\ ~HasActiveLease(r)

\* _next_recovery_lease_row: overdue rows before stranded ones, whose order is
\* left open.
NextRecoveryLease(r, a) ==
    \/ OverdueFirst(r, a)
    \/ /\ Stranded(r, a)
       /\ \A s \in Runs, b \in Attempts : ~Selectable(s, b)

\* decide_expired_lease_recovery with resume_recoverable=True.
RecoveryTarget(st, verdict) ==
    CASE st = "cancellation_requested" -> "cancelled"
      [] st = "pause_requested" -> "failed"
      [] verdict = "unresolved" -> "needs_attention"
      [] verdict = "valid" -> "resume_requested"
      [] OTHER -> "failed"

\* settle_next_expired_executor_lease, the lease-only branch.
SettleLeaseOnly(r, a) ==
    /\ NextRecoveryLease(r, a)
    /\ status[r] \in LeaseOnlyCleanup
    /\ lease' = [lease EXCEPT ![r][a] = "expired"]
    /\ ExpiryOrder
    /\ UNCHANGED <<status, latest, waiting, ckpt, ops, attention, workerVars, cmd>>

\* settle_next_expired_executor_lease: expire, decide, record, move the run.
\* It rolls back (no step) when the FSM refuses the target or the attention
\* row of an earlier recovery is already resolved; the pass ends there, and the
\* next one selects the same row again.
SettleRun(r, a) ==
    /\ NextRecoveryLease(r, a)
    /\ status[r] \in RunStatus \ LeaseOnlyCleanup
    /\ \E v \in Verdicts(r) :
          LET target == RecoveryTarget(status[r], v) IN
          /\ Allowed(status[r], target)
          /\ target = "needs_attention" => attention[r] # "resolved"
          /\ status' = [status EXCEPT ![r] = target]
          /\ attention' = [attention EXCEPT ![r] =
                               IF target = "needs_attention" THEN "active" ELSE @]
    /\ lease' = [lease EXCEPT ![r][a] = "settled"]
    /\ waiting' = [waiting EXCEPT ![r] = "no"]
    /\ ExpiryOrder
    /\ UNCHANGED <<latest, ckpt, ops, workerVars, cmd>>

\* resolve_source_operation_recovery_attention.  A safe retry also has to rest on
\* a journal that names the command, which this module does not see.
ResolveAttention(r) ==
    /\ status[r] = "needs_attention"
    /\ ~HasActiveLease(r)
    /\ attention[r] = "active"
    /\ ops[r] \in {"clear", "safe"}
    /\ attention' = [attention EXCEPT ![r] = "resolved"]
    /\ status' = [status EXCEPT ![r] = "resume_requested"]
    /\ UNCHANGED <<latest, lease, waiting, ckpt, ops, workerVars, cmd, earlier>>

\* commit_no_owner_source_reconciliation of a run that nobody executes; the
\* browser lane of the operation is left open here.
NoOwnerReconcile(r) ==
    /\ status[r] \in {"resume_requested", "needs_attention", "failed"}
    /\ ~HasActiveLease(r)
    /\ ops[r] \in {"open", "unknown"}
    /\ \E o \in {"unknown", "safe", "concluded"} : ops' = [ops EXCEPT ![r] = o]
    /\ UNCHANGED <<status, latest, lease, waiting, ckpt, attention, earlier, workerVars, cmd>>

-----------------------------------------------------------------------------
WorkerStep(w) ==
    \/ ExecutorStarting(w) \/ ReadCheckpoint(w) \/ Resumed(w) \/ ResumeFailed(w)
    \/ RuntimeStart(w) \/ Progress(w) \/ WriteCheckpoint(w) \/ CheckpointEvent(w)
    \/ AcceptSource(w) \/ SourceRefused(w) \/ RecordUnknown(w) \/ MintSafeRetry(w)
    \/ RuntimeEnds(w) \/ LaneBusy(w) \/ Complete(w) \/ ExecutorFailed(w)
    \/ YieldForReconciliation(w) \/ Release(w) \/ WorkerFailed(w) \/ EventRefused(w)
    \/ ApplyChoose(w) \/ ApplyMark(w) \/ ApplyEvent(w)

CommandStep(c) ==
    \/ \E r \in Runs : RequestPauseOrResume(c, r) \/ RequestCancel(c, r)
    \/ Supersede(c) \/ SaveCommand(c) \/ MarkApplied(c) \/ CheckRunStatus(c)
    \/ UpdateRunStatus(c) \/ CommandEvent(c)

\* The runner loop alternates recovery and run_once: a runner that is executing
\* a run does not recover others.
RunnerIdle == \E w \in Workers : pc[w] = "idle"

RecoveryStep(r) ==
    /\ RunnerIdle
    /\ \/ \E a \in Attempts : SettleLeaseOnly(r, a) \/ SettleRun(r, a)
       \/ ResolveAttention(r) \/ NoOwnerReconcile(r)

Next ==
    \/ \E r \in Runs : AcceptRun(r) \/ WaitElapses(r) \/ OtherEvent(r) \/ RecoveryStep(r)
    \/ \E r \in Runs, a \in Attempts : LeaseOverdue(r, a) \/ ExpireLease(r, a)
    \/ \E w \in Workers, r \in Runs : Claim(w, r)
    \/ \E w \in Workers : WorkerStep(w) \/ Heartbeat(w) \/ HeartbeatLost(w) \/ Crash(w)
    \/ \E c \in Commands : CommandStep(c) \/ CommandCrash(c)

Spec == Init /\ [][Next]_vars

\* One round of the loop of recover_start_timeouts.
Settlement ==
    /\ RunnerIdle
    /\ \E r \in Runs, a \in Attempts : SettleLeaseOnly(r, a) \/ SettleRun(r, a)

\* What the runner loop guarantees: between two runs it comes by again and again
\* (every recovery_interval_seconds) and settles the one lease that is next; a
\* worker that is between two store calls makes the next one; the heartbeat
\* thread, which ticks whatever the executor does, ends the executor of a lost
\* lease at one of its awaits; and a search ends at last.  Neither the clock nor
\* a command request is obliged to move, nor does any worker have to claim.
Fairness ==
    /\ SF_vars(Settlement)
    /\ \A w \in Workers :
           /\ WF_vars(pc[w] # "running" /\ WorkerStep(w))
           /\ SF_vars(RuntimeEnds(w))
           /\ SF_vars(HeartbeatLost(w))

FairSpec == Spec /\ Fairness

-----------------------------------------------------------------------------
(* What the run-control plane promises.                                    *)

WorkerLabel ==
    {"idle", "claimed", "resuming", "resumeRounds", "resumeFinal", "resumeBad",
     "launching", "running", "ckptEvent", "laneBusy", "yieldRelease", "completing",
     "completeRelease", "failing", "failRelease", "workerFailing", "workerRelease",
     "applying", "applyMark", "applyEvent", "applyEvent2", "applyRelease"}

CommandRecord ==
    [type : CommandTypes \cup {"none"}, run : Runs \cup {NoRun},
     pc : {"idle", "save", "mark", "update", "write", "event", "done"},
     seen : RunStatus \cup {"absent"},
     row : {"none", "accepted", "applied", "superseded"}, todo : SUBSET Commands]

\* Every variable of the store, the workers and the command requests keeps its
\* type; in particular the run status stays inside the FSM of fsm.py.
TypeOK ==
    /\ status \in [Runs -> RunStatus \cup {"absent"}]
    /\ latest \in [Runs -> 0..MaxAttempts]
    /\ lease \in [Runs -> [Attempts -> LeaseState]]
    /\ waiting \in [Runs -> {"no", "fresh", "due"}]
    /\ ckpt \in [Runs -> CheckpointState]
    /\ ops \in [Runs -> OpsState]
    /\ attention \in [Runs -> {"none", "active", "resolved"}]
    /\ pc \in [Workers -> WorkerLabel]
    /\ wrun \in [Workers -> Runs \cup {NoRun}]
    /\ watt \in [Workers -> 0..MaxAttempts]
    /\ reason \in [Workers -> {"none", "queued", "resume_requested", "resource_wait"}]
    /\ wcmd \in [Workers -> Commands \cup {NoCommand}]
    /\ cmd \in [Commands -> CommandRecord]
    /\ earlier \subseteq Rows \X Rows

\* The lease table has no unique index on active rows: that at most one attempt
\* of a run has an open lease, and that it is the newest one, rests on the
\* claim transaction alone.
SingleActiveLease ==
    \A r \in Runs, a \in Attempts :
        lease[r][a] \in OpenLease => a = latest[r]

\* Two workers never hold write authority over the same run, whatever crashes,
\* expiries, recoveries and re-claims happened in between.
ExclusiveAuthority ==
    \A v, w \in Workers :
        v # w /\ Holds(v) /\ Holds(w) => wrun[v] # wrun[w]

\* A run that is shown as executing is never orphaned: the lease of its newest
\* attempt is open, or expired and still to be settled by recovery.
ExecutingRunIsRecoverable ==
    \A r \in Runs :
        status[r] \in {"starting", "running"} =>
            /\ latest[r] \in Attempts
            /\ lease[r][latest[r]] \in OpenLease \cup {"expired"}

\* A run parked for attention has no owner, an active attention record and a
\* source operation to be reconciled; nothing behind its back clears them.
ParkedForAttention ==
    \A r \in Runs :
        status[r] = "needs_attention" =>
            ~HasActiveLease(r) /\ attention[r] = "active" /\ ops[r] # "clear"

\* A run that was cancelled, completed or failed is left alone by executors that
\* lost their lease, by recovery, by a claim and by a request that reads it now:
\* only a request that had checked an older status writes over it, in the UPDATE of
\* update_run_status.  The contract allows a terminal status no step but to itself.
EndedRunIsLeftAlone ==
    [][\A r \in Runs :
          status[r] \in Terminal /\ status'[r] # status[r] =>
              \E c \in Commands : cmd[c].run = r /\ cmd[c].pc = "write" /\ UpdateRunStatus(c)]_vars

\* A lease that was released, revoked, failed or expired never opens again and
\* an attempt number is never used twice.
AttemptsAreMonotone ==
    [][\A r \in Runs :
          /\ latest'[r] \in {latest[r], latest[r] + 1}
          /\ \A a \in Attempts :
                lease[r][a] \in ClosedLease => lease'[r][a] \in ClosedLease]_vars

\* Only the worker that holds the newest attempt moves the checkpoint: the
\* write of an executor that lost its lease is refused.
CheckpointByOwner ==
    [][\A r \in Runs :
          ckpt'[r] # ckpt[r] =>
              \E w \in Workers :
                  wrun[w] = r /\ watt[w] = latest[r] /\ pc'[w] # pc[w]]_vars

\* A run leaves "running" for "completed" only while its newest lease is open,
\* and the worker that commits it holds that lease.
CompletedByOwner ==
    [][\A r \in Runs :
          status'[r] = "completed" /\ status[r] # "completed" =>
              \E w \in Workers :
                  wrun[w] = r /\ watt[w] = latest[r] /\ Holds(w)]_vars

\* The two situations in which settle_next_expired_executor_lease rolls back:
\* a resumed attempt whose lease expired before it reported running, and an
\* unresolved operation of a run whose attention was resolved before.
SettlementBlocked(r) ==
    \/ status[r] = "starting" /\ ckpt[r] # "none"
    \/ attention[r] = "resolved" /\ ops[r] # "clear"

\* An overdue lease is settled, released or renewed, however many runs wait and
\* however busy the runner is, unless a lease that comes no later than it is in
\* one of those situations: a settlement that rolls back holds up every later
\* one, of any run.
LeasesAreSettledInOrder ==
    \A r \in Runs, a \in Attempts :
        lease[r][a] = "overdue" ~>
            \/ lease[r][a] # "overdue"
            \/ \E s \in Runs, b \in Attempts :
                  /\ lease[s][b] = "overdue" /\ SettlementBlocked(s)
                  /\ s = r \/ <<<<s, b>>, <<r, a>>>> \in earlier

-----------------------------------------------------------------------------
(* What the repository's contracts say and the code does not do.           *)

\* Startup recovery resumes a recoverable checkpoint: no lease that expired on a
\* run with a checkpoint and no source operation to reconcile stays overdue.
CheckpointedRunIsRecovered ==
    \A r \in Runs, a \in Attempts :
        lease[r][a] = "overdue" /\ ckpt[r] # "none" /\ ops[r] = "clear"
            ~> lease[r][a] # "overdue"

=============================================================================
