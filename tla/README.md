# SeekTalent: TLA+ model of the durable execution plane

SeekTalent runs long candidate searches ("runs") for a local workbench.  A run is a row in a
SQLite database; a *worker* thread claims it, runs the retrieval rounds, writes checkpoints and
events, and drives a shared browser through an out-of-process *sidecar*.  The user pauses,
resumes and cancels runs meanwhile, processes die at any point, and a recovery pass puts runs
back where they can continue.  Everything that makes this hard is in who may write what, when:
that is what the modules here are about.  Paths below are relative to `src/`.

## 1. Inventory

### 1.1 Components

| Component | Source | State it keeps | Operations that change it |
|---|---|---|---|
| Run status machine | `src/seektalent_runtime_control/fsm.py` | none: the table `_ALLOWED_TRANSITIONS` | `validate_run_transition`, used by every status write |
| Run and lease store | `.../store.py` | SQLite: runs, executor leases, events, checkpoints, commands, attention records, source operations, lane leases | a public method that reads before it writes is one `BEGIN IMMEDIATE` transaction, `update_run_status` excepted (`SELECT`, then `UPDATE`) |
| Execution worker | `.../worker.py` | the claim it holds, a heartbeat task | `run_once`, `_record_worker_failure`, `recover_expired_leases` |
| Run executor | `.../executor.py`, `event_sink.py` | the position inside `execute_claimed_run` | starting, resume, started, progress, checkpoint, completed, failed, browser-lane yield |
| Lifecycle commands | `.../commands.py` | command rows | pause, resume, cancel, `apply_lifecycle_command_at_safe_boundary` |
| Lease recovery | `.../recovery.py`, `checkpoint_recovery.py`, `recovery_attention.py` | recovery decision events, attention row | `settle_next_expired_executor_lease`, enter and resolve attention |
| Runner loop | `src/seektalent_workbench_v2/runtime_runner.py` | a thread | alternates recovery, browser-lane reconciliation and `run_once` |
| Run acceptance | `.../run_acceptance.py`, `workflow_transition.py` | run row, first event | `accept_run` |
| Browser lane | `.../browser_lane.py` | one lane row with a fencing token | acquire, heartbeat, release, keep unresolved, three ways of resolving |
| Source operation ledger | `.../source_operations.py`, `source_reconciliation.py`, `safe_retry_turnover.py`, `store.py` | operation, outbox (dispatch) and reconciliation rows | accept, ack, observe, record unknown, reconcile without owner, mint a safe retry, commit with a checkpoint |
| Source execution port | `src/seektalent/source_port/`, `src/seektalent/liepin_cards_sidecar.py` | the sidecar's command journal and session generations | start generation, accept, dispatch intent, observation; query, submit |
| Browser-lane reconciliation | `src/seektalent/browser_lane_reconciliation.py` | none | `run_once`: query the sidecar's history, settle an orphaned lane |
| Requirement amendments | `.../commands.py`, `requirements.py`, `store.py` | amendment rows, the active revision of the run, the input lock of a round | reserve, complete or fail the extraction, review, supersede, wait before a round, activate |
| Workflow transitions | `.../workflow_transition.py`, `store.py`, `src/seektalent/liepin_cards_source_operation.py`, `src/seektalent/sources/liepin/runtime_lane.py` | the barrier of a round, its lanes, the active transition of each lane | open a round, persist the cards, queue and dispatch details, complete or skip a lane, checkpoint the round, resume it |
| Sidecar lifecycle | `src/seektalent/wtscli_lifecycle_supervisor.py`, `wtscli_lifecycle_sidecar.mjs` | supervisor object and watchdog thread; owner lock, status, control and daemon ownership files; the daemon | start, shutdown, watchdog replacement; claim of the lock, daemon start, restart and stop |
| Workbench turn | `src/seektalent_workbench_v2/service.py`, `store.py`, `runtime_service.py` | turn operations, transcript events, the runtime pointer of a conversation | submit a message, requirement action, recheck, view; claim, renew, release and complete an operation; start a run |
| User-action outcomes | `.../needs_attention*.py`, `failed_outcome.py` | typed outcomes | admission, resolution |
| Retention | `.../retention.py`, `artifact_policy.py`, `privacy_erasure.py` | files and rows | scheduled deletion |
| Retrieval runtime | `src/seektalent/runtime/orchestrator.py`, `round_decision_runtime.py`, `rescue_execution_runtime.py` | the pool of terms, the ledger of query receipts, the flags of the rescue lanes | the round loop: boundary, rescue lane or controller, repair of the proposal, query bundle and its novelty, dispatch, stop |
| Checkpoint codec, read models, LLM stages, providers, installation, diagnostics | see `PROJECT.json` | data, projections or pure I/O | none that changes control state |

### 1.2 How they interact

* A worker, an API request and the recovery pass share only the SQLite file.  A store call is
  one transaction, except that `update_run_status` reads the status in autocommit and writes it
  without asking for it again; each of these actors makes several calls in a row, and everything
  another actor commits in between is visible to the next one.
* A worker holds a *lease* (attempt number, token, deadline).  `_require_active_executor` refuses
  a write whose lease row is no longer active; some writes also compare the deadline with a
  timestamp the caller took earlier.  A heartbeat task renews the row and cancels the executor
  task when that fails, which the executor notices at its next `await`.
* The executor drives the browser only inside the *browser lane* (one row for the whole
  installation).  Before it sends a command to the sidecar it writes the operation and its
  dispatch (outbox) row; afterwards it writes the acknowledgement and the observation; a
  checkpoint main-commits the operation.  The sidecar keeps a journal of its own, in another
  file: accepted, dispatch intent, terminal result.
* After a crash nothing but the two files is left.  Recovery settles the executor lease; the
  browser-lane reconciliation asks the sidecar's history what became of the operation and
  settles the lane; a new attempt replays, retries or gives up the operation.

* A *round* is a barrier row with one lane per query and target.  A lane moves through
  transitions, each bound to a source operation of the ledger; the checkpoint of the round may be
  written when every lane is completed or skipped.  What a dead worker left is read back from the
  transitions, not from memory.
* A user may change the requirements of a run that is searching.  The amendment is a row that an
  extraction (a language-model call in the request's thread) turns into a pending one; the worker
  takes it over at the boundary before a round.
* The *retrieval loop* decides each round what to search: a language model proposes, deterministic
  code repairs the proposal against the ledger of what was searched, and rescue lanes overrule it
  when it has nothing left.  The terms of the pool change at the boundaries, by amendments.
* The *workbench* is a chat.  A request carries an idempotency key; a chat turn is claimed under a
  lease, runs the agent and appends what it did to the transcript.  A confirmation or a recheck
  starts a run in the execution plane, under a start key made of the request's key.
* The browser *bridge* is a daemon process owned by a sidecar process, owned by the supervisor
  object of the application.  They meet in four files: owner lock, status, control, daemon record.

### 1.3 The behaviours that are hard

Interleaving of workers, requests and recovery between two transactions of one of them; processes
that die between any two of their writes; a worker that goes on after it lost its lease; a
deadline that passes while a renewal is under way; a browser command that was sent and whose
answer was lost, so that neither sending it again nor forgetting it is safe; a sidecar that
outlives the worker that fed it; evidence about an old dispatch used for a newer one; a round
resumed in the middle of one of its lanes; a requirement that changes while a round is being
prepared; a request that is sent twice, handled twice at once, or replayed after a crash between
its writes; processes that replace each other over a lock file; a query that half a dozen places
judge, each by a rule of its own, as new or used.
`PROJECT.json` lists each at the line where it bites (`hazards`).

### 1.4 What makes each component correct

* *Store and workers*: one owner per run; an owner that lost its lease writes nothing; attempts
  are never reused; a run that ended stays as it is (the contract; a request may break it, section
  4.3); a run shown as executing can always be
  recovered; a parked run has a reason and no owner.
* *Commands*: a request made on a stale view of the run changes nothing that is already decided;
  an accepted cancellation is carried out.
* *Recovery*: every overdue lease is settled, however many wait; a usable checkpoint is resumed.
* *Browser lane, ledger, journal*: a browser effect happens at most once per operation; only the
  newest generation of the sidecar performs one; a lane whose outcome is unknown is handed on
  only on evidence about the newest dispatch; a result that main committed was observed.
* *Requirement amendments*: at most one pending row per round; a round runs under exactly the
  changes submitted for it or earlier, and under the revision the run's row names; the wait for an
  extraction is bounded.
* *Rounds*: a round can be resumed after every one of its writes; the watermark of a lane is true
  of its operations; however often it is resumed, a lane opens no more candidates than planned;
  every round ends.
* *Retrieval loop*: no family of terms is searched twice, and nothing the loop plans is refused for
  that, so a round is never lost to its own gate; a requirement that becomes effective is searched in its round, whatever the model says; the loop
  gives up early only with nothing left to search.
* *Bridge*: one owner at a time; a bounded number of processes per launch; no daemon is left behind
  by an orderly end; a dead or silent sidecar, and a dead daemon, is replaced.
* *Workbench turn*: one worker and one answer per message; a completed turn is answered; a
  confirmation starts one run, of the form it confirmed; every request ends.

## 2. Plan

Modules, in the order of what the system cannot do without:

| # | Module | Subject | State |
|---|---|---|---|
| 1 | `RunControl` | runs, leases, workers, lifecycle commands, recovery | modelled, checked, its invariants proved |
| 2 | `SourceDispatch` | one browser operation across the two databases, the lane, the sidecar, the coordinator | modelled, checked, its safety proved |
| 3 | `RunOwnership` (abstract), `RunControlRefinement` | what `RunControl` promises of a run: one owner at a time, terms that grow, a result only its owner writes | refinement checked and proved |
| 3b | `DispatchOnce` (abstract), `SourceDispatchRefinement` | what `SourceDispatch` promises of an operation: driven for an authorization and once, a result only of what was kept, one verdict | refinement checked and proved |
| 4 | `RequirementAmendment` | changed requirements of a searching run: reservation, extraction, review, the boundary before a round | modelled, checked, its safety proved for one reviewer |
| 5 | `RoundBarrier` | a search round as a durable workflow of lanes, transitions and operations | modelled, checked, its safety proved |
| 6 | `BridgeLifecycle` | supervisor, watchdog, sidecar, daemon, owner lock | modelled, checked, its safety proved |
| 7 | `WorkbenchTurn` | idempotent requests of a conversation, from the message to the started run | modelled, checked, its safety proved |
| 8 | `SearchLoop` | how each round of the retrieval runtime comes to its query, and the loop to its end | modelled, checked, its invariants proved |
| 9 | `LaneSharing` | two operations of two runs on the one lane, with the sidecar reduced to "may still drive the browser" | left: needs an abstraction of its own, `SourceDispatch` with two operations is beyond 8 million states |
| 10 | `UserAction` | typed needs-attention and failed outcomes, their admission and resolution | left |
| 11 | `SidecarHandshake` | handshake and stop of the cards sidecar process | left |
| 12 | `Retention` | deletion schedules against live artifacts | left |

Composition.  `RunControlRefinement` puts `RunControl` under the abstract protocol of ownership,
`SourceDispatchRefinement` puts `SourceDispatch` under the promise of one dispatch.
`SourceDispatch` carries a reduced run (`run`, `att`, `held`, `parked`) and `RunControl` a reduced
operation (`ops`); `RoundBarrier` carries the operations of a whole round, reduced to the phases the
transitions can see, and one attempt at a time; `RequirementAmendment` carries the lease, since a
superseded executor may act at a boundary; `WorkbenchTurn` ends where a run is accepted, which is
where `RunControl` begins; `SearchLoop` hands a query bundle to the round that `RoundBarrier` models,
and takes from `RequirementAmendment` the revision of a boundary.  Each reduction allows more than the module it stands for.

Theorems: every invariant and every safety action property the runs check is proved (section 5).
Left: abstract specifications for the other components, of which the first would be a conversation
turn that is asked and answered once under `WorkbenchTurn`.

## 3. The modules

### 3.1 `RunControl`

Actors: the workers (`pc`, `wrun`, `watt`, `reason`, `wcmd`), the lifecycle requests (`cmd`), the
recovery pass of the runner loop, the clock.  They share the rows of the store.

| Variable | In the code |
|---|---|
| `status` | `runtime_control_runs.status`; `"absent"` before `accept_run` |
| `latest`, `lease` | the rows of `runtime_control_executor_leases`: number of the newest attempt, state of each |
| `waiting` | whether the newest event is `runtime_resource_waiting`, and whether its half second has passed |
| `ckpt` | what `latest_checkpoint_id` points to |
| `ops` | summary of the run's operations that are not main-committed |
| `attention` | the row of `runtime_control_recovery_attention` |
| `pc[w]` ... | the next store call of a worker inside `run_once` / `execute_claimed_run`, the lease it holds, why it claimed |
| `cmd[c]` | the command row and the next call of the request that made it |
| `earlier` | the order of `lease_expires_at` among the overdue leases of all runs |

A store method that reads before it writes is one `BEGIN IMMEDIATE` transaction and one action.  The
one exception is `update_run_status` (`store.py:2505`): its `SELECT` runs in autocommit and its
`UPDATE` names the run and not the status, so it is two actions, `CheckRunStatus` and
`UpdateRunStatus`, with anything in between.  The sequence of
calls of an executor (`ExecutorStarting`, `ReadCheckpoint`, `Resumed`, `RuntimeStart`, `Progress`,
`WriteCheckpoint`, `CheckpointEvent`, `Complete`, `LaneBusy`, `Release`, ...), of a request
(`RequestPauseOrResume` or `RequestCancel`, `Supersede`, `SaveCommand`, `MarkApplied`,
`CheckRunStatus`, `UpdateRunStatus`, `CommandEvent`) and
of the application of a command (`ApplyChoose`, `ApplyMark`, `ApplyEvent`) is kept by program
counters, so anything of another actor may come in between, and `Crash` or `CommandCrash` may end
the sequence anywhere.  `EventRefused` is the path of an event the store does not take.

A recovery pass settles one lease of the installation: the overdue one that expired first
(`OverdueFirst`, the `ORDER BY lease_expires_at LIMIT 1` of `store.py:7742`), and without an overdue
one a `Stranded` one.  When that settlement rolls back the pass ends, and the next pass meets the same
lease.  `Settlement` is a pass; it needs an idle runner, as a runner that executes a run does not
recover others.

What is left out or left open:

* *Time.*  An active row becomes `"overdue"` at any moment (`LeaseOverdue`).  The store compares the
  deadline with a timestamp its caller took earlier, so a write of the holder of an overdue row may
  be accepted or refused (`MayBeStale`).  `"settled"` is an expired row with its recovery decision.
* *Order among runs.*  The claim takes any runnable run, where the code takes the oldest, and the
  stranded leases are settled in any order.
* *Sources.*  The runs of `SourceRuns` use the browser and have operations; the others have neither.
* *Operations.*  A run's unresolved operations are one value of `ops`; `SourceDispatch` has them.
  `ResolveAttention` therefore lets every safe retry through, the code only one that rests on a
  journal naming the command.
* *Checkpoints.*  Whether the stored stage and round match what recovery expects is a choice
  (`Verdicts`).
* *Payloads*, events that change no status, idempotency keys of requests, deduplicated acceptance.

`RunOwnership` is the abstract specification: a run is granted to a worker under a new term, only
the owner writes the result or completes the run, a term closes, a run is parked in the step that
ends its term.  What becomes of a run otherwise may be decided at any time (`Decided`), also by a user
who looks at what the run was a moment ago: that an ended run stays ended is not promised.
`RunControlRefinement` maps `RunControl` onto it: `PhaseOf(status)` is the phase, `latest` the term,
an active or overdue lease row an open grant, the worker `_require_active_executor` would accept
(`Owner`) the owner, and what `latest_checkpoint_id` points to the result.

### 3.2 `SourceDispatch`

Actors: the worker thread of each attempt (`main`), the sidecar process of each attempt (`side`),
the lane coordinator (`co`), the run around them.  They share two databases: main's
(`op`, `lane`, `run`, `att`, `held`, `parked`) and the sidecar's journal (`head`).  `effects` counts
what is done in the browser; it is nobody's state.

| Variable | In the code |
|---|---|
| `op` | the row of `runtime_control_source_operations`, the newest outbox row, the newest reconciliation row |
| `lane` | the one row of `runtime_control_browser_lanes`: open, past its deadline, fencing token, operation |
| `head` | `source_history_heads`, one per dispatch authorization ordinal, and whether its generation is the newest |
| `main[o][a]` | the next step of `_execute` / `_execute_with_lane` in attempt `a`; lane token; what it read |
| `side[o][a]` | the sidecar process: session generation, the submit it works on, how far it is |
| `co` | the locals of `BrowserLaneReconciliationCoordinator.run_once` between its transactions |

The worker: `Begin`, `AcquireLane` or `LaneBusy`, `ReadContext`, then one of `Accept`, `Mint`
(safe retry), `Send` (redelivery), `Query`; `Receive` or `NoAnswer`; `Query` and `Replay` of a
journalled result; `Ack`; `Observe` or `RecordUnknown`; `CloseSidecar`; `ExitLane` or
`ExitWithoutLane`; `Commit`; `RunEnds`.  The sidecar: `StartGeneration`, `AcceptCommand` or
`ReplayCommand`, `SendAck`, `RecordIntent`, `PerformEffect`, `RecordObservation`.  The coordinator:
`Project`, `Look`, `CommitReconciliation`, `ReleaseReconciled`, `ResolveAttention`.  `Crash`,
`SideExits` and `CoordinatorCrash` end any of them between two steps; a sidecar that is at work
outlives its worker, and a worker that lost its lease or its lane goes on.  The steps are written
with one operator per row (`Step` for a worker, `Put` for a sidecar, `Write` for the operation,
`Record` for the journal), and `MainRow`, `SideRow`, `LookRow` and `OperationRow` type the rows.

`LiveLaneBelongsToHolder` says what `browser_lane.py` really guards: a live lane is left by its
holder, or once the operation it names is observed or committed.  The second half is needed, as a
call that runs without a lane may release the live lane of another attempt through
`resolve_browser_lane_from_conclusive_observation` (`browser_lane.py:839`).

`DispatchOnce` is the abstract specification: of each operation how often it was authorized and
driven, whether its result is durable, its verdict, and whether the run has taken the verdict over.
An authorization is given only while there is no verdict; the browser is driven for an operation that
has one, once; a verdict is given once, and is a result only if one is kept.  (That the browser has no
tab of the operation may be said of one that is driven afterwards: the probe sees the tabs, not a
sidecar that is about to open one.)  `SourceDispatchRefinement` maps `SourceDispatch` onto it: the
latest authorization ordinal is the number of authorizations, `effects` the drives, an observed head
of the journal, under whichever ordinal, the durable result, `conclusive_observation_ref` the verdict.
So the abstract state is split over both databases and the browser, and what the abstract protocol
does in one look (a verdict only if the result is kept) the code does with locals read long before.

What is left out or left open:

* One operation per run, the cards operation.  The details operation and `prepare_readiness` repeat
  the same exchange; what the round makes of them is in `RoundBarrier`.
* Session generations are numbers that only grow and are only compared with the newest one, so they
  are `none`, `old` or `newest`.
* The executor deadline may have passed at any time: every write that asks for the lease may also
  be refused.  The lane deadline is explicit (`overdue`), since who may act on it is the question.
* Reads that are followed by a compare-and-set on what was read are part of that step (`Observe`),
  and so are reads nobody can interfere with.  `Look` contains the reads of `run_once` up to the
  commit, whose compare-and-set decides on them; the probe of the browser tab is among them.
* Artifacts are always readable; the frames of the protocol are the submit and its answers.
* The run is reduced: what a checkpoint is worth is left open, attention and stops only as far as
  the operation can see them.
* The evidence of `needs_attention` outcomes enters nowhere.

### 3.3 `RequirementAmendment`

Actors: the thread of each submission (one extraction per row), the reviewers, the execution
attempts (superseded ones go on until the store refuses them).

| Variable | In the code |
|---|---|
| `run` | status (`open` is waiting or running, `starting` claimed and not yet reported running, `parked` waiting for the user or a reconciliation, `stranded` claimable by nobody), `approved_requirement_revision_id`, and which attempt holds the executor lease |
| `status`, `target`, `base`, `result` | the columns of `runtime_control_requirement_amendments`, rows numbered in the order of insertion |
| `locked` | rounds with a `runtime_round_input_locked` event |
| `ckpt`, `barrier` | boundary, round, revision name and projected state of the latest checkpoint; an active round barrier |
| `extractions` | rows whose submitting thread is alive |
| `review[v]` | what `resolve_next_round_requirement_review` read before its transaction |
| `pc`, `at`, `approved`, `projected`, `under`, `taken`, `chosen` | per attempt: its next call, its round, the revisions in the closures of `executor.py`, the revision the search state was projected under, and the amendment and revision prepared at a boundary |
| `renamed` | auxiliary: `_refresh_recovered_scoring_semantics` has given a checkpoint another revision's name |

A requirement sheet is the set of amendments patched into it.  `Reserve`, `ExtractionCompletes`,
`ExtractionStops`, `SubmitterDies`, `BeginReview`, `ResolveReview` are the transactions of the user's
side; `Claim`, `ReportRunning`, `Start` or `StartRefreshed`, `LockRound`, `Prepare`, `Activate` or `AdoptRevision`,
`EnterRound`, `OpenBarrier`, `FinishRound`, `StopSearch`, `EnterFinalization`, `Complete` those of an
attempt, in the order of the round loop; `BoundaryFails`, `WorkFails`, `Park`, `FencedOut`, `LoseLease`
and `CancelRun` end it.  `LoseLease` is the expiry of the lease with its settlement, whose outcomes are
`Settlements`: the run waits again, fails, is parked, or is stranded, since the settlement of a resumed
attempt that had not reported running rolls back on every pass.  `Unpark` ends a pause or an
attention, `PauseWaiting` is a pause of a run that waits to be resumed.  What an extraction says is a choice; drafts before the run are left out.

### 3.4 `RoundBarrier`

One search round and the attempts that work on it one after the other; which of them may write is
`RunControl`'s subject, how a dispatch is fenced `SourceDispatch`'s.

| Variable | In the code |
|---|---|
| `run` | what the round does to the run; `starting` is claimed and not yet reported running |
| `attended` | whether the row of `runtime_control_recovery_attention` is resolved already |
| `barrier`, `lane` | the rows of `runtime_control_workflow_round_barriers` and `..._barrier_lanes` |
| `step`, `at`, `epoch` | the active transition of a lane: `step_kind`, item of its operation, authorization ordinal |
| `op`, `found` | source operations by lane and item (cards, locator of a card, capture of a resume); cards found |
| `want` | `requested_count` of the detail work plan |
| `prep` | the `verify_session` operation of `prepare_readiness` |
| `mem` | what the attempt has in memory: where it is, the lane and item, search, resume or queue mode, captures opened, lanes to skip |

The actions follow `liepin_search_workflow.py` and `runtime_lane.py`: `OpenBarrier`, `SearchLane`,
`ReplayLane` (resume), `ResumeQueue`, `SkipLater`, `SkipNow`, `RefuseLane`, `PrepareReadiness`,
`Prepared`; for an item `Accept` or `Queue`, `Redeliver`, `MintRetry`, `Effect`, `Send`, `SendLost`,
`Ack`, `QueryHistory`, `Observe`, `RecordUnknown`, `Replay`; then the cards, locators and captures of
a lane in order, `CompleteLane`, `Skip`, `WriteCheckpoint`.  `Yield`, `Crash`, `Lapse`, `Claim`, `Resume`
and `Reconcile` are the end of an attempt and the way to the next.  `Lapse` settles the lease of a dead
attempt unless `SettlementRefused`: the transaction rolls back, in every pass, when the attempt
died in `starting`, or when a reconciliation is needed a second time.

Left out: the same candidate found by two lanes of the round (`Seen` is a constant: candidates
opened before the round), an unknown outcome of `prepare_readiness`, more than one of it, the
user's pause and cancel (so that `RoundEnds` is about a round nobody stops), and everything before
and after the round.

### 3.5 `BridgeLifecycle`

Actors: the application that owns the supervisor object, its watchdog thread, the sidecar
processes, the daemons.

| Variable | In the code |
|---|---|
| `app`, `launch` | where `start()` / `shutdown()` of the supervisor is; number of the application process |
| `process`, `restarts`, `failure`, `watch`, `victim` | `_process`, `_sidecar_restart_count`, `_watchdog_failure_reason`, the watchdog thread, the processes being stopped |
| `sidecar`, `master`, `hung` | sidecar processes, who spawned them, which answer nothing |
| `child`, `ended`, `backoff`, `exits`, `attention` | the sidecar's `child`, the daemon it waits to see dead, `pendingRestart`, `restartCount`, `attentionReason` |
| `daemon`, `parent`, `record` | daemon processes, who spawned them, the ownership record |
| `lock`, `control` | owner lock file, shutdown request in the control file |

The supervisor: `Start`, `StartRefused`, `Started`, `StartFails`, `Shutdown`, `ShutdownDone`,
`Relaunch`; its watchdog: `Notice`, `Respawn`, `SpawnReplacement`, `Replaced`, `ReplacementFails`; the
sidecar: `Claim`, `EnsureDaemon`, `ChildExit`, `ListenerTimeout`, `EndedExits`, `Obey`, `Leave`;
`Terminate` and `Kill` are `_stop_process`.  Processes die (`SidecarDies`, `DaemonDies`, `AppDies`) or
stop answering (`SidecarHangs`, `DaemonMutes`).  A status file is stale when its writer is silent.
External: the daemon itself and `prepareDaemonOwnership`.  Left out: Windows job objects, the
read-only attachment, two applications that race on a stale lock (`mjs:278`).

### 3.6 `WorkbenchTurn`

Actors: the handlers of the HTTP requests of one conversation.

| Variable | In the code |
|---|---|
| `ops`, `expired` | `workbench_v2_turn_operations`: owner token and status by key; keys whose lease is past |
| `events` | `workbench_v2_transcript_events`, each with the key its dedupe key is made of, the form and the run it shows |
| `runtime` | `runtime_run_id` of the conversation |
| `runs`, `approved` | runs of the control store with form and start key, `<<0, key>>` of a confirmation and `<<run, key>>` of a recheck; forms saved under the start key of a confirmation |
| `req` | each handler's position, key, token, and what it has read |
| `stalled` | tokens of live owners whose lease lapsed |
| `asks` | answers asked of the model by key that no failure excuses |

`Begin` is a request; a chat turn goes through `Claim` or `Replay`, `Check`, `Agent`, then `Answer`,
`Extract` and `AppendForm`, `Edit`, `Submit` or `Confirm`, and `Complete` or `Release`; a requirement action
through `Admit`; a confirmation through `Approve`, `Accept` and `StartRun`, `Point`, `Confirmed`; a
recheck through `Recheck`, `Probe`, `Accept`, `Point`, `Status`; a view through `View`.  `Lapse` and
`Crash` are the faults, `AmendFails`, `StartFails`, `Fail`, `Cancelled` the error paths.  A form that was
extracted and one that an edit left are two types of event (`form`, `amended`), as their dedupe keys
differ.  Left out: progress
events, the different intents that only talk (one `Answer`), a key reused with another
text, and `create_conversation` but as the initial state.

### 3.7 `SearchLoop`

One actor, the runtime, against a language model, its users and the sources.

| Variable | In the code |
|---|---|
| `phase`, `round` | where `_run_rounds` is, `round_no` |
| `pool`, `active`, `blocked`, `mentioned` | `query_term_pool`: the admitted terms, the active ones, what an amendment made inadmissible, what has this round as `first_added_round` |
| `ledger` | the queries of the receipts with `dispatch_started` |
| `feedbackTried`, `anchorTried`, `broadened` | flags of the rescue lanes in the retrieval state |
| `advised` | the inactive terms the last reflection speaks for |
| `strength`, `productive` | what the stop guidance reads off the scored candidates |
| `exploit`, `lane`, `second` | the query of the round, who decided it, and the second query of the bundle |

A query is the role anchor and a set of companion terms; it is written as that set, and `{}` is the
anchor alone.  Terms with one `Family` are aliases.  `sent` is what the
ledger's queries are compared by, their group of families; `Tried` is what the stop guidance counts as
tried, the families of those searched terms that are in the pool of today.  A round is `Boundary`, then `ReserveRound`,
`FeedbackRound`, `EmptyFeedback`, `AnchorRound` or `ExhaustedStop` of the preflight, or `Ask` and one of
these lanes or `ControllerSearch` or `ControllerStop`; then `Bundle` and `Search`.  `Proposals` is what
the validation of the model's answer lets through, before or after the projection of a secondary
title anchor (`react_controller.py:238`): that validation does not admit the anchor alone, so the
permission for it in the sanitizer (`round_decision_runtime.py:369`) is never used on this path; `Repair` and `EnsureFresh` are
`sanitize_controller_decision`.  `Novel` is the gate before the dispatch, which the code calls twice on
the same bundle.  A loop ends `stopped`, `done` (its budget), `failed` (a stage raised), `rejected` (the
sanitized query is malformed) or `refused` (by the gate).

Left out or left open: which of several terms the order of priorities takes; scores and the tiers
computed from them (`Strengths`); what a query finds; the filters and the places of a query; a
second title anchor in the first query; a round resumed after a crash, which is `RoundBarrier`'s and
`SourceDispatch`'s subject.

## 4. What is checked

The instances have one run, operation, round or conversation, `liveness` two runs.  `safety` uses the
symmetry of workers and of commands, no other run does.  Deadlock is not checked because every actor may legitimately stop
(a finished run, a run waiting for its user, an application that was shut down).

### 4.1 Runs that pass

| Run | Instance | What it shows |
|---|---|---|
| `safety` | 1 run, 2 workers, 1 command, 2 attempts | types; never two writers; an executing run can always be recovered; a parked run has no owner and a reason; `RunControl` implements `RunOwnership`: one owner at a time, terms that only grow, a result written by the owner only |
| `commands` | 1 run, 1 worker, 2 commands, 1 attempt | a run that ended is written over only by a request that had checked an older status, for every interleaving of two requests (one may supersede the other), a worker and recovery |
| `liveness` | 2 runs without sources, 1 worker, 2 attempts, `FairSpec` | an overdue lease is settled, released or renewed, also while the one runner is busy with the other run; excepted are a lease whose settlement rolls back (`SettlementBlocked`), and every lease that expired after such a one, of whatever run |
| `dispatch` | 1 operation, 2 attempts, pause and cancel | types; the browser is driven at most once; `SourceDispatch` implements `DispatchOnce`: driven only for an authorization, a result only of what the journal keeps, one verdict that is not replaced and after which nothing is authorized; a live lane is left by its holder only; an operation whose owner is gone and whose result is in the journal can always be concluded, which frees its lane |
| `amendment` | 3 amendments, 2 rounds, 2 lapses, 2 attempts, 1 reviewer, `FairSpec` | types; a round runs under the active revision and under exactly the changes submitted for it or earlier; a locked round is entered or the run ends, whatever an extraction, a reviewer, a pause or a reconciliation does, unless the run is stranded |
| `round` | 2 lanes of one query, target 2, 2 cards, 1 crash, 1 unknown outcome, 1 candidate seen before, `FairSpec` | types; the round can be resumed after every write; the watermark of a lane tells its position; no lane opens more candidates than wanted; the round is checkpointed, or its run fails or waits for its user, unless an attempt dies where the settlement of its lease rolls back |
| `bridge` | restart budget 1, 1 respawn, 2 launches, 2 faults, `FairSpec` | types; one owner; bounded processes per launch; no daemon left by an orderly end; only one's own shutdown request is obeyed; a silent sidecar is replaced, the death of the application reaps its processes, a dead daemon is restarted |
| `search` | 5 terms in 4 families, 4 rounds (minimum 1), 2 amendments of at most 2 terms | types; the dispatch gate refuses a bundle only for a requirement named again; a new requirement is searched in its round; the loop gives up early only with nothing left to search |
| `turn` | 2 handlers, 4 keys (chat, confirmation, recheck, view), 3 requests, 1 fault, `FairSpec` | types; one worker per turn; a completed turn is answered; the model is asked once; a confirmation starts one run, of the form its key approved first, and its event names that run; every request ends |

Bounds.  `MaxAttempts` bounds the attempts of a run: two are needed for a stale owner beside a new
one, and a third adds no new pair of neighbours.  In `SourceDispatch` a second attempt is also the
second authorization of the operation.  Two workers are a stale and a current one; two commands
are the least that conflict.  One run is enough for the safety of `RunControl`, whose rows are per run; runs meet in the order of
settlement, which takes two (`liveness`), and in the order of claims, which is left open.  `Stoppable` bounds which runs may be
paused or cancelled: all in `dispatch`, none in `lane_never_freed`, whose counterexample needs
no stop.  That an orphaned lane *is* freed is not stated as liveness: with a second attempt it
depends on a user who resolves an attention, and nothing obliges one.  `OrphanCanBeConcluded` says
that the coordinator, whenever it comes by, is not refused.

In `amendment` three rows are a settled one, one that supersedes it and one for the next round; two
rounds are a round and the one after it; the proofs lift both bounds.  Two lapses give two resumptions, the second from a checkpoint of the first.  In `round`
two lanes are the lane that is resumed and a later one, two cards one that is opened and one that
decides whether the target is met; a crash is one more attempt; the proofs lift all of these, the
liveness property keeps them.  In `bridge` a budget of one has
its exhaustion within reach, two launches a predecessor to reap, two faults a fault while another
is being handled; the proofs lift these too.  In `turn` two handlers are an owner and the one that takes over or replays,
three requests the original, a repetition and a request of another kind, and the fault a crash or a
lapse.

In `search` the terms are an active one (`java`), an active secondary title anchor (`lead`), one in
reserve (`spring`), an alias of the first that only an amendment brings (`jvm`) and one that only the
candidates bring (`rust`): one of each kind the decisions tell apart.  Four rounds reach the end of
the minimum, the near end of the budget and every rescue lane, two amendments of at most two terms
name a term again after it was searched.  The proofs lift all of these bounds.

Every property has a mutant, an operator beside the definition it replaces (`RunnableWithOwner`,
`OverdueLast`, `NextUnlockedIgnoringLocks`, ...): a plausible mistake in that code under
which the same run refutes the property.

### 4.2 Fairness

`RunControl`: the runner loop comes by between two runs and settles the one lease that is next
(strong fairness of `Settlement`: it is disabled while the runner executes a run; nothing is assumed
about any particular lease); a worker between two store calls makes the next one (weak); the heartbeat
thread ticks whatever the executor does and ends a lost one (strong: the executor is interruptible
only at its awaits); a search ends at last (strong fairness of `RuntimeEnds`: rounds and deadlines are
bounded).  Nothing obliges a worker to claim, the clock to move or a user to ask.

`SourceDispatch` (in `lane_never_freed`): the deadline of a lane or lease nobody renews passes (weak, and only when no
attempt of the operation is alive); the runner calls `run_once` over and over, the journal can be
read now and then, and a process that crashes does not crash at the same point of every pass
(strong fairness of `Project`, of a conclusive `Look`, of the commit and of the release); a worker
that lives goes on (weak).  Nothing is assumed of a sidecar.

`RequirementAmendment`: a runner claims a run that waits for an executor and some attempt goes on
(weak, of all of them together; that an older run does not keep the runner from it for ever is
assumed, see 4.3).  Neither a submitter, an extraction, a reviewer nor a failure has
to act: the wait at the boundary has a deadline (`commands.py:655`), and that is what the property
rests on.

`RoundBarrier`: the attempt at work makes its next step, a lease nobody renews runs out and is settled
unless its settlement rolls back, a runner
claims the run again, and the coordinator reconciles an unknown outcome (weak, each).  Faults are
bounded, so they do not go on for ever.

`BridgeLifecycle`: a call of the supervisor returns, its watchdog thread polls, a sidecar that is
alive and not hung runs its timers, a daemon that was started and is not mute comes to listen (weak,
each).  Nothing obliges anybody to shut down or to launch again.

`WorkbenchTurn`: a handler goes on until it answers, and the lease of a dead owner runs out (weak).

### 4.3 Disagreements between code and contract

Each run below is expected to find a violation.

| Run | What the repository says | What the model of the code does |
|---|---|---|
| `stuck_recovery` | reliability contract, line 184: startup recovery resumes a recoverable checkpoint | a resumed attempt that expires in `starting` asks for an edge the table does not have; the settlement rolls back on every pass |
| `lane_never_freed` | `browser_lane.py`, line 846: the fence is released after its operation is observed | a worker that dies between observing and leaving the lane leaves a lane no code path releases |
| `form_after_confirm` | schema-first design, line 269: the form is readonly after confirmation | `_apply_agent_output` asks before the extraction (`service.py:733`) and appends without asking again (`service.py:903`) |

More were met while modelling, and have no run of their own.

Runs and commands:

* `update_run_status` (`store.py:2517`) reads the status in autocommit, checks the transition in Python
  and updates the row whatever its status is by then: a pause or cancel request that read `running`
  overwrites the `completed`, `failed` or `cancelled` committed in between (task semantics, line 60:
  terminal statuses "only self-transition").  `EndedRunIsLeftAlone` exempts that write and shows that it
  is the only one;
* one lease whose settlement rolls back holds up the settlement of every lease that expires later, of
  any run (`store.py:7742`), and ends the recovery pass before
  `BrowserLaneReconciliationCoordinator.run_once` (`runtime_runner.py:186`), so that no orphaned lane is
  freed either;
* the claim takes the oldest runnable run (`store.py:9528`): one that waits for the browser lane is due
  again after half a second, and if it is the oldest it is claimed again and again ahead of every
  younger one;
* a pause of a `resume_requested` run is accepted (`commands.py:99`) and leaves it in `pause_requested`,
  which nobody claims and `resume_workflow` refuses, until it is cancelled;
* a cancel that read the run as queued cancels it under a worker that has claimed it meanwhile, and
  `write_checkpoint_v2` (`store.py:4373`) asks for the lease and not for the status (reliability
  contract, line 192: writes of a cancelled run are refused);
* a refused progress event ends a run in `cancellation_requested` as `failed` (task semantics, line
  333: that status has one outgoing edge; `fsm.py:31`);
* `_next_recovery_lease_row` (`store.py:7742`) never selects a run without an open lease, so a cancel
  of a `resume_requested` run nobody owns waits for ever (task
  semantics, line 309: recovery cancels when there is no executor);
* `_yield_for_browser_lane` shows `resume_requested` before the lease is released (task semantics,
  line 331).

Browser operations:

* the reconciliation of one authorization can release the lane of the next (`browser_lane.py:796`;
  line 259: only reconciliation resolves the fence);
* `not_found` grants `safe_retry`, and the journal admits authorization 2 only behind a head of
  authorization 1 (task semantics, line 612: after proof of no dispatch a new attempt may continue);
* the coordinator promotes an operation to `safe_retry` on a journal read, and a sidecar that had
  accepted the command may still dispatch it; `AtMostOneEffect` shows that it is then the only one;
* a worker whose record of an unknown outcome is refused raises before `preserve_unresolved`, and
  `__exit__` releases the lane as failed.

Amendments:

* recovery gives a state projected under one revision the name of another
  (`orchestrator.py:1608`, `executor.py:385`, `recovery_state.py:35` and `:216`; task semantics, line
  563: recovery "reconstructs revision truth from the base plus applied lineage; it never
  guesses"): a checkpoint written before the activation is resumed after it.  `renamed` marks this,
  and the two properties of a round exempt it;
* the activation (`store.py:3756`) does not compare the run's revision with the amendment's base, as
  the same line says it does; `RoundHonoursSubmissions` shows that they agree with one reviewer;
* two concurrent resolutions of one review may leave two pending rows, because the update has no
  condition on the status (`store.py:3629`); the boundary then ends the run
  (`commands.py:567`).  No production code resolves one review from two threads.

Rounds:

* `liepin_cards_source_operation.py:1461` publishes a lane whose detail queue is not finished
  (docstring, line 1392: "Finish the active detail queue before publishing one lane delta.");
* the operation of `prepare_readiness` belongs to no lane, and one a dead attempt left open makes
  the round unrecoverable (`store.py:7909`);
* a resumed lane asks for the target minus what *earlier* lanes found
  (`runtime_lane.py:837`): an earlier blocked lane is opened to the whole target again although a
  later one met it, and a dispatched later lane with nothing left to find raises;
* a blocked lane beside candidates of an earlier round may end the round in
  `tests/test_runtime_multi_source_round_dispatch.py:1178`, the barrier refuses the checkpoint;
* a failure of readiness, or a first capture already seen, fails the run if it happens on a resume.

Bridge:

* a daemon that stops listening while it lives is never restarted, its sidecar reports `warming`
  (`wtscli_lifecycle_sidecar.mjs:208`); a sidecar told to leave during that stop leaves it behind (`:192`), which
  `LeavesNoDaemon` exempts;
* a daemon that listens without an owner record makes every new sidecar exit until the budget is
  used up; stopping a daemon may take longer than the heartbeat allows;
* `shutdown` waits two seconds for the watchdog (`wtscli_lifecycle_supervisor.py:259`) and may leave the process that
  thread is stopping, which the next start meets as `foreign_owner`;
* `status()` does not look at the lifecycle id.

Conversations:

* two confirmations under different keys start two runs (`service.py:930`), and so do two rechecks;
* one recheck may start two: its start key names the run that is pointed at
  (`runtime_service.py:419`), so after a crash between `set_runtime` (`service.py:595`) and the status
  event the same request, sent again once the new run has ended, starts another.
  `OneRunPerConfirmation` is about confirmations only;
* a confirmation that crashes after `save_approved_requirement`, is edited and retried, runs the form
  approved first and shows the new one; a crash between `set_runtime` and the event leaves no confirmation shown;
* a confirmation with supplemental text that crashes between the form and the start is answered
  with success, and no run, when it is retried (`service.py:387`, `:1915`);
* `_refresh_active_runtime_status` may set `runtime_run_id` back after a recheck
  (`service.py:1691`);
* a confirmation by chat of a form that is already readonly completes without an answer
  (`service.py:940`), the second half of `CompletedIsAnswered`;
* after a lapse the outputs of two `_apply_agent_output` threads may mix in the transcript.

Retrieval loop:

* a requirement named again after its family was searched passes `_repair_consumed_families`
  (`round_decision_runtime.py:442`) and the check of the group key, and is then refused by
  `assert_novel_query_identities` (`query_identity.py:28`), which ends the run
  (`tests/test_controller_contract.py:1549`: "Use the reemphasized term once.";
  `docs/superpowers/plans/2026-07-11-candidate-quality-first-page-expansion.md:326`: "do not dispatch
  and do not surface a normal `RunStageError`").  `RefusalIsExplained` shows that it is the only
  refusal;
* `_repair_consumed_families` lists its candidates before it takes any, so with aliases in the pool
  it may fill a query with two of one family, which the plan then rejects (the second half of
  `RefusalIsExplained`);
* a searched term that an amendment makes inadmissible gets another family, and an alias of it counts
  as untried in the stop guidance (`controller_context.py:271`), which delays a stop;
* a rescue lane looks for untried terms only, so it passes over a requirement that was named again;
* the handler of `NoFreshControllerSelectableFamilyError` (`orchestrator.py:2732`) is never reached:
  the preflight has asked the same question (`SomethingToChoose` of the proof);
* a stop for low quality never comes from the stop guidance alone: with a poor pool and no terms left
  some rescue lane or the exhausted stop comes first (`EarlyStopIsExhausted`).

## 5. What is proved

Every theorem is for all values of the constants: any sets of runs, workers, commands, operations,
attempts, keys, terms, any bounds.

| Theorem | Module | States |
|---|---|---|
| `TypeCorrect` | `RunControlProofs` | `Spec => []TypeOK` |
| `LeasesAreOrdered` | | `Spec => []LeaseInv` |
| `OneOpenLease` | | `Spec => []SingleActiveLease` |
| `OneWriter` | | `Spec => []ExclusiveAuthority` |
| `AttemptsGrow` | | `Spec => AttemptsAreMonotone` |
| `EndedRunsAreLeftAlone` | | `Spec => EndedRunIsLeftAlone` |
| `ParkedRunsStayParked` | | `Spec => []ParkedForAttention` |
| `PlaneImplementsOwnership` | `RunControlRefinementProofs` | `Spec => ImplementsOwnership` |
| `ExecutingRunsAreRecoverable` | | `Spec => []ExecutingRunIsRecoverable` |
| `CheckpointsComeFromTheOwner` | | `Spec => CheckpointByOwner` |
| `CompletionsComeFromTheOwner` | | `Spec => CompletedByOwner` |
| `Typed` | `SourceDispatchProofs` | `Spec => []TypeOK` |
| `DispatchedOnce` | | `Spec => []AtMostOneEffect` |
| `IntentIsTheLast` | | `Spec => []OneDispatchIntent` |
| `ResultsComeFromTheJournal` | | `Spec => []ObservedIsJournaled` |
| `ConclusionsAreFinal` | | `Spec => ConclusionIsFinal` |
| `DispatchIsOnce` | | `Spec => ImplementsDispatchOnce` |
| `LiveLanesAreHeld` | | `Spec => LiveLaneBelongsToHolder` |
| `OrphansCanBeConcluded` | | `Spec => []OrphanCanBeConcluded` |
| `AmendmentTypes` | `RequirementAmendmentProofs` | `AtMostOneReviewer /\ Spec => []TypeOK` |
| `RowsDoNotConflict` | | `... => []OnePendingPerRound` |
| `RoundsUseTheRevision` | | `... => []RoundUsesActiveRevision` |
| `SubmissionsAreHonoured` | | `... => []RoundHonoursSubmissions` |
| `RoundIsInvariant` | `RoundBarrierProofs` | `Spec => []RoundInv` |
| `RoundTypes` | | `Spec => []TypeOK` |
| `RoundsAreRecoverable` | | `Spec => []RoundIsRecoverable` |
| `WatermarksAreTrue` | | `Spec => []WatermarkIsTrue` |
| `LanesOpenAtMostWanted` | | `Spec => []OpensAtMostWanted` |
| `BridgeHasOneOwner` | `BridgeLifecycleProofs` | `Spec => []OneOwner` |
| `LaunchesKeepTheBudget` | | `Spec => []SpawnsWithinBudget` |
| `NoDaemonIsLeft` | | `Spec => LeavesNoDaemon` |
| `SidecarsAreNotShotAstray` | | `Spec => NoStrayShutdown` |
| `BridgeTypes` | | `Spec => []TypeOK` |
| `DaemonsArePaidFor` | | `Spec => []` (daemons started `<= launch + faults`) |
| `LoopTypes` | `SearchLoopProofs` | `Spec => []TypeOK` |
| `RefusalsAreExplained` | | `Spec => []RefusalIsExplained` |
| `NewRequirementsAreSearched` | | `Spec => []NewRequirementIsSearched` |
| `EarlyStopsAreExhausted` | | `Spec => []EarlyStopIsExhausted` |
| `TurnTypes` | `WorkbenchTurnProofs` | `Spec => []TypeOK` |
| `TurnHasOneWorker` | | `Spec => []OneWorkerPerTurn` |
| `CompletedTurnsAreAnswered` | | `Spec => []CompletedIsAnswered` |
| `ModelIsAskedOnce` | | `Spec => []AskedOnce` |
| `ConfirmationsStartOneRun` | | `Spec => []OneRunPerConfirmation` |

The runs check all of these but `LeaseInv`, `SingleActiveLease`, `AttemptsAreMonotone`,
`CheckpointByOwner`, `CompletedByOwner`, `OneDispatchIntent`, `ObservedIsJournaled`,
`ConclusionIsFinal`, `OnePendingPerRound`, `RoundInv` and the count of the daemons, which are only
proved.

Assumptions: bounds are natural numbers, `NoRun`, `NoCommand`, `NoOne` are no run, command or
attempt, the empty string (no key) is no key of `WorkbenchTurn`; in `SearchLoop` the terms are
finite in number, the secondary title anchors are active at first, and candidate feedback names its families apart
from those of requirements (as the code does, with a prefix).  The theorems about amendments
assume at most one reviewer, and name the assumption: with two the code does leave two pending
rows (section 4.3).

### 5.1 `RunControl`

`SingleActiveLease` and `ExclusiveAuthority` are not inductive: a claim may only be proved to
create the one open row of a run if no row beyond `latest` exists, and two workers may only be kept
apart if what each of them holds was minted by a claim and by no other's.  The invariant is

    LeaseInv == RowsAreAttempts /\ SingleActiveLease /\ ClaimIsMinted /\ ClaimIsUnique

(the rows of a run are its attempts up to `latest`; the open one is the newest; what a worker
claims is an existing row; no two workers claim the same row).  Instead of going through every
action for every conjunct, the proof sorts the steps: all but `Claim` satisfy `NoClaim`, a relation
that says no row is created, no closed row opens, and a worker keeps its claim or drops it
(`RowMove`, `ClaimMove`).  `WorkerNoClaim`, `StoreNoClaim` and `CommandNoClaim` show that for each
action, `NoClaimKeeps` that the relation preserves the invariant, `ClaimKeeps` the one step that
remains.  `HolderRow` is where the fence matters: a worker that passed `_require_active_executor`
closes a row that is open, hence the newest.

`EndedRunsAreLeftAlone` rests on `TerminalStays`, a fact about the transition table, and on every
status write going through it in the transaction that writes, but the `UPDATE` of `update_run_status`
(`WrittenOver`).  `ParkedRunsStayParked` needs `LeaseInv` for "no owner": a write of
a stale worker would otherwise take the run out of attention.

The refinement maps the open lease to the owner and `latest` to the term.  It needs

    RefInv == TypeOK /\ LeaseInv /\ ParkedForAttention /\ IdleHasNoClaim /\ CommandHasRun

since a claim is a new term only if the worker that makes it held nothing, and a request decides about
a run that was accepted.  The abstract protocol does not promise that an ended run stays ended, as the
code does not.  Recovery needs

    RecoveryInv == RefInv /\ ExecutingRunIsRecoverable /\ LeavingIsShown
                   /\ AcceptedIsRequested /\ AppliedCommand

the last three of which tie what a worker is about to do to what was shown before: a worker that is
about to release its lease has taken the run out of its executing status, an accepted command and
one that is being applied were requested.  Checkpoints
and completions are then the holder's because every write that makes one passes the fence.

### 5.2 `SourceDispatch`

    IInv == TypeOK /\ OrdinalsAreMinted /\ JournalInv /\ EffectsAreIntended
            /\ ResultsAreJournaled /\ ConclusionsSettle /\ TokensAreUnique

`JournalInv` carries the argument of at most one effect: one session of the sidecar is the newest
and accepted at most one command; a command that has a successor was accepted by an older session
and was never dispatched.  An effect needs an intent (`EffectsAreIntended`), an intent the newest
session.  `ResultsAreJournaled` follows a result from the journal to every local that holds it,
`TokensAreUnique` keeps two holders of the lane apart.  `ConclusionsSettle` ties the latest
reconciliation row to the operation (`RecordFits`): one that proves a conclusion goes with that
conclusion, and an operation that may go again has one that proves no dispatch.  That is all
`OrphansCanBeConcluded` needs: an orphan without a conclusion either has its evidence already, or is
in a state from which `_require_source_reconciliation_transition` refuses nothing.  The steps are sorted by what they
may touch (`MovesTo`, `Serves`, `GoodRow`, `SideStep`, `QuietKeeps`), so most actions need one line.

The refinement needs no more than `IInv`.  A transaction of the ledger authorizes the operation once
more, concludes it, or does neither (`Advances`, part of `GoodRow`), so that it is one step of
`DispatchOnce` or none (`WriteImplements`); that a concluded result is kept is `ResultsAreJournaled`.
A step of a sidecar leaves the ledger alone (`SideImplements`): it drives the browser for an operation
that was authorized (`OrdinalsAreMinted`: nobody works for an ordinal main has not minted) and not yet
driven (`EffectsAreIntended`), or makes the first observed head.

### 5.3 `RequirementAmendment`

    IInv == AtMostOneReviewer /\ TypeOK /\ Rows /\ Submissions /\ Chain /\ Saved /\ Holders

`Rows`: rounds are locked in order, and every row waits for the next unlocked round or the one being
entered, whichever round its submitter had read (`NextRound`).  `Submissions`: at most one row is
unsettled, and it builds on all accepted ones.  `Chain`: a pending row's result is every accepted
change up to its round, the run's revision every accepted change before the first pending row.
`Saved`: what a checkpoint names.  `Holders`: what the attempt that holds the lease knows, by where
it is.  The steps of the user are shown to be a `UserMove` (they change nothing about the rows of a
locked round that no unsettled row waits for), the steps of a superseded attempt disturb nobody
(`OthersHold`), and those of the holder concern only itself (`OneHolder`, `HolderWrites`).
`ActivateKeeps` is the step in which chain and revision move together.

### 5.4 `BridgeLifecycle`

    IInv == Shape /\ LockInv /\ SpawnInv /\ DaemonInv /\ ProcessInv

`Shape` is what the proof needs of the types.  `LockInv`: a sidecar that owns is the one named in the
lock.  `SpawnInv` relates the processes of a
launch to the restart counter, so that a number is left whenever one is needed (`SidecarLeft`).
`DaemonInv`: a living daemon has a parent that accounts for it, a sidecar has one at a time, and one
that ended keeps none.  `ProcessInv`: what the supervisor calls its process is alive to it, of its
own launch, and not being stopped.

The types are another argument.  `Sidecars` and `Daemons` are numbers up to a bound, and `TypeOK`
says among other things that nobody ever asks for a number beyond it.  For sidecars that follows from
`SpawnInv`, launch by launch.  Daemons outlive their sidecars and cross launches, so they are counted
over the whole history:

    FullInv == IInv /\ TypeOK /\ SupplyInv /\ OwnInv /\ ExitInv /\ WaitInv

`SupplyInv`: the daemons used, the sidecars that may still start one, and one more if the supervisor
may spawn without another fault, are no more than launches and faults so far.  Each step moves one
unit between these or spends a fault: a sidecar that starts a daemon stops being a candidate
(`Candidates`), and becomes one again only when the daemon is lost to a fault.  `ExitInv`: a sidecar
beyond its restarts has neither a daemon nor a restart ahead.  `WaitInv`, `OwnInv`: a watchdog about
to spawn has no process, and what a sidecar calls its daemon was started by it.
`DaemonsArePaidFor` states the count itself.

### 5.5 `WorkbenchTurn`

    IInv == TypeOK /\ Identity /\ Authority /\ Asked /\ Answers /\ Started

`Identity`: tokens and keys of handlers are their own.  `Authority`: the handler whose token is in the
row, or which has lost its lease.  `Asked`, `Answers`: asking and answering by position.  `Started`:
what a start key's form and run are, and that a confirmed event names the run of its key.  The steps of a handler are sorted by the rows they write;
`SoleWorker` is where the lease matters.

### 5.6 `SearchLoop`

    LoopInv == TypeOK /\ NamedAreActive /\ NothingPlanned /\ SomethingToChoose
               /\ AnchorIsRemembered /\ FreshIsPlanned /\ PlanIsExplained
               /\ RefusalIsExplained /\ NewRequirementIsSearched /\ EarlyStopIsExhausted

Three of them carry a promise across the phases of a round.  `PlanIsExplained`: a query on its way to
the bundle is new, or holds a term named again.  `FreshIsPlanned`: it holds a requirement of this
round that is not searched yet, if there is one.  `AnchorIsRemembered`: the anchor alone was never
searched or planned without its flag, which is why a loop that stops exhausted has tried it.
`SomethingToChoose` is what the preflight leaves to the controller, `NamedAreActive` what an amendment
does to the terms it names.  There is a lemma for each operator that makes a query (the repair, the
insertion of a new requirement, the reserve, the second query) and one for each action.

### 5.7 `RoundBarrier`

    RoundInv == TypeOK /\ (\A l \in Lanes : RowInv(l)) /\ MemInv
    RowInv(l) == RowOperations(l) /\ RowShape(l) /\ RowOrder(l)
    MemInv == LaneIsOpen /\ SkipsArePending /\ RoundIsOpen
              /\ ItemIsNext /\ ExchangeIsKnown /\ OpenedIsCounted

None of the safety properties is inductive: whether a round can be resumed is a question about the
rows an attempt will have left after its next transaction, hence about where it is now.  The two
halves keep the rows, which survive a crash, apart from the locals of the attempt, which do not.

`RowInv` is about one lane.  `RowOperations`: only the operation the active transition names may be
under way, all others of the lane are absent or committed, and an operation is authorized once more
for each lost answer.  `RowShape`: what each step kind says of the lane's status, of the item and of
its operation.  `RowOrder`: the items come in the order of the workflow (the cards, the locators of
the cards found, the captures the plan still wants), what is before the item is committed, what is
after it absent, and the captures that opened a resume, but for the item itself, are fewer than the
lane wants.

`MemInv` is about the attempt: the lane it works on is not settled, its item is the one the
transition names or the next one (`Follows`), the phase of the operation is what its place in the
exchange implies, and its counter covers the resumes already open (`OpenedIsCounted`), also after a
resume has taken the counter from the rows.

A step of the worker writes the rows of one lane at most, so `OneRow` leaves the invariant of the
others alone.  The steps of an exchange (accept, redeliver, mint, send, acknowledge, observe, record
as unknown) share one lemma, `Exchange`; crash, lapse and every failure share another, that `Idle`
satisfies `MemInv` over any rows.  The steps that queue the next item are where the order of the items
is used.  `RoundIsRecoverable` then follows from `RowInv` (and `RoundIsOpen` before the barrier), since the recovery of the store reads
nothing else; `WatermarkIsTrue` is `RowOrder` at a detail; `OpensAtMostWanted` adds the item itself to
the captures counted by `RowOrder`.

### 5.8 What is only model-checked

The liveness properties: `LeasesAreSettledInOrder`, `LockedRoundIsSettled`,
`RoundEnds`, `SidecarIsReplaced`, `DeathReaps`, `DaemonIsRestarted` and `RequestEnds`.  Liveness under
fairness, and the ENABLED it rests on, are out of reach of the prover's backends.  Every invariant and
every action property of a passing run is proved.

## 6. What is not modelled

`PROJECT.json` lists every component, and what a partly modelled one lacks.  Without a model:

* *User-action outcomes* keep state (typed outcomes, admissions, resolutions), and would need a module
  of their own beside `RunControl`, which has their effect on the run.
* *Retention and artifact policy* is a schedule over files; it meets the rest through leases on
  artifacts only.
* *Schema and migrations*, *Checkpoint codec*, *Read models*: data and projections; each write they
  follow is in an action of a module here.
* *LLM stages*, *Providers and browser automation*: what they answer is a choice of the models (an
  extraction stops or completes, an effect happens or is lost).
* *Installation and release*, *Diagnostics and support*: packaging and reports.
