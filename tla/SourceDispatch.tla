--------------------------- MODULE SourceDispatch ---------------------------
(***************************************************************************)
(* The life of a browser operation of the Liepin source: the ledger main   *)
(* keeps of it (store.py, safe_retry_turnover.py), the browser lane that   *)
(* fences it (browser_lane.py), the sidecar that performs it and the       *)
(* sidecar's own command journal (liepin_cards_sidecar.py,                 *)
(* source_port/_command_journal_engine.py), the executor's side of the     *)
(* exchange (liepin_cards_source_operation.py) and the coordinator that    *)
(* settles an orphaned lane (browser_lane_reconciliation.py).              *)
(*                                                                         *)
(* Two databases are written by different processes and no transaction     *)
(* spans both.  Each transaction of either is one step; the processes of   *)
(* an attempt (main[o][a] and its sidecar side[o][a]) die independently,   *)
(* and one that lost its lease, its lane or its parent may go on.          *)
(*                                                                         *)
(* Each run has one operation.  The run itself is only what the operation  *)
(* can see of it: module RunControl has the rest.                          *)
(***************************************************************************)
EXTENDS Naturals, FiniteSets

CONSTANTS
    Operations,   \* (runtime_run_id, operation_id) pairs, one per run
    Stoppable,    \* bound: the operations whose run may be paused or cancelled
    MaxAttempts,  \* bound on the attempts of a run
    NoOperation   \* the lane before its first use, an idle coordinator

ASSUME MaxAttemptsPositive == MaxAttempts \in Nat \ {0}

ASSUME StoppableAssumption == Stoppable \subseteq Operations

ASSUME NoOperationAssumption == NoOperation \notin Operations

VARIABLES
    run,      \* what the run's status lets the operation do
    att,      \* the run's latest attempt
    held,     \* is the executor lease of that attempt still active
    parked,   \* runtime_control_recovery_attention row of the run
    lane,     \* the runtime_control_browser_lanes row
    op,       \* source operation, newest outbox row, newest reconciliation
    head,     \* source_history_heads, per dispatch authorization ordinal
    effects,  \* browser effects performed for the operation
    main,     \* LiepinCardsSourceOperation._execute of each attempt
    side,     \* the sidecar process of each attempt
    co        \* BrowserLaneReconciliationCoordinator.run_once

ledgerVars == <<run, att, held, parked, lane, op>>
journalVars == <<head, effects>>
vars == <<ledgerVars, journalVars, main, side, co>>

Attempts == 1..MaxAttempts

\* A dispatch authorization is minted by an attempt later than the last one's.
Ordinals == 1..MaxAttempts

-----------------------------------------------------------------------------
(* The rows.                                                               *)

\* closed is completed or cancelled.
RunState == {"queued", "executing", "stopping", "resumable", "paused",
             "attention", "closed", "failed"}

\* rec is what the latest reconciliation row says: decision_kind, with the
\* history_conclusion or the kind of evidence where the code tells them apart.
Evidence == {"none", "unresolved", "notFound", "noDispatch", "result", "tabAbsent"}

NoDispatchProved == {"notFound", "noDispatch"}

Conclusive == {"result", "tabAbsent"}

OperationRow ==
    [phase : {"absent", "accepted", "reconciled", "observed", "committed"},
     posture : {"no_retry", "reconcile_first", "safe_retry"},
     intent : BOOLEAN,                 \* dispatch_intent_ref is set
     concl : {"none"} \cup Conclusive, \* conclusive_observation_ref
     ord : {0} \cup Ordinals,          \* latest dispatch_authorization_ordinal
     acked : SUBSET Ordinals,          \* outbox rows with status acknowledged
     by : {0} \cup Attempts,           \* runtime_attempt_no of the latest epoch
     rec : Evidence]

NoRow == [phase |-> "absent", posture |-> "no_retry", intent |-> FALSE, concl |-> "none",
          ord |-> 0, acked |-> {}, by |-> 0, rec |-> "none"]

\* source_operation_disposition = reconciliation_unknown goes with the posture.
Unknown(o) == op[o].posture = "reconcile_first"

Pending(o) == op[o].ord \notin op[o].acked

\* Session generations are numbers that only grow; only whether one is the
\* newest is ever asked.
Age == {"none", "old", "newest"}

HeadRow == [phase : {"none", "accepted", "intent", "observed"}, gen : Age]

Idle == [st |-> "off", gen |-> "none", ord |-> 0, replay |-> FALSE]

NotStarted == [pc |-> "none", token |-> 0, ord |-> 0, pend |-> FALSE, saw |-> "none",
               next |-> "none", out |-> "none"]

NotLooking == [pc |-> "idle", op |-> NoOperation, token |-> 0, seen |-> NoRow, found |-> "none"]

Init ==
    /\ run = [o \in Operations |-> "queued"]
    /\ att = [o \in Operations |-> 0]
    /\ held = [o \in Operations |-> FALSE]
    /\ parked = [o \in Operations |-> "no"]
    /\ lane = [open |-> FALSE, overdue |-> FALSE, token |-> 0, op |-> NoOperation]
    /\ op = [o \in Operations |-> NoRow]
    /\ head = [o \in Operations |-> [n \in Ordinals |-> [phase |-> "none", gen |-> "none"]]]
    /\ effects = [o \in Operations |-> 0]
    /\ main = [o \in Operations |-> [a \in Attempts |-> NotStarted]]
    /\ side = [o \in Operations |-> [a \in Attempts |-> Idle]]
    /\ co = NotLooking

-----------------------------------------------------------------------------
(* One row changes: of an attempt, its sidecar, the ledger, the journal.   *)

Step(o, a, row) == main' = [main EXCEPT ![o][a] = row]

Goto(o, a, label) == Step(o, a, [main[o][a] EXCEPT !.pc = label])

Put(o, a, row) == side' = [side EXCEPT ![o][a] = row]

Write(o, row) == op' = [op EXCEPT ![o] = row]

Record(o, n, row) == head' = [head EXCEPT ![o][n] = row]

-----------------------------------------------------------------------------
(* The run around the operation.                                           *)

\* _require_active_executor: the lease row of the attempt is active.  It also
\* compares the deadline, which may have passed at any time: a write of the
\* owner may be refused as a write of anybody else always is.
Owns(o, a) == att[o] = a /\ held[o]

\* claim_next_runnable_run and the executor up to the operation.
Claim(o) ==
    /\ run[o] \in {"queued", "resumable"}
    /\ run[o] = "resumable" => ~Unknown(o)
    /\ ~held[o]
    /\ att[o] < MaxAttempts
    /\ att' = [att EXCEPT ![o] = @ + 1]
    /\ run' = [run EXCEPT ![o] = "executing"]
    /\ held' = [held EXCEPT ![o] = TRUE]
    /\ Goto(o, att[o] + 1, "start")
    /\ UNCHANGED <<parked, lane, op, journalVars, side, co>>

\* A pause or a cancel of the executing run, and the resume of a paused one.
RequestStop(o) ==
    /\ o \in Stoppable
    /\ run[o] = "executing"
    /\ run' = [run EXCEPT ![o] = "stopping"]
    /\ UNCHANGED <<att, held, parked, lane, op, journalVars, main, side, co>>

Resume(o) ==
    /\ run[o] = "paused"
    /\ run' = [run EXCEPT ![o] = "resumable"]
    /\ UNCHANGED <<att, held, parked, lane, op, journalVars, main, side, co>>

\* _source_dispatch_is_recoverable, the operation's part of it.
Recoverable(o) ==
    \/ /\ op[o].phase = "observed"
       /\ ~Pending(o)
    \/ /\ op[o].phase \in {"accepted", "reconciled"}
       /\ ~op[o].intent /\ op[o].concl = "none" /\ ~Unknown(o)
       /\ op[o].rec \in {"none"} \cup NoDispatchProved

\* settle_next_expired_executor_lease, as far as the operation decides it:
\* the deadline has passed, and whether the checkpoint itself can be used is
\* left open.
Settle(o) ==
    /\ held[o]
    /\ \E to \in CASE run[o] = "stopping" -> {"closed", "failed"}
                   [] op[o].phase \in {"absent", "committed"} -> {"resumable", "failed"}
                   [] Recoverable(o) -> {"resumable", "attention"}
                   [] OTHER -> {"attention"} :
          /\ to = "attention" => parked[o] # "resolved"
          /\ run' = [run EXCEPT ![o] = to]
          /\ parked' = [parked EXCEPT ![o] = IF to = "attention" THEN "active" ELSE @]
    /\ held' = [held EXCEPT ![o] = FALSE]
    /\ UNCHANGED <<att, lane, op, journalVars, main, side, co>>

-----------------------------------------------------------------------------
(* The executor's thread: _execute and _execute_with_lane.                 *)

\* The call ends with an exception, a result, or an unknown outcome.
Leave(o, a, out) ==
    Step(o, a, [NotStarted EXCEPT !.pc = "leave", !.out = out, !.token = main[o][a].token])

\* _replay_committed_cards, _operation_is_reconciliation_unknown.
Begin(o, a) ==
    /\ main[o][a].pc = "start"
    /\ IF op[o].phase \in {"observed", "committed"}
       THEN Step(o, a, [main[o][a] EXCEPT !.pc = "done", !.out = "ok"])
       ELSE Goto(o, a, IF Unknown(o) THEN "inside" ELSE "lane")
    /\ UNCHANGED <<ledgerVars, journalVars, side, co>>

\* BrowserLaneGuard.__enter__: try_acquire_browser_lane succeeds ...
AcquireLane(o, a) ==
    /\ main[o][a].pc = "lane"
    /\ ~lane.open
    /\ lane' = [open |-> TRUE, overdue |-> FALSE, token |-> lane.token + 1, op |-> o]
    /\ Step(o, a, [main[o][a] EXCEPT !.pc = "inside", !.token = lane.token + 1])
    /\ UNCHANGED <<run, att, held, parked, op, journalVars, side, co>>

\* ... or the admission timeout passes: BrowserLaneBusyError.
LaneBusy(o, a) ==
    /\ main[o][a].pc = "lane"
    /\ lane.open
    /\ Step(o, a, [main[o][a] EXCEPT !.pc = "done", !.out = "busy"])
    /\ UNCHANGED <<ledgerVars, journalVars, side, co>>

\* _execute_with_lane: the accepted operation decides what is done.
ReadContext(o, a) ==
    /\ main[o][a].pc = "inside"
    /\ LET next == IF op[o].phase = "absent" THEN "accept"
                   ELSE IF op[o].posture = "safe_retry" THEN "mint"
                   ELSE IF op[o].posture = "no_retry" /\ Pending(o) THEN "send"
                   ELSE "query"
       IN \/ /\ Step(o, a, [main[o][a] EXCEPT !.pc = next, !.ord = op[o].ord,
                                              !.pend = Pending(o)])
             /\ IF next = "accept" THEN Put(o, a, [Idle EXCEPT !.st = "boot"])
                                   ELSE UNCHANGED side
          \/ /\ next = "accept"      \* the sidecar cannot be started
             /\ Leave(o, a, "none")
             /\ UNCHANGED side
    /\ UNCHANGED <<ledgerVars, journalVars, co>>

\* accept_source_operation.
Accept(o, a) ==
    /\ main[o][a].pc = "accept"
    /\ IF op[o].phase = "absent" /\ run[o] = "executing"
       THEN /\ Write(o, [NoRow EXCEPT !.phase = "accepted", !.ord = 1, !.by = a])
            /\ Step(o, a, [main[o][a] EXCEPT !.pc = "send", !.ord = 1, !.pend = TRUE])
       ELSE /\ Leave(o, a, "raised")
            /\ UNCHANGED op
    /\ UNCHANGED <<run, att, held, parked, lane, journalVars, side, co>>

\* Mutant of Mint: the ordinal of the new authorization is off by one.
MintSkipsOrdinal(o, a) ==
    /\ main[o][a].pc = "mint"
    /\ Owns(o, a) /\ op[o].posture = "safe_retry"
    /\ Write(o, [op[o] EXCEPT !.posture = "no_retry", !.ord = @ + 2, !.by = a])
    /\ Goto(o, a, "send")
    /\ UNCHANGED <<run, att, held, parked, lane, journalVars, side, co>>

\* mint_current_safe_retry_dispatch_epoch.
Mint(o, a) ==
    /\ main[o][a].pc = "mint"
    /\ \/ /\ Owns(o, a)
          /\ op[o].phase = "reconciled" /\ op[o].posture = "safe_retry" /\ op[o].by < a
          /\ Write(o, [op[o] EXCEPT !.posture = "no_retry", !.ord = @ + 1, !.by = a])
          /\ Step(o, a, [main[o][a] EXCEPT !.pc = "send", !.ord = op[o].ord + 1, !.pend = TRUE])
       \/ /\ Leave(o, a, "raised")
          /\ UNCHANGED op
    /\ UNCHANGED <<run, att, held, parked, lane, journalVars, side, co>>

\* _exchange: a process that exited is replaced, then the command is written.
Send(o, a) ==
    /\ main[o][a].pc = "send"
    /\ Goto(o, a, "await")
    /\ Put(o, a, IF side[o][a].st = "off" THEN [Idle EXCEPT !.st = "boot", !.ord = main[o][a].ord]
                 ELSE [side[o][a] EXCEPT !.ord = main[o][a].ord])
    /\ UNCHANGED <<ledgerVars, journalVars, co>>

\* Mutant of Receive: a reconcile-required is taken for a result.
ReceiveAnyAnswer(o, a) ==
    /\ main[o][a].pc = "await"
    /\ side[o][a].st \in {"result", "reconcile"}
    /\ Step(o, a, [main[o][a] EXCEPT !.pc = "ack", !.next = "observe"])
    /\ Put(o, a, [side[o][a] EXCEPT !.st = "idle", !.ord = 0])
    /\ UNCHANGED <<ledgerVars, journalVars, co>>

\* _exchange returns: the acknowledgement and a result or a reconcile-required.
Receive(o, a) ==
    /\ main[o][a].pc = "await"
    /\ side[o][a].st \in {"result", "reconcile"}
    /\ Step(o, a, [main[o][a] EXCEPT !.pc = "ack",
                      !.next = IF side[o][a].st = "result" THEN "observe" ELSE "query"])
    /\ Put(o, a, [side[o][a] EXCEPT !.st = "idle", !.ord = 0])
    /\ UNCHANGED <<ledgerVars, journalVars, co>>

\* _exchange raises: the deadline passed or the sidecar is gone.
NoAnswer(o, a) ==
    /\ main[o][a].pc = "await"
    /\ Goto(o, a, "recover")
    /\ UNCHANGED <<ledgerVars, journalVars, side, co>>

\* _query_terminal_history_safely.  Only after a failed exchange is an
\* acknowledgement recovered from the journal recorded too.  (saw is what the
\* ledger will be told; a head without an intent tells it nothing.)
Query(o, a) ==
    /\ main[o][a].pc \in {"query", "recover"}
    /\ \E saw \in {"none", head[o][main[o][a].ord].phase} :
          Step(o, a, [main[o][a] EXCEPT
                         !.saw = IF saw = "accepted" THEN "none" ELSE saw,
                         !.next = "unknown",
                         !.pc = IF saw = "observed" THEN "replay"
                                ELSE IF saw # "none" /\ main[o][a].pc = "recover" THEN "ack"
                                ELSE "unknown"])
    /\ UNCHANGED <<ledgerVars, journalVars, side, co>>

\* _replay_observed_terminal: its own sidecar, started to replay only.
Replay(o, a) ==
    /\ main[o][a].pc = "replay"
    /\ Goto(o, a, "replaying")
    /\ Put(o, a, [Idle EXCEPT !.st = "boot", !.replay = TRUE, !.ord = main[o][a].ord])
    /\ UNCHANGED <<ledgerVars, journalVars, co>>

ReplayEnds(o, a) ==
    /\ main[o][a].pc = "replaying"
    /\ Step(o, a, [main[o][a] EXCEPT
                      !.pc = IF side[o][a].st = "result" THEN "ack" ELSE "unknown",
                      !.next = "observe"])
    /\ Put(o, a, Idle)
    /\ UNCHANGED <<ledgerVars, journalVars, co>>

\* record_source_dispatch_ack: no lease is asked for; a row acknowledged by
\* somebody else is a conflict.
Ack(o, a) ==
    LET n == main[o][a].ord IN
    /\ main[o][a].pc = "ack"
    /\ IF main[o][a].pend /\ n \in op[o].acked
       THEN Leave(o, a, "raised") /\ UNCHANGED op
       ELSE /\ Step(o, a, [main[o][a] EXCEPT !.pc = main[o][a].next, !.pend = FALSE])
            /\ IF main[o][a].pend THEN Write(o, [op[o] EXCEPT !.acked = @ \cup {n}])
                                  ELSE UNCHANGED op
    /\ UNCHANGED <<run, att, held, parked, lane, journalVars, side, co>>

\* _record_reconciliation_unknown and record_owned_source_reconciliation_unknown,
\* which knows no conclusion for a result that could not be replayed.
RecordUnknown(o, a) ==
    /\ main[o][a].pc = "unknown"
    /\ \/ /\ op[o].phase # "accepted"
          /\ Leave(o, a, "unknown")
          /\ UNCHANGED op
       \/ /\ op[o].phase = "accepted"
          /\ Owns(o, a)
          /\ main[o][a].saw # "observed"
          /\ Write(o, [op[o] EXCEPT !.phase = "reconciled", !.posture = "reconcile_first",
                                    !.intent = main[o][a].saw = "intent",
                                    !.rec = "unresolved"])
          /\ Leave(o, a, "unknown")
       \/ /\ op[o].phase = "accepted"
          /\ Leave(o, a, "raised")
          /\ UNCHANGED op
    /\ UNCHANGED <<run, att, held, parked, lane, journalVars, side, co>>

\* record_owned_source_operation_observation, when the operation is not yet
\* observed.
Observe(o, a) ==
    /\ main[o][a].pc = "observe"
    /\ LET open == op[o].phase \in {"accepted", "reconciled"}
           fits == op[o].concl = "none" /\ ~Pending(o)
       IN \/ /\ ~open
             /\ Leave(o, a, "ok")
             /\ UNCHANGED op
          \/ /\ open /\ fits
             /\ Owns(o, a)
             /\ Write(o, [op[o] EXCEPT !.phase = "observed", !.posture = "no_retry",
                                       !.intent = TRUE, !.concl = "result"])
             /\ Leave(o, a, "ok")
          \/ /\ open
             /\ Leave(o, a, "raised")
             /\ UNCHANGED op
    /\ UNCHANGED <<run, att, held, parked, lane, journalVars, side, co>>

\* _execute's finally clause: the sidecar is terminated before the lane is left.
\* (A call without a lane starts none but for the replay, which closes its own.)
CloseSidecar(o, a) ==
    /\ main[o][a].pc = "leave"
    /\ Goto(o, a, "exit")
    /\ Put(o, a, Idle)
    /\ UNCHANGED <<ledgerVars, journalVars, co>>

Done(o, a, out) ==
    Step(o, a, [NotStarted EXCEPT !.pc = "done", !.out = out])

HoldsLane(o, a) == lane.open /\ lane.token = main[o][a].token

\* BrowserLaneGuard.__exit__: mark_browser_lane_unresolved keeps the lane of an
\* unknown outcome, release_browser_lane closes it after everything else.  Both
\* are refused when the lane is not ours any more, and after a heartbeat that
\* came too late neither is called.
ExitLane(o, a) ==
    LET m == main[o][a] IN
    /\ m.pc = "exit"
    /\ m.token # 0
    /\ \/ /\ HoldsLane(o, a)
          /\ Done(o, a, m.out)
          /\ lane' = IF m.out = "unknown" THEN lane
                     ELSE [lane EXCEPT !.open = FALSE, !.overdue = FALSE]
       \/ /\ ~HoldsLane(o, a) \/ lane.overdue
          /\ Done(o, a, "raised")
          /\ UNCHANGED lane
    /\ UNCHANGED <<run, att, held, parked, op, journalVars, side, co>>

\* The end of a call that found the operation unknown and took no lane:
\* resolve_browser_lane_from_conclusive_observation.
ExitWithoutLane(o, a) ==
    LET m == main[o][a]
        resolves == /\ m.out = "ok"
                    /\ lane.open /\ lane.op = o
                    /\ op[o].phase \in {"observed", "committed"} /\ ~Unknown(o)
    IN
    /\ m.pc = "exit"
    /\ m.token = 0
    /\ Done(o, a, m.out)
    /\ lane' = IF resolves THEN [lane EXCEPT !.open = FALSE, !.overdue = FALSE] ELSE lane
    /\ UNCHANGED <<run, att, held, parked, op, journalVars, side, co>>

\* _heartbeat_loop: the renewal is refused and on_lease_lost closes the sidecar,
\* whatever the thread that holds the guard is doing.
HeartbeatLost(o, a) ==
    /\ main[o][a].token # 0
    /\ ~HoldsLane(o, a) \/ lane.overdue
    /\ side[o][a].st # "off"
    /\ Put(o, a, Idle)
    /\ UNCHANGED <<ledgerVars, journalVars, main, co>>

\* The clock passes lease_expires_at before a renewal.
LaneOverdue ==
    /\ lane.open /\ ~lane.overdue
    /\ lane' = [lane EXCEPT !.overdue = TRUE]
    /\ UNCHANGED <<run, att, held, parked, op, journalVars, main, side, co>>

\* write_checkpoint_v2: _commit_source_operations_with_ref.
Commit(o, a) ==
    /\ main[o][a].pc = "done" /\ main[o][a].out = "ok"
    /\ Owns(o, a)
    /\ op[o].phase \in {"observed", "reconciled"} /\ op[o].concl # "none"
    /\ Write(o, [op[o] EXCEPT !.phase = "committed"])
    /\ Goto(o, a, "finished")
    /\ UNCHANGED <<run, att, held, parked, lane, journalVars, side, co>>

\* How execute_claimed_run can end after the operation.
Endings(o, a) ==
    LET out == main[o][a].out IN
    CASE run[o] = "stopping" -> IF Unknown(o) THEN {"failed"}
                                ELSE {"closed", "paused", "failed"}
      [] out = "busy" -> {"resumable"}
      [] out = "none" \/ op[o].phase = "committed" -> {"closed", "failed"}
      [] Unknown(o) -> {"resumable"}
      [] OTHER -> {"failed"}

Gone == [NotStarted EXCEPT !.pc = "gone"]

RunEnds(o, a) ==
    /\ main[o][a].pc \in {"done", "finished"}
    /\ Owns(o, a)
    /\ \E to \in Endings(o, a) : run' = [run EXCEPT ![o] = to]
    /\ held' = [held EXCEPT ![o] = FALSE]
    /\ Step(o, a, Gone)
    /\ UNCHANGED <<att, parked, lane, op, journalVars, side, co>>

Alive(o, a) == main[o][a].pc \notin {"none", "gone"}

\* The worker's process dies, or its last writes are refused and the lease is
\* left to recovery.  A sidecar that waits for a message reads the end of the
\* pipe and exits; one that is at work goes on.
Crash(o, a) ==
    /\ Alive(o, a)
    /\ Step(o, a, Gone)
    /\ Put(o, a, IF \/ side[o][a].st \in {"result", "reconcile"}
                    \/ side[o][a].st = "idle" /\ side[o][a].ord = 0
                 THEN Idle ELSE side[o][a])
    /\ UNCHANGED <<ledgerVars, journalVars, co>>

-----------------------------------------------------------------------------
(* The sidecar: _serve, _handle_cards_submit and the command journal.      *)

SideAt(o, a, st) == Put(o, a, [side[o][a] EXCEPT !.st = st])

\* The process ends: a refused transaction, a closed pipe, or a crash.
SideExits(o, a) ==
    /\ side[o][a].st # "off"
    /\ Put(o, a, Idle)
    /\ UNCHANGED <<ledgerVars, journalVars, main, co>>

\* _start_generation: every older session becomes stale.
StartGeneration(o, a) ==
    /\ side[o][a].st = "boot"
    /\ side' = [p \in Operations |-> [b \in Attempts |->
                   IF p = o /\ b = a THEN [side[p][b] EXCEPT !.st = "idle", !.gen = "newest"]
                   ELSE [side[p][b] EXCEPT !.gen = IF @ = "none" THEN @ ELSE "old"]]]
    /\ head' = [p \in Operations |-> [n \in Ordinals |->
                   [head[p][n] EXCEPT !.gen = IF @ = "none" THEN @ ELSE "old"]]]
    /\ UNCHANGED <<ledgerVars, effects, main, co>>

\* _require_session_generation.
Newest(o, a) == side[o][a].gen = "newest"

\* Mutant of PredecessorAllows: the phase of the predecessor is not looked at.
PredecessorAnyPhase(o, n) ==
    n = 1 \/ (n > 1 /\ head[o][n - 1].phase # "none")

\* _require_safe_retry_predecessor: the newest head is the one before, and it
\* says that nothing was dispatched.
PredecessorAllows(o, n) ==
    \/ n = 1
    \/ /\ n > 1
       /\ head[o][n - 1].phase = "accepted"
       /\ \A k \in Ordinals : k > n => head[o][k].phase = "none"

\* record_accepted of a new command; a replay-only sidecar goes no further.
AcceptCommand(o, a) ==
    LET n == side[o][a].ord IN
    /\ side[o][a].st = "idle" /\ n # 0
    /\ Newest(o, a)
    /\ head[o][n].phase = "none"
    /\ PredecessorAllows(o, n)
    /\ Record(o, n, [phase |-> "accepted", gen |-> "newest"])
    /\ SideAt(o, a, IF side[o][a].replay THEN "reconcile" ELSE "accepted")
    /\ UNCHANGED <<ledgerVars, effects, main, co>>

\* record_accepted of a command the journal knows: the exact replay.
ReplayCommand(o, a) ==
    LET n == side[o][a].ord IN
    /\ side[o][a].st = "idle" /\ n # 0
    /\ Newest(o, a)
    /\ head[o][n].phase # "none"
    /\ SideAt(o, a, IF head[o][n].phase = "observed" THEN "result" ELSE "reconcile")
    /\ UNCHANGED <<ledgerVars, journalVars, main, co>>

\* The acknowledgement goes through the pipe to main, or nothing goes on.
SendAck(o, a) ==
    /\ side[o][a].st = "accepted"
    /\ Alive(o, a)
    /\ SideAt(o, a, "acked")
    /\ UNCHANGED <<ledgerVars, journalVars, main, co>>

HeadIs(o, a, phase) == head[o][side[o][a].ord] = [phase |-> phase, gen |-> "newest"]

\* record_dispatch_intent.
RecordIntent(o, a) ==
    /\ side[o][a].st = "acked"
    /\ Newest(o, a) /\ HeadIs(o, a, "accepted")
    /\ LET n == side[o][a].ord IN Record(o, n, [head[o][n] EXCEPT !.phase = "intent"])
    /\ SideAt(o, a, "intent")
    /\ UNCHANGED <<ledgerVars, effects, main, co>>

\* _execute_cards: the browser is driven.
PerformEffect(o, a) ==
    /\ side[o][a].st = "intent"
    /\ effects' = [effects EXCEPT ![o] = @ + 1]
    /\ SideAt(o, a, "effected")
    /\ UNCHANGED <<ledgerVars, head, main, co>>

\* _record_terminal_observation.
RecordObservation(o, a) ==
    /\ side[o][a].st = "effected"
    /\ Newest(o, a) /\ HeadIs(o, a, "intent")
    /\ LET n == side[o][a].ord IN Record(o, n, [head[o][n] EXCEPT !.phase = "observed"])
    /\ IF Alive(o, a) THEN SideAt(o, a, "result")
                      ELSE Put(o, a, Idle)
    /\ UNCHANGED <<ledgerVars, effects, main, co>>

-----------------------------------------------------------------------------
(* The coordinator of the runner loop: run_once.                           *)

\* resolve_expired_browser_lane_after_reconciliation: what the latest
\* reconciliation row must say of the operation that holds the lane.
LaneEvidence(o) ==
    \/ op[o].rec \in NoDispatchProved
    \/ /\ op[o].rec \in Conclusive
       /\ op[o].phase \in {"reconciled", "committed"}
       /\ op[o].concl = op[o].rec

ReleaseLane == lane' = [lane EXCEPT !.open = FALSE, !.overdue = FALSE]

\* Mutant of Project: the deadline of the lane is not looked at.
ProjectAnyLane(o) ==
    /\ co.pc = "idle"
    /\ lane.open /\ lane.op = o
    /\ LaneEvidence(o)
    /\ ReleaseLane
    /\ UNCHANGED <<run, att, held, parked, op, journalVars, main, side, co>>

\* reconcile_expired_browser_lane_from_durable_evidence, first call.
Project(o) ==
    /\ co.pc = "idle"
    /\ lane.open /\ lane.overdue /\ lane.op = o
    /\ LaneEvidence(o)
    /\ ReleaseLane
    /\ UNCHANGED <<run, att, held, parked, op, journalVars, main, side, co>>

\* _read_history and _decision_from_history for the newest authorization, with
\* the absence of the operation's own browser tab as a last resort.
Findings(o) ==
    LET phase == head[o][op[o].ord].phase IN
    CASE phase = "none" -> {"notFound", "unavailable"}
      [] phase = "accepted" -> {"noDispatch", "unavailable"}
      [] phase = "observed" -> {"result", "unavailable"}
      [] OTHER -> {"unresolved", "unavailable"}
                    \cup IF /\ Unknown(o)
                            /\ \A a \in Attempts : side[o][a].st # "effected"
                         THEN {"tabAbsent"} ELSE {}

\* run_once up to the commit.  An operation known to be unknown is left alone
\* by another inconclusive answer.
Look(o) ==
    /\ co.pc = "idle"
    /\ lane.open /\ lane.overdue /\ lane.op = o
    /\ op[o].phase # "absent"
    /\ op[o].rec \in {"none", "unresolved"}
    /\ \E found \in Findings(o) :
          /\ Unknown(o) => found \notin {"unavailable", "unresolved"}
          /\ co' = [pc |-> "looked", op |-> o, token |-> lane.token, seen |-> op[o],
                    found |-> found]
    /\ UNCHANGED <<ledgerVars, journalVars, main, side>>

\* _require_source_reconciliation_transition.
TransitionAllowed(row, found) ==
    /\ row.posture # "safe_retry"
    /\ ~(row.posture = "no_retry" /\ row.concl # "none")
    /\ found \in NoDispatchProved => ~row.intent

Reconciled(row, found) ==
    LET acked == row.acked \cup {row.ord}
        done == [row EXCEPT !.phase = "reconciled"] IN
    CASE found \in NoDispatchProved ->
            [done EXCEPT !.posture = "safe_retry", !.rec = found]
      [] found \in Conclusive ->
            [done EXCEPT !.posture = "no_retry", !.intent = TRUE, !.concl = found,
                         !.rec = found, !.acked = acked]
      [] found = "unresolved" ->
            [done EXCEPT !.posture = "reconcile_first", !.intent = TRUE,
                         !.rec = "unresolved", !.acked = acked]
      [] OTHER -> [done EXCEPT !.posture = "reconcile_first", !.rec = "unresolved"]

\* Mutant of LaneMatches: failed is missing from the statuses.
LaneMatchesNotFailed(o) ==
    /\ run[o] \in {"resumable", "attention"}
    /\ lane.open /\ lane.overdue /\ lane.op = o /\ lane.token = co.token

\* _expired_browser_lane_reconciliation_matches.
LaneMatches(o) ==
    /\ run[o] \in {"resumable", "attention", "failed"}
    /\ lane.open /\ lane.overdue /\ lane.op = o /\ lane.token = co.token

\* commit_no_owner_source_reconciliation: nobody executes the run and neither
\* the operation nor its dispatch has changed since they were read.
CommitReconciliation(o) ==
    LET allowed == /\ run[o] = "resumable" \/ LaneMatches(o)
                   /\ ~held[o]
                   /\ op[o] = co.seen
                   /\ op[o].phase # "committed"
                   /\ TransitionAllowed(op[o], co.found)
    IN
    /\ co.pc = "looked" /\ co.op = o
    /\ IF allowed THEN Write(o, Reconciled(op[o], co.found)) ELSE UNCHANGED op
    /\ co' = IF allowed THEN [NotLooking EXCEPT !.pc = "committed", !.op = o]
             ELSE NotLooking
    /\ UNCHANGED <<run, att, held, parked, lane, journalVars, main, side>>

\* reconcile_expired_browser_lane_from_durable_evidence, second call, and the
\* look at the run of _resume_reconciled_recovery_attention.
ReleaseReconciled(o) ==
    /\ co.pc = "committed" /\ co.op = o
    /\ IF lane.open /\ lane.overdue /\ lane.op = o /\ LaneEvidence(o)
       THEN /\ ReleaseLane
            /\ co' = IF run[o] = "attention" THEN [co EXCEPT !.pc = "released"] ELSE NotLooking
       ELSE UNCHANGED lane /\ co' = NotLooking
    /\ UNCHANGED <<run, att, held, parked, op, journalVars, main, side>>

\* resolve_source_operation_recovery_attention: only a journal that names the
\* command and no dispatch of it lets the run go on.
ResolveAttention(o) ==
    /\ co.pc = "released" /\ co.op = o
    /\ IF /\ run[o] = "attention" /\ ~held[o]
          /\ \/ op[o].phase = "committed"
             \/ op[o].posture = "safe_retry" /\ op[o].rec = "noDispatch"
       THEN /\ run' = [run EXCEPT ![o] = "resumable"]
            /\ parked' = [parked EXCEPT ![o] = "resolved"]
       ELSE UNCHANGED <<run, parked>>
    /\ co' = NotLooking
    /\ UNCHANGED <<att, held, lane, op, journalVars, main, side>>

CoordinatorCrash ==
    /\ co.pc # "idle"
    /\ co' = NotLooking
    /\ UNCHANGED <<ledgerVars, journalVars, main, side>>

-----------------------------------------------------------------------------
RunStep(o) == Claim(o) \/ RequestStop(o) \/ Resume(o) \/ Settle(o)

MainStep(o, a) ==
    \/ Begin(o, a) \/ AcquireLane(o, a) \/ LaneBusy(o, a) \/ ReadContext(o, a)
    \/ Accept(o, a) \/ Mint(o, a) \/ Send(o, a) \/ Receive(o, a) \/ NoAnswer(o, a)
    \/ Query(o, a) \/ Replay(o, a) \/ ReplayEnds(o, a) \/ Ack(o, a)
    \/ RecordUnknown(o, a) \/ Observe(o, a) \/ CloseSidecar(o, a)
    \/ ExitLane(o, a) \/ ExitWithoutLane(o, a) \/ HeartbeatLost(o, a)
    \/ Commit(o, a) \/ RunEnds(o, a)

SideStep(o, a) ==
    \/ StartGeneration(o, a) \/ AcceptCommand(o, a) \/ ReplayCommand(o, a)
    \/ SendAck(o, a) \/ RecordIntent(o, a) \/ PerformEffect(o, a)
    \/ RecordObservation(o, a)

CoordinatorStep(o) ==
    \/ Project(o) \/ Look(o) \/ CommitReconciliation(o) \/ ReleaseReconciled(o)
    \/ ResolveAttention(o)

Next ==
    \/ LaneOverdue \/ CoordinatorCrash
    \/ \E o \in Operations : RunStep(o) \/ CoordinatorStep(o)
    \/ \E o \in Operations, a \in Attempts :
          MainStep(o, a) \/ SideStep(o, a) \/ SideExits(o, a) \/ Crash(o, a)

Spec == Init /\ [][Next]_vars

-----------------------------------------------------------------------------
(* Fairness.  The clock passes the deadline of a lane nobody renews and of *)
(* a lease nobody renews; the runner loop calls the settlement and run_once *)
(* again and again, the journal can be read now and then, and the process  *)
(* is not killed at the same point of every pass; a worker that lives goes *)
(* on.  Nothing is assumed of the sidecars.                                *)

OrphanedLaneOverdue == LaneOverdue /\ \A a \in Attempts : ~Alive(lane.op, a)

ConclusiveLook(o) == Look(o) /\ co'.found # "unavailable"

Fairness ==
    /\ WF_vars(OrphanedLaneOverdue)
    /\ \A o \in Operations :
           /\ WF_vars(Settle(o) /\ \A a \in Attempts : ~Alive(o, a))
           /\ SF_vars(Project(o)) /\ SF_vars(ConclusiveLook(o))
           /\ SF_vars(CommitReconciliation(o)) /\ SF_vars(ReleaseReconciled(o))
    /\ \A o \in Operations, a \in Attempts : WF_vars(MainStep(o, a))

FairSpec == Spec /\ Fairness

-----------------------------------------------------------------------------
(* What the two databases and the lane promise together.                   *)

MainLabel ==
    {"none", "start", "lane", "inside", "accept", "mint", "send", "await", "recover",
     "query", "replay", "replaying", "ack", "unknown", "observe", "leave", "exit",
     "done", "finished", "gone"}

MainRow ==
    [pc : MainLabel,
     token : Nat,                       \* fencing_token of the lane it entered
     ord : {0} \cup Ordinals,           \* the authorization it works for
     pend : BOOLEAN,                    \* whose outbox row it found pending
     saw : {"none", "intent", "observed"},
     next : {"none", "observe", "query", "unknown"},
     out : {"none", "ok", "busy", "unknown", "raised"}]

SideRow ==
    [st : {"off", "boot", "idle", "accepted", "acked", "intent", "effected", "result",
           "reconcile"},
     gen : Age,
     ord : {0} \cup Ordinals,           \* of the command on its input
     replay : BOOLEAN]                  \* started to replay only

LookRow ==
    [pc : {"idle", "looked", "committed", "released"},
     op : Operations \cup {NoOperation},
     token : Nat,
     seen : OperationRow,
     found : Evidence \cup {"unavailable"}]

\* Every variable keeps its type; in particular an authorization ordinal is
\* minted at most once per attempt (safe_retry_turnover.py).
TypeOK ==
    /\ run \in [Operations -> RunState]
    /\ att \in [Operations -> 0..MaxAttempts]
    /\ held \in [Operations -> BOOLEAN]
    /\ parked \in [Operations -> {"no", "active", "resolved"}]
    /\ lane \in [open : BOOLEAN, overdue : BOOLEAN, token : Nat,
                 op : Operations \cup {NoOperation}]
    /\ op \in [Operations -> OperationRow]
    /\ head \in [Operations -> [Ordinals -> HeadRow]]
    /\ effects \in [Operations -> Nat]
    /\ main \in [Operations -> [Attempts -> MainRow]]
    /\ side \in [Operations -> [Attempts -> SideRow]]
    /\ co \in LookRow

\* "crash/replay before or after each boundary cannot duplicate dispatch": however
\* workers, sidecars and the coordinator die and race, the browser is driven at
\* most once for one operation.  Two databases have to agree for it: main gives a
\* second authorization only after a reconciliation, and the journal admits it
\* only behind a head that never got a dispatch intent.
AtMostOneEffect == \A o \in Operations : effects[o] <= 1

\* Once the journal holds a dispatch intent of an operation no later
\* authorization of it is ever admitted, and an older sidecar never records an
\* intent behind a newer authorization (record_accepted, record_dispatch_intent).
OneDispatchIntent ==
    \A o \in Operations, n, k \in Ordinals :
        /\ head[o][n].phase \in {"intent", "observed"}
        /\ head[o][k].phase # "none"
        => k <= n

\* What main calls a result is one the journal holds and the browser produced,
\* and no operation reaches observed or main_committed without a conclusion
\* (record_owned_source_operation_observation, the coordinator's decisions).
ObservedIsJournaled ==
    \A o \in Operations :
        /\ op[o].concl = "result" =>
               /\ \E n \in Ordinals : head[o][n].phase = "observed"
               /\ effects[o] > 0
        /\ op[o].phase \in {"observed", "committed"} => op[o].concl # "none"

\* A conclusion is final: neither a stale executor, nor a late sidecar, nor the
\* coordinator replaces it or authorizes the operation again, and a committed
\* operation stays committed.
ConclusionIsFinal ==
    [][\A o \in Operations :
          op[o].concl # "none" =>
              /\ op'[o].concl = op[o].concl /\ op'[o].ord = op[o].ord
              /\ op'[o].posture = "no_retry"
              /\ op[o].phase = "committed" => op'[o].phase = "committed"]_vars

\* A lane whose lease has not run out is released by nobody but the thread that
\* holds this very token, and only after its sidecar is closed; or, once main has
\* the result of the operation, by an executor that found it concluded.
LiveLaneBelongsToHolder ==
    [][lane.open /\ ~lane.overdue /\ ~lane'.open =>
          \/ \E a \in Attempts :
                /\ main[lane.op][a].pc = "exit" /\ main[lane.op][a].token = lane.token
                /\ side[lane.op][a].st = "off"
          \/ op[lane.op].phase \in {"observed", "committed"}]_vars

\* The operation's worker is gone and no other can take the run.
Orphaned(o) ==
    /\ \A a \in Attempts : ~Alive(o, a)
    /\ ~held[o]
    /\ run[o] \in {"attention", "failed"} \/ (run[o] = "resumable" /\ Unknown(o))

\* The coordinator can always conclude an orphaned operation whose result is in
\* the journal and free its lane: the ledger already has the evidence, or a look
\* is due and nothing refuses its decision.
OrphanCanBeConcluded ==
    \A o \in Operations :
        /\ lane.open /\ lane.overdue /\ lane.op = o
        /\ Orphaned(o)
        /\ op[o].ord # 0 /\ op[o].concl = "none"
        /\ head[o][op[o].ord].phase = "observed"
        => \/ LaneEvidence(o)
           \/ /\ op[o].rec \in {"none", "unresolved"}
              /\ TransitionAllowed(op[o], "result")
              /\ co.pc = "looked" /\ co.op = o /\ co.token = lane.token
                 => run[o] = "resumable" \/ LaneMatches(o)

-----------------------------------------------------------------------------
(* What the documents, comments and tests say, and the code does not do.   *)

\* The lane of an operation that has been observed is eventually released.
ObservedOperationFreesLane ==
    \A o \in Operations :
        lane.open /\ lane.op = o /\ op[o].phase \in {"observed", "committed"}
        ~> ~(lane.open /\ lane.op = o)

=============================================================================
