-------------------------- MODULE RunControlProofs --------------------------
(***************************************************************************)
(* Proofs about RunControl for any sets of runs, workers and commands and  *)
(* any bound on the attempts.                                              *)
(*                                                                         *)
(* Type correctness is inductive as it stands and comes first.  Then the   *)
(* safety theorems.  Their argument: the claim transaction is the only     *)
(* step that opens a lease row, and it does so only when the run has none, *)
(* so the open row of a run is always that of its newest attempt; attempt  *)
(* numbers only grow, so no two workers carry the same one.  LeaseInv      *)
(* states exactly that, and the rest follows from it and from the guards   *)
(* of the FSM.                                                             *)
(***************************************************************************)
EXTENDS RunControl, TLAPS

-----------------------------------------------------------------------------
(* Facts about the state machine of fsm.py.                                *)

\* The transition table never leads out of the set of run statuses, so an
\* accepted status change keeps the status column inside the FSM.
LEMMA AllowedIsStatus ==
    ASSUME NEW from, NEW to, Allowed(from, to)
    PROVE  from \in RunStatus /\ to \in RunStatus
  BY DEF Allowed, RunStatus, Transitions

\* The table has no way out of cancelled, completed and failed but themselves.
LEMMA TerminalStays ==
    ASSUME NEW from \in Terminal, NEW to, Allowed(from, to)
    PROVE  to = from
  BY DEF Allowed, RunStatus, Transitions, Terminal

\* What an accepted executor event leaves behind, whichever event it is.
LEMMA EventType ==
    ASSUME TypeOK, NEW w \in Workers, NEW target, ExecutorEvent(w, target)
    PROVE  /\ status' \in [Runs -> RunStatus \cup {"absent"}]
           /\ waiting' \in [Runs -> {"no", "fresh", "due"}]
           /\ UNCHANGED <<latest, lease, ckpt, ops, attention, earlier, cmd>>
  <1>1. target \in RunStatus
    BY AllowedIsStatus DEF ExecutorEvent
  <1>2. QED
    BY <1>1 DEF ExecutorEvent, TypeOK

\* A worker that moves to another label, or back to idle, keeps its types.
LEMMA GotoType ==
    ASSUME TypeOK, NEW w \in Workers, NEW l \in WorkerLabel, Goto(w, l)
    PROVE  pc' \in [Workers -> WorkerLabel]
  BY DEF TypeOK, Goto

\* A worker that returns to its polling loop forgets its claim.
LEMMA ReturnType ==
    ASSUME TypeOK, NEW w \in Workers, Return(w)
    PROVE  /\ pc' \in [Workers -> WorkerLabel]
           /\ wrun' \in [Workers -> Runs \cup {NoRun}]
           /\ watt' \in [Workers -> 0..MaxAttempts]
           /\ reason' \in [Workers -> {"none", "queued", "resume_requested", "resource_wait"}]
           /\ wcmd' \in [Workers -> Commands \cup {NoCommand}]
  BY MaxAttemptsAssumption DEF TypeOK, Return, Goto, WorkerLabel

\* Setting the status of one lease row keeps the type of the table.
LEMMA CloseType ==
    ASSUME TypeOK, NEW w \in Workers, NEW to \in LeaseState, CloseLease(w, to)
    PROVE  lease' \in [Runs -> [Attempts -> LeaseState]]
  <1>1. CASE wrun[w] \in Runs
    <2>1. [lease[wrun[w]] EXCEPT ![watt[w]] = to] \in [Attempts -> LeaseState]
      BY <1>1 DEF TypeOK
    <2>2. lease' = [lease EXCEPT ![wrun[w]] = [lease[wrun[w]] EXCEPT ![watt[w]] = to]]
      BY DEF CloseLease
    <2>3. QED
      BY <2>1, <2>2 DEF TypeOK
  <1>2. CASE wrun[w] \notin Runs
    BY <1>2 DEF CloseLease, TypeOK
  <1>3. QED
    BY <1>1, <1>2

\* Updating one column of a command row keeps the type of the row.
LEMMA CommandFields ==
    ASSUME NEW rec \in CommandRecord
    PROVE  /\ \A x \in {"none", "accepted", "applied", "superseded"} :
                  [rec EXCEPT !.row = x] \in CommandRecord
           /\ \A l \in {"idle", "save", "mark", "update", "write", "event", "done"} :
                  [rec EXCEPT !.pc = l] \in CommandRecord
           /\ \A t \in SUBSET Commands : [rec EXCEPT !.todo = t] \in CommandRecord
  BY DEF CommandRecord

-----------------------------------------------------------------------------
(* Type correctness.                                                       *)

\* An empty store, idle workers and no request are well typed.
LEMMA InitType == Init => TypeOK
  BY MaxAttemptsAssumption
  DEF Init, TypeOK, LeaseState, CheckpointState, OpsState, WorkerLabel, IdleCommand,
      CommandRecord

\* The executor's own steps.
LEMMA ExecutorType ==
    ASSUME TypeOK, NEW w \in Workers,
           \/ ExecutorStarting(w) \/ ReadCheckpoint(w) \/ Resumed(w) \/ ResumeFailed(w)
           \/ RuntimeStart(w) \/ Progress(w) \/ WriteCheckpoint(w) \/ CheckpointEvent(w)
           \/ AcceptSource(w) \/ SourceRefused(w) \/ RecordUnknown(w) \/ MintSafeRetry(w)
           \/ RuntimeEnds(w) \/ LaneBusy(w) \/ Complete(w) \/ ExecutorFailed(w)
           \/ HeartbeatLost(w) \/ EventRefused(w)
    PROVE  TypeOK'
  <1> USE DEF WorkerLabel
  <1>1. CASE ExecutorStarting(w)
    <2>1. ExecutorEvent(w, "starting")
      BY <1>1 DEF ExecutorStarting
    <2>2. pc' \in [Workers -> WorkerLabel] /\ KeepClaim
      BY <1>1, GotoType DEF ExecutorStarting
    <2>3. QED
      BY <2>1, <2>2, EventType DEF TypeOK, KeepClaim
  <1>2. CASE ReadCheckpoint(w)
    <2>1. pc' \in [Workers -> WorkerLabel]
      BY <1>2 DEF ReadCheckpoint, Goto, TypeOK
    <2>2. QED
      BY <1>2, <2>1 DEF ReadCheckpoint, KeepClaim, TypeOK, runVars
  <1>3. CASE Resumed(w)
    <2>1. ExecutorEvent(w, "running")
      BY <1>3 DEF Resumed
    <2>2. pc' \in [Workers -> WorkerLabel] /\ KeepClaim
      BY <1>3, GotoType DEF Resumed
    <2>3. QED
      BY <2>1, <2>2, EventType DEF TypeOK, KeepClaim
  <1>4. CASE ResumeFailed(w)
    <2>1. ExecutorEvent(w, "failed")
      BY <1>4 DEF ResumeFailed
    <2>2. pc' \in [Workers -> WorkerLabel] /\ KeepClaim
      BY <1>4, GotoType DEF ResumeFailed
    <2>3. QED
      BY <2>1, <2>2, EventType DEF TypeOK, KeepClaim
  <1>5. CASE RuntimeStart(w)
    <2>1. ExecutorEvent(w, "running")
      BY <1>5 DEF RuntimeStart
    <2>2. pc' \in [Workers -> WorkerLabel] /\ KeepClaim
      BY <1>5, GotoType DEF RuntimeStart
    <2>3. QED
      BY <2>1, <2>2, EventType DEF TypeOK, KeepClaim
  <1>6. CASE Progress(w)
    <2>1. ExecutorEvent(w, "running")
      BY <1>6 DEF Progress
    <2>2. QED
      BY <1>6, <2>1, EventType DEF Progress, TypeOK, workerVars
  <1>7. CASE WriteCheckpoint(w)
    <2>1. pc' \in [Workers -> WorkerLabel]
      BY <1>7, GotoType DEF WriteCheckpoint
    <2>2. ckpt' \in [Runs -> CheckpointState]
      BY <1>7 DEF WriteCheckpoint, TypeOK, CheckpointState
    <2>3. ops' \in [Runs -> OpsState]
      <3>1. PICK o : ops' = [ops EXCEPT ![wrun[w]] = o] /\ o \in {ops[wrun[w]], "clear"}
        BY <1>7 DEF WriteCheckpoint
      <3>2. CASE wrun[w] \in Runs
        <4>1. o \in OpsState
          BY <3>1, <3>2 DEF TypeOK, OpsState
        <4>2. QED
          BY <3>1, <4>1 DEF TypeOK
      <3>3. CASE wrun[w] \notin Runs
        BY <3>1, <3>3 DEF TypeOK
      <3>4. QED
        BY <3>2, <3>3
    <2>4. QED
      BY <1>7, <2>1, <2>2, <2>3 DEF WriteCheckpoint, KeepClaim, TypeOK
  <1>8. CASE CheckpointEvent(w)
    <2>1. ExecutorEvent(w, "running")
      BY <1>8 DEF CheckpointEvent
    <2>2. pc' \in [Workers -> WorkerLabel] /\ KeepClaim
      BY <1>8, GotoType DEF CheckpointEvent
    <2>3. QED
      BY <2>1, <2>2, EventType DEF TypeOK, KeepClaim
  <1>9. CASE AcceptSource(w)
    BY <1>9 DEF AcceptSource, TypeOK, OpsState, workerVars
  <1>10. CASE SourceRefused(w)
    BY <1>10 DEF SourceRefused, Goto, KeepClaim, TypeOK, runVars
  <1>11. CASE RecordUnknown(w)
    BY <1>11 DEF RecordUnknown, TypeOK, OpsState, workerVars
  <1>12. CASE MintSafeRetry(w)
    BY <1>12 DEF MintSafeRetry, TypeOK, OpsState, workerVars
  <1>13. CASE RuntimeEnds(w)
    BY <1>13 DEF RuntimeEnds, Goto, KeepClaim, TypeOK, runVars
  <1>14. CASE LaneBusy(w)
    <2>1. ExecutorEvent(w, "resume_requested")
      BY <1>14 DEF LaneBusy
    <2>2. pc' \in [Workers -> WorkerLabel] /\ KeepClaim
      BY <1>14, GotoType DEF LaneBusy
    <2>3. QED
      BY <2>1, <2>2, EventType DEF TypeOK, KeepClaim
  <1>15. CASE Complete(w)
    <2>1. ExecutorEvent(w, "completed")
      BY <1>15 DEF Complete
    <2>2. pc' \in [Workers -> WorkerLabel] /\ KeepClaim
      BY <1>15, GotoType DEF Complete
    <2>3. QED
      BY <2>1, <2>2, EventType DEF TypeOK, KeepClaim
  <1>16. CASE ExecutorFailed(w)
    <2>1. ExecutorEvent(w, "failed")
      BY <1>16 DEF ExecutorFailed
    <2>2. pc' \in [Workers -> WorkerLabel] /\ KeepClaim
      BY <1>16, GotoType DEF ExecutorFailed
    <2>3. QED
      BY <2>1, <2>2, EventType DEF TypeOK, KeepClaim
  <1>17. CASE HeartbeatLost(w)
    BY <1>17 DEF HeartbeatLost, Goto, KeepClaim, TypeOK, runVars
  <1>18. CASE EventRefused(w)
    BY <1>18 DEF EventRefused, Goto, KeepClaim, TypeOK, runVars
  <1>19. QED
    BY <1>1, <1>2, <1>3, <1>4, <1>5, <1>6, <1>7, <1>8, <1>9, <1>10, <1>11, <1>12,
       <1>13, <1>14, <1>15, <1>16, <1>17, <1>18

\* The steps that close a lease and the application of a command.
LEMMA ClosingType ==
    ASSUME TypeOK, NEW w \in Workers,
           \/ YieldForReconciliation(w) \/ Release(w) \/ WorkerFailed(w)
           \/ Heartbeat(w) \/ Crash(w)
           \/ ApplyChoose(w) \/ ApplyMark(w) \/ ApplyEvent(w)
    PROVE  TypeOK'
  <1> USE DEF WorkerLabel
  <1>1. CASE YieldForReconciliation(w)
    <2>1. CASE Holds(w) /\ Allowed(status[wrun[w]], "resume_requested")
               /\ status' = [status EXCEPT ![wrun[w]] = "resume_requested"]
               /\ waiting' = [waiting EXCEPT ![wrun[w]] = "no"]
               /\ CloseLease(w, "revoked") /\ Return(w)
      <3>1. status' \in [Runs -> RunStatus \cup {"absent"}]
        BY <2>1, AllowedIsStatus DEF TypeOK
      <3>2. lease' \in [Runs -> [Attempts -> LeaseState]]
        BY <2>1 DEF TypeOK, CloseLease, LeaseState, ClosedLease
      <3>3. QED
        BY <1>1, <2>1, <3>1, <3>2, ReturnType DEF YieldForReconciliation, ExpiryOrder, TypeOK
    <2>2. CASE Goto(w, "workerFailing") /\ KeepClaim /\ UNCHANGED <<status, waiting, lease>>
      BY <1>1, <2>2, GotoType DEF YieldForReconciliation, ExpiryOrder, TypeOK, KeepClaim
    <2>3. QED
      BY <1>1, <2>1, <2>2 DEF YieldForReconciliation
  <1>2. CASE Release(w)
    <2>1. lease' \in [Runs -> [Attempts -> LeaseState]]
      <3>1. ReleaseAs(w) \in LeaseState
        BY DEF ReleaseAs, LeaseState, ClosedLease
      <3>2. lease' = lease \/ CloseLease(w, ReleaseAs(w))
        BY <1>2 DEF Release
      <3>3. QED
        BY <3>1, <3>2, CloseType DEF TypeOK
    <2>2. CASE Return(w)
      BY <1>2, <2>1, <2>2, ReturnType DEF Release, ExpiryOrder, TypeOK
    <2>3. CASE Goto(w, "workerFailing") /\ KeepClaim
      BY <1>2, <2>1, <2>3, GotoType DEF Release, ExpiryOrder, TypeOK, KeepClaim
    <2>4. QED
      BY <1>2, <2>2, <2>3 DEF Release
  <1>3. CASE WorkerFailed(w)
    <2>1. CASE ExecutorEvent(w, "failed") /\ Goto(w, "workerRelease") /\ KeepClaim
      BY <2>1, EventType, GotoType DEF TypeOK, KeepClaim
    <2>2. CASE Return(w) /\ UNCHANGED <<runVars, cmd>>
      BY <2>2, ReturnType DEF TypeOK, runVars
    <2>3. QED
      BY <1>3, <2>1, <2>2 DEF WorkerFailed
  <1>4. CASE Heartbeat(w)
    <2>1. lease' \in [Runs -> [Attempts -> LeaseState]]
      BY <1>4 DEF Heartbeat, TypeOK, CloseLease, LeaseState, OpenLease
    <2>2. QED
      BY <1>4, <2>1 DEF Heartbeat, ExpiryOrder, TypeOK, workerVars
  <1>5. CASE Crash(w)
    BY <1>5, MaxAttemptsAssumption DEF Crash, TypeOK, runVars
  <1>6. CASE ApplyChoose(w)
    <2>1. pc' \in [Workers -> WorkerLabel] /\ wcmd' \in [Workers -> Commands \cup {NoCommand}]
      BY <1>6 DEF ApplyChoose, Goto, NextLifecycle, Pending, TypeOK
    <2>2. QED
      BY <1>6, <2>1 DEF ApplyChoose, TypeOK, runVars
  <1>7. CASE ApplyMark(w)
    <2>1. pc' \in [Workers -> WorkerLabel]
      BY <1>7, GotoType DEF ApplyMark
    <2>2. cmd' \in [Commands -> CommandRecord]
      <3>1. \A d \in Commands : [cmd[d] EXCEPT !.row = "applied"] \in CommandRecord
        BY CommandFields DEF TypeOK
      <3>2. cmd' = [cmd EXCEPT ![wcmd[w]] = [cmd[wcmd[w]] EXCEPT !.row = "applied"]]
        BY <1>7 DEF ApplyMark
      <3>3. QED
        BY <3>1, <3>2 DEF TypeOK
    <2>3. QED
      BY <1>7, <2>1, <2>2 DEF ApplyMark, KeepClaim, TypeOK, runVars
  <1>8. CASE ApplyEvent(w)
    <2>1. ExecutorEvent(w, EventTarget(w))
      BY <1>8 DEF ApplyEvent
    <2>2. CASE Return(w)
      BY <2>1, <2>2, EventType, ReturnType DEF TypeOK
    <2>3. CASE KeepClaim /\ (Goto(w, "applyRelease") \/ Goto(w, "applyEvent2"))
      BY <2>1, <2>3, EventType, GotoType DEF TypeOK, KeepClaim
    <2>4. QED
      BY <1>8, <2>2, <2>3 DEF ApplyEvent
  <1>9. QED
    BY <1>1, <1>2, <1>3, <1>4, <1>5, <1>6, <1>7, <1>8

\* The steps of a command request.
LEMMA CommandType ==
    ASSUME TypeOK, NEW c \in Commands, CommandStep(c) \/ CommandCrash(c)
    PROVE  TypeOK'
  <1>1. ASSUME NEW r \in Runs, RequestPauseOrResume(c, r)
        PROVE  TypeOK'
    <2>1. PICK type \in {"pause", "resume"} :
              cmd' = [cmd EXCEPT ![c] = [IdleCommand EXCEPT
                         !.type = type, !.run = r, !.pc = "save", !.seen = status[r]]]
      BY <1>1 DEF RequestPauseOrResume
    <2>2. cmd' \in [Commands -> CommandRecord]
      BY <2>1 DEF TypeOK, CommandRecord, CommandTypes, IdleCommand
    <2>3. QED
      BY <1>1, <2>2 DEF RequestPauseOrResume, TypeOK, runVars, workerVars
  <1>2. ASSUME NEW r \in Runs, RequestCancel(c, r)
        PROVE  TypeOK'
    <2>1. {d \in Pending(r) : cmd[d].type # "cancel"} \in SUBSET Commands
      BY DEF Pending
    <2>2. cmd' \in [Commands -> CommandRecord]
      BY <1>2, <2>1 DEF RequestCancel, TypeOK, CommandRecord, CommandTypes, IdleCommand
    <2>3. QED
      BY <1>2, <2>2 DEF RequestCancel, TypeOK, runVars, workerVars
  <1>3. CASE Supersede(c)
    <2>1. PICK d \in cmd[c].todo :
              /\ cmd' = [cmd EXCEPT ![d].row = "superseded", ![c].todo = @ \ {d}]
              /\ waiting' = [waiting EXCEPT ![cmd[c].run] = "no"]
              /\ UNCHANGED <<status, latest, lease, ckpt, ops, attention, earlier, workerVars>>
      BY <1>3 DEF Supersede
    <2>2. cmd' \in [Commands -> CommandRecord]
      <3>1. DEFINE one == [cmd EXCEPT ![d].row = "superseded"]
      <3>2. \A e \in Commands : [cmd[e] EXCEPT !.row = "superseded"] \in CommandRecord
        BY CommandFields DEF TypeOK
      <3>3. one \in [Commands -> CommandRecord]
        BY <3>2 DEF TypeOK
      <3>4. [one[c] EXCEPT !.todo = @ \ {d}] \in CommandRecord
        BY <3>3 DEF CommandRecord
      <3>5. cmd' = [one EXCEPT ![c] = [one[c] EXCEPT !.todo = @ \ {d}]]
        BY <2>1
      <3>6. QED
        BY <3>3, <3>4, <3>5
    <2>3. QED
      BY <2>1, <2>2 DEF TypeOK, workerVars
  <1>4. CASE SaveCommand(c)
    <2>1. cmd' \in [Commands -> CommandRecord]
      BY <1>4 DEF SaveCommand, TypeOK, CommandRecord
    <2>2. QED
      BY <1>4, <2>1 DEF SaveCommand, TypeOK, runVars, workerVars
  <1>5. CASE MarkApplied(c)
    <2>1. cmd' \in [Commands -> CommandRecord]
      BY <1>5 DEF MarkApplied, TypeOK, CommandRecord
    <2>2. QED
      BY <1>5, <2>1 DEF MarkApplied, TypeOK, runVars, workerVars
  <1>6. CASE CheckRunStatus(c) \/ UpdateRunStatus(c)
    <2>1. cmd' \in [Commands -> CommandRecord]
      <3>1. \A l \in {"write", "event", "done"} : [cmd[c] EXCEPT !.pc = l] \in CommandRecord
        BY CommandFields DEF TypeOK
      <3>2. PICK l \in {"write", "event", "done"} :
                cmd' = [cmd EXCEPT ![c] = [cmd[c] EXCEPT !.pc = l]]
        BY <1>6 DEF CheckRunStatus, UpdateRunStatus
      <3>3. QED
        BY <3>1, <3>2 DEF TypeOK
    <2>2. status' \in [Runs -> RunStatus \cup {"absent"}]
      <3>1. RequestedStatus(c) \in RunStatus
        BY DEF RequestedStatus, RunStatus, Transitions
      <3>2. QED
        BY <1>6, <3>1 DEF CheckRunStatus, UpdateRunStatus, TypeOK, runVars
    <2>3. QED
      BY <1>6, <2>1, <2>2 DEF CheckRunStatus, UpdateRunStatus, TypeOK, runVars, workerVars
  <1>7. CASE CommandEvent(c)
    <2>1. cmd' \in [Commands -> CommandRecord]
      <3>1. [cmd[c] EXCEPT !.pc = "done"] \in CommandRecord
        BY CommandFields DEF TypeOK
      <3>2. cmd' = [cmd EXCEPT ![c] = [cmd[c] EXCEPT !.pc = "done"]]
        BY <1>7 DEF CommandEvent
      <3>3. QED
        BY <3>1, <3>2 DEF TypeOK
    <2>2. QED
      BY <1>7, <2>1 DEF CommandEvent, TypeOK, workerVars
  <1>8. CASE CommandCrash(c)
    <2>1. cmd' \in [Commands -> CommandRecord]
      <3>1. [[cmd[c] EXCEPT !.pc = "done"] EXCEPT !.todo = {}] \in CommandRecord
        BY CommandFields DEF TypeOK
      <3>2. cmd' = [cmd EXCEPT ![c] = [cmd[c] EXCEPT !.pc = "done", !.todo = {}]]
        BY <1>8 DEF CommandCrash
      <3>3. QED
        BY <3>1, <3>2 DEF TypeOK
    <2>2. QED
      BY <1>8, <2>1 DEF CommandCrash, TypeOK, runVars, workerVars
  <1>9. QED
    BY <1>1, <1>2, <1>3, <1>4, <1>5, <1>6, <1>7, <1>8 DEF CommandStep

\* Acceptance, claim, the clock and the recovery pass.
LEMMA StoreType ==
    ASSUME TypeOK, NEW r \in Runs,
           \/ AcceptRun(r) \/ WaitElapses(r) \/ OtherEvent(r) \/ RecoveryStep(r)
           \/ \E a \in Attempts : LeaseOverdue(r, a) \/ ExpireLease(r, a)
           \/ \E w \in Workers : Claim(w, r)
    PROVE  TypeOK'
  <1> USE MaxAttemptsAssumption
  <1>1. CASE AcceptRun(r)
    BY <1>1 DEF AcceptRun, TypeOK, RunStatus, Transitions, workerVars
  <1>2. CASE WaitElapses(r)
    BY <1>2 DEF WaitElapses, TypeOK, workerVars
  <1>3. CASE OtherEvent(r)
    BY <1>3 DEF OtherEvent, TypeOK, workerVars
  <1>4. ASSUME NEW a \in Attempts, LeaseOverdue(r, a)
        PROVE  TypeOK'
    <2>1. lease' \in [Runs -> [Attempts -> LeaseState]]
      BY <1>4 DEF LeaseOverdue, TypeOK, LeaseState, OpenLease
    <2>2. QED
      BY <1>4, <2>1 DEF LeaseOverdue, ExpiryOrder, TypeOK, workerVars
  <1>5. ASSUME NEW a \in Attempts, ExpireLease(r, a)
        PROVE  TypeOK'
    <2>1. lease' \in [Runs -> [Attempts -> LeaseState]]
      BY <1>5 DEF ExpireLease, TypeOK, LeaseState, ClosedLease
    <2>2. QED
      BY <1>5, <2>1 DEF ExpireLease, ExpiryOrder, TypeOK, workerVars
  <1>6. ASSUME NEW w \in Workers, Claim(w, r)
        PROVE  TypeOK'
    <2>1. latest[r] + 1 \in 0..MaxAttempts
      BY <1>6 DEF Claim, TypeOK
    <2>2. lease' \in [Runs -> [Attempts -> LeaseState]]
      BY <1>6 DEF Claim, TypeOK, LeaseState, OpenLease
    <2>3. status' \in [Runs -> RunStatus \cup {"absent"}]
      BY <1>6 DEF Claim, TypeOK, RunStatus, Transitions
    <2>4. ClaimReason(r) \in {"queued", "resume_requested", "resource_wait"}
      BY <1>6 DEF Claim, Runnable, ClaimReason
    <2>5. pc' \in [Workers -> WorkerLabel]
      BY <1>6 DEF Claim, TypeOK, WorkerLabel
    <2>6. QED
      BY <1>6, <2>1, <2>2, <2>3, <2>4, <2>5 DEF Claim, TypeOK
  <1>7. ASSUME NEW a \in Attempts, SettleLeaseOnly(r, a)
        PROVE  TypeOK'
    <2>1. lease' \in [Runs -> [Attempts -> LeaseState]]
      BY <1>7 DEF SettleLeaseOnly, TypeOK, LeaseState, ClosedLease
    <2>2. QED
      BY <1>7, <2>1 DEF SettleLeaseOnly, ExpiryOrder, TypeOK, workerVars
  <1>8. ASSUME NEW a \in Attempts, SettleRun(r, a)
        PROVE  TypeOK'
    <2>1. lease' \in [Runs -> [Attempts -> LeaseState]]
      BY <1>8 DEF SettleRun, TypeOK, LeaseState, ClosedLease
    <2>2. PICK target :
              /\ Allowed(status[r], target)
              /\ status' = [status EXCEPT ![r] = target]
              /\ attention' = [attention EXCEPT ![r] =
                                   IF target = "needs_attention" THEN "active" ELSE @]
      BY <1>8 DEF SettleRun
    <2>3. status' \in [Runs -> RunStatus \cup {"absent"}]
      BY <2>2, AllowedIsStatus DEF TypeOK
    <2>4. attention' \in [Runs -> {"none", "active", "resolved"}]
      BY <2>2 DEF TypeOK
    <2>5. QED
      BY <1>8, <2>1, <2>3, <2>4 DEF SettleRun, ExpiryOrder, TypeOK, workerVars
  <1>9. CASE ResolveAttention(r)
    BY <1>9 DEF ResolveAttention, TypeOK, RunStatus, Transitions, workerVars
  <1>10. CASE NoOwnerReconcile(r)
    BY <1>10 DEF NoOwnerReconcile, TypeOK, OpsState, workerVars
  <1>11. QED
    BY <1>1, <1>2, <1>3, <1>4, <1>5, <1>6, <1>7, <1>8, <1>9, <1>10 DEF RecoveryStep

\* Every step of a worker, a request, recovery or the clock keeps the types.
LEMMA NextType == TypeOK /\ [Next]_vars => TypeOK'
  <1> SUFFICES ASSUME TypeOK, [Next]_vars
               PROVE  TypeOK'
    OBVIOUS
  <1>1. ASSUME NEW r \in Runs,
               \/ AcceptRun(r) \/ WaitElapses(r) \/ OtherEvent(r) \/ RecoveryStep(r)
               \/ \E a \in Attempts : LeaseOverdue(r, a) \/ ExpireLease(r, a)
               \/ \E w \in Workers : Claim(w, r)
        PROVE  TypeOK'
    BY <1>1, StoreType
  <1>2. ASSUME NEW w \in Workers, WorkerStep(w) \/ Heartbeat(w) \/ HeartbeatLost(w) \/ Crash(w)
        PROVE  TypeOK'
    BY <1>2, ExecutorType, ClosingType DEF WorkerStep
  <1>3. ASSUME NEW c \in Commands, CommandStep(c) \/ CommandCrash(c)
        PROVE  TypeOK'
    BY <1>3, CommandType
  <1>4. CASE UNCHANGED vars
    BY <1>4 DEF TypeOK, vars, runVars, workerVars
  <1>5. QED
    BY <1>1, <1>2, <1>3, <1>4 DEF Next

\* The store, the workers and the requests keep their types for ever.
THEOREM TypeCorrect == Spec => []TypeOK
  <1>1. QED
    BY InitType, NextType, PTL DEF Spec

-----------------------------------------------------------------------------
(* The rows of execution_leases and the safety theorems.                   *)

\* The rows of a run are those of its attempts 1..latest: claim_next_runnable_run
\* numbers them without gaps and nothing deletes one.
RowsAreAttempts ==
    \A r \in Runs, a \in Attempts : lease[r][a] = "absent" <=> a > latest[r]

\* A worker's claim names an attempt that was minted.
ClaimIsMinted ==
    \A w \in Workers : watt[w] # 0 => wrun[w] \in Runs /\ watt[w] <= latest[wrun[w]]

\* No attempt was given to two workers.
ClaimIsUnique ==
    \A v, w \in Workers :
        v # w /\ watt[v] # 0 /\ wrun[v] = wrun[w] => watt[v] # watt[w]

LeaseInv == RowsAreAttempts /\ SingleActiveLease /\ ClaimIsMinted /\ ClaimIsUnique

-----------------------------------------------------------------------------
(* The two ways in which a step other than the claim touches the leases.   *)

\* The lease table keeps its rows, or one row that exists changes its state and
\* does not open again.
RowMove ==
    \/ lease' = lease
    \/ \E r \in Runs, a \in Attempts, to \in LeaseState \ {"absent"} :
          /\ lease[r][a] # "absent"
          /\ to \in OpenLease => lease[r][a] \in OpenLease
          /\ lease' = [lease EXCEPT ![r][a] = to]

\* The claims stay as they are, or one worker forgets its own.
ClaimMove ==
    \/ UNCHANGED <<wrun, watt>>
    \/ \E w \in Workers :
          /\ wrun' = [wrun EXCEPT ![w] = NoRun]
          /\ watt' = [watt EXCEPT ![w] = 0]

\* Every step that mints no attempt.
NoClaim == latest' = latest /\ RowMove /\ ClaimMove

\* Row by row, RowMove creates no row and opens none that was closed.
LEMMA RowMoveRows ==
    ASSUME TypeOK, RowMove, NEW r \in Runs, NEW a \in Attempts
    PROVE  /\ lease'[r][a] = "absent" <=> lease[r][a] = "absent"
           /\ lease'[r][a] \in OpenLease => lease[r][a] \in OpenLease
  <1>1. CASE lease' = lease
    BY <1>1
  <1>2. ASSUME NEW s \in Runs, NEW b \in Attempts, NEW to \in LeaseState \ {"absent"},
               lease[s][b] # "absent",
               to \in OpenLease => lease[s][b] \in OpenLease,
               lease' = [lease EXCEPT ![s][b] = to]
        PROVE  /\ lease'[r][a] = "absent" <=> lease[r][a] = "absent"
               /\ lease'[r][a] \in OpenLease => lease[r][a] \in OpenLease
    <2>1. lease'[r][a] = IF r = s /\ a = b THEN to ELSE lease[r][a]
      BY <1>2 DEF TypeOK
    <2>2. QED
      BY <1>2, <2>1
  <1>3. QED
    BY <1>1, <1>2 DEF RowMove

\* A step that mints no attempt keeps LeaseInv.
LEMMA NoClaimKeeps ==
    ASSUME TypeOK, LeaseInv, NoClaim
    PROVE  LeaseInv'
  <1> USE DEF LeaseInv
  <1>1. RowsAreAttempts'
    BY RowMoveRows DEF RowsAreAttempts, NoClaim, Attempts
  <1>2. SingleActiveLease'
    BY RowMoveRows DEF SingleActiveLease, NoClaim, Attempts
  <1>3. ClaimIsMinted' /\ ClaimIsUnique'
    <2>1. CASE UNCHANGED <<wrun, watt>>
      BY <2>1 DEF NoClaim, ClaimIsMinted, ClaimIsUnique
    <2>2. ASSUME NEW w \in Workers,
                 wrun' = [wrun EXCEPT ![w] = NoRun],
                 watt' = [watt EXCEPT ![w] = 0]
          PROVE  ClaimIsMinted' /\ ClaimIsUnique'
      <3>1. \A v \in Workers : watt'[v] # 0 => v # w /\ wrun'[v] = wrun[v] /\ watt'[v] = watt[v]
        BY <2>2 DEF TypeOK
      <3>2. ClaimIsMinted'
        BY <3>1 DEF NoClaim, ClaimIsMinted
      <3>3. ASSUME NEW u \in Workers, NEW v \in Workers, u # v,
                   watt'[u] # 0, wrun'[u] = wrun'[v]
            PROVE  watt'[u] # watt'[v]
        <4>1. CASE watt'[v] = 0
          BY <3>3, <4>1
        <4>2. CASE watt'[v] # 0
          BY <3>1, <3>3, <4>2 DEF ClaimIsUnique
        <4>3. QED
          BY <4>1, <4>2
      <3>4. QED
        BY <3>2, <3>3 DEF ClaimIsUnique
    <2>3. QED
      BY <2>1, <2>2 DEF NoClaim, ClaimMove
  <1>4. QED
    BY <1>1, <1>2, <1>3

\* The claim opens the row of a new attempt of a run that has no open row.
LEMMA ClaimKeeps ==
    ASSUME TypeOK, LeaseInv, NEW w \in Workers, NEW r \in Runs, Claim(w, r)
    PROVE  LeaseInv'
  <1> DEFINE n == latest[r] + 1
  <1>1. n \in Attempts /\ latest[r] \in Nat
    BY MaxAttemptsAssumption DEF Claim, TypeOK, Attempts
  <1>2. \A s \in Runs : latest'[s] = IF s = r THEN n ELSE latest[s]
    BY DEF Claim, TypeOK
  <1>3. \A s \in Runs, a \in Attempts :
            lease'[s][a] = IF s = r /\ a = n THEN "active" ELSE lease[s][a]
    BY <1>1 DEF Claim, TypeOK
  <1>4. \A v \in Workers :
            /\ wrun'[v] = IF v = w THEN r ELSE wrun[v]
            /\ watt'[v] = IF v = w THEN n ELSE watt[v]
    BY DEF Claim, TypeOK
  <1>5. \A s \in Runs : latest[s] \in Nat
    BY MaxAttemptsAssumption DEF TypeOK
  <1>6. \A v \in Workers : watt[v] \in Nat
    BY MaxAttemptsAssumption DEF TypeOK
  <1>7. RowsAreAttempts'
    <2>1. ASSUME NEW s \in Runs, NEW a \in Attempts
          PROVE  lease'[s][a] = "absent" <=> a > latest'[s]
      <3>1. a \in Nat
        BY MaxAttemptsAssumption DEF Attempts
      <3>2. lease[s][a] = "absent" <=> a > latest[s]
        BY DEF LeaseInv, RowsAreAttempts
      <3>3. QED
        BY <1>1, <1>2, <1>3, <1>5, <3>1, <3>2
    <2>2. QED
      BY <2>1 DEF RowsAreAttempts, Attempts
  <1>8. SingleActiveLease'
    <2>1. \A a \in Attempts : lease[r][a] \notin OpenLease
      BY DEF Claim, Runnable, HasActiveLease
    <2>2. ASSUME NEW s \in Runs, NEW a \in Attempts, lease'[s][a] \in OpenLease
          PROVE  a = latest'[s]
      BY <1>2, <1>3, <2>1, <2>2 DEF LeaseInv, SingleActiveLease
    <2>3. QED
      BY <2>2 DEF SingleActiveLease, Attempts
  <1>9. ClaimIsMinted'
    <2>1. ASSUME NEW v \in Workers, watt'[v] # 0
          PROVE  wrun'[v] \in Runs /\ watt'[v] <= latest'[wrun'[v]]
      <3>1. CASE v = w
        BY <1>1, <1>2, <1>4, <3>1
      <3>2. CASE v # w
        <4>1. wrun[v] \in Runs /\ watt[v] <= latest[wrun[v]]
          BY <1>4, <2>1, <3>2 DEF LeaseInv, ClaimIsMinted
        <4>2. QED
          BY <1>1, <1>2, <1>4, <1>5, <1>6, <3>2, <4>1
      <3>3. QED
        BY <3>1, <3>2
    <2>2. QED
      BY <2>1 DEF ClaimIsMinted
  <1>10. ClaimIsUnique'
    <2>1. \A v \in Workers : watt[v] # 0 /\ wrun[v] = r => watt[v] # n
      <3>1. ASSUME NEW v \in Workers, watt[v] # 0, wrun[v] = r
            PROVE  watt[v] # n
        <4>1. watt[v] <= latest[r]
          BY <3>1 DEF LeaseInv, ClaimIsMinted
        <4>2. QED
          BY <1>1, <1>6, <4>1
      <3>2. QED
        BY <3>1
    <2>2. ASSUME NEW u \in Workers, NEW v \in Workers, u # v,
                 watt'[u] # 0, wrun'[u] = wrun'[v]
          PROVE  watt'[u] # watt'[v]
      <3>1. CASE u = w
        BY <1>1, <1>4, <2>1, <2>2, <3>1
      <3>2. CASE v = w
        BY <1>1, <1>4, <2>1, <2>2, <3>2
      <3>3. CASE u # w /\ v # w
        BY <1>4, <2>2, <3>3 DEF LeaseInv, ClaimIsUnique
      <3>4. QED
        BY <3>1, <3>2, <3>3
    <2>3. QED
      BY <2>2 DEF ClaimIsUnique
  <1>11. QED
    BY <1>7, <1>8, <1>9, <1>10 DEF LeaseInv

-----------------------------------------------------------------------------
(* Every step is a claim or mints no attempt.                              *)

\* A holder's row exists and belongs to a run, so closing or renewing it is a
\* RowMove.
LEMMA HolderRow ==
    ASSUME TypeOK, LeaseInv, NEW w \in Workers, Holds(w),
           NEW to \in LeaseState \ {"absent"}, CloseLease(w, to)
    PROVE  RowMove
  <1>1. watt[w] \in Attempts /\ watt[w] # 0
    BY DEF Holds, Attempts
  <1>2. wrun[w] \in Runs
    BY <1>1 DEF LeaseInv, ClaimIsMinted
  <1>3. lease[wrun[w]][watt[w]] \in OpenLease
    BY DEF Holds
  <1>4. lease[wrun[w]][watt[w]] # "absent"
    BY <1>3 DEF OpenLease
  <1>5. QED
    BY <1>1, <1>2, <1>3, <1>4 DEF CloseLease, RowMove

\* The steps of a worker mint no attempt; release, yield and heartbeat move the
\* row of the lease they hold.
LEMMA WorkerNoClaim ==
    ASSUME TypeOK, LeaseInv, NEW w \in Workers,
           WorkerStep(w) \/ Heartbeat(w) \/ HeartbeatLost(w) \/ Crash(w)
    PROVE  NoClaim
  <1> USE DEF NoClaim, RowMove, ClaimMove, KeepClaim, runVars, workerVars
  <1>1. CASE \/ ExecutorStarting(w) \/ Resumed(w) \/ ResumeFailed(w) \/ RuntimeStart(w)
             \/ Progress(w) \/ CheckpointEvent(w) \/ LaneBusy(w) \/ Complete(w)
             \/ ExecutorFailed(w)
    BY <1>1 DEF ExecutorStarting, Resumed, ResumeFailed, RuntimeStart, Progress,
                CheckpointEvent, LaneBusy, Complete, ExecutorFailed, ExecutorEvent
  <1>2. CASE \/ ReadCheckpoint(w) \/ WriteCheckpoint(w) \/ AcceptSource(w)
             \/ SourceRefused(w) \/ RecordUnknown(w) \/ MintSafeRetry(w)
             \/ RuntimeEnds(w) \/ EventRefused(w) \/ HeartbeatLost(w)
    BY <1>2 DEF ReadCheckpoint, WriteCheckpoint, AcceptSource, SourceRefused,
                RecordUnknown, MintSafeRetry, RuntimeEnds, EventRefused, HeartbeatLost
  <1>3. CASE YieldForReconciliation(w)
    <2>1. "revoked" \in LeaseState \ {"absent"}
      BY DEF LeaseState, ClosedLease
    <2>2. RowMove
      BY <1>3, <2>1, HolderRow DEF YieldForReconciliation
    <2>3. QED
      BY <1>3, <2>2 DEF YieldForReconciliation, Return
  <1>4. CASE Release(w)
    <2>1. ReleaseAs(w) \in LeaseState \ {"absent"}
      BY DEF ReleaseAs, LeaseState, ClosedLease
    <2>2. RowMove
      BY <1>4, <2>1, HolderRow DEF Release
    <2>3. QED
      BY <1>4, <2>2 DEF Release, Return
  <1>5. CASE WorkerFailed(w)
    BY <1>5 DEF WorkerFailed, ExecutorEvent, Return
  <1>6. CASE Heartbeat(w)
    <2>1. "active" \in LeaseState \ {"absent"}
      BY DEF LeaseState, OpenLease
    <2>2. RowMove
      BY <1>6, <2>1, HolderRow DEF Heartbeat
    <2>3. QED
      BY <1>6, <2>2 DEF Heartbeat
  <1>7. CASE Crash(w)
    BY <1>7 DEF Crash
  <1>8. CASE ApplyChoose(w) \/ ApplyMark(w)
    BY <1>8 DEF ApplyChoose, ApplyMark
  <1>9. CASE ApplyEvent(w)
    BY <1>9 DEF ApplyEvent, ExecutorEvent, Return
  <1>10. QED
    BY <1>1, <1>2, <1>3, <1>4, <1>5, <1>6, <1>7, <1>8, <1>9 DEF WorkerStep

\* The clock and the recovery pass move rows that are open or expired.
LEMMA StoreNoClaim ==
    ASSUME TypeOK, LeaseInv, NEW r \in Runs,
           \/ AcceptRun(r) \/ WaitElapses(r) \/ OtherEvent(r) \/ RecoveryStep(r)
           \/ \E a \in Attempts : LeaseOverdue(r, a) \/ ExpireLease(r, a)
    PROVE  NoClaim
  <1> USE DEF NoClaim, ClaimMove, workerVars
  <1>1. ASSUME NEW a \in Attempts, NEW to \in LeaseState \ ({"absent"} \cup {"active"}),
               to = "overdue" => lease[r][a] \in OpenLease,
               lease[r][a] \in {"active", "overdue", "expired"},
               lease' = [lease EXCEPT ![r][a] = to]
        PROVE  RowMove
    BY <1>1 DEF RowMove, OpenLease
  <1>2. "overdue" \in LeaseState /\ "expired" \in LeaseState /\ "settled" \in LeaseState
    BY DEF LeaseState, OpenLease, ClosedLease
  <1>3. CASE \/ AcceptRun(r) \/ WaitElapses(r) \/ OtherEvent(r) \/ ResolveAttention(r)
             \/ NoOwnerReconcile(r)
    BY <1>3 DEF AcceptRun, WaitElapses, OtherEvent, ResolveAttention, NoOwnerReconcile, RowMove
  <1>4. ASSUME NEW a \in Attempts, LeaseOverdue(r, a)
        PROVE  NoClaim
    BY <1>1, <1>2, <1>4 DEF LeaseOverdue, OpenLease
  <1>5. ASSUME NEW a \in Attempts, ExpireLease(r, a)
        PROVE  NoClaim
    BY <1>1, <1>2, <1>5 DEF ExpireLease
  <1>6. ASSUME NEW a \in Attempts, NextRecoveryLease(r, a)
        PROVE  lease[r][a] \in {"active", "overdue", "expired"}
    BY <1>6 DEF NextRecoveryLease, OverdueFirst, Selectable, Stranded
  <1>7. ASSUME NEW a \in Attempts, SettleLeaseOnly(r, a) \/ SettleRun(r, a)
        PROVE  NoClaim
    <2>1. NextRecoveryLease(r, a)
      BY <1>7 DEF SettleLeaseOnly, SettleRun
    <2>2. lease[r][a] \in {"active", "overdue", "expired"}
      BY <1>6, <2>1
    <2>3. /\ UNCHANGED <<latest, workerVars>>
          /\ \E to \in {"expired", "settled"} : lease' = [lease EXCEPT ![r][a] = to]
      BY <1>7 DEF SettleLeaseOnly, SettleRun
    <2>4. RowMove
      BY <1>1, <1>2, <2>2, <2>3
    <2>5. QED
      BY <2>3, <2>4
  <1>8. QED
    BY <1>3, <1>4, <1>5, <1>7 DEF RecoveryStep

\* A command request touches neither the leases nor the claims.
LEMMA CommandNoClaim ==
    ASSUME NEW c \in Commands, CommandStep(c) \/ CommandCrash(c)
    PROVE  NoClaim
  BY DEF NoClaim, RowMove, ClaimMove, CommandStep, CommandCrash, RequestPauseOrResume,
         RequestCancel, Supersede, SaveCommand, MarkApplied, CheckRunStatus,
         UpdateRunStatus, CommandEvent, runVars, workerVars

\* The two kinds of step.
LEMMA ClaimOrNot ==
    ASSUME TypeOK, LeaseInv, [Next]_vars
    PROVE  NoClaim \/ \E w \in Workers, r \in Runs : Claim(w, r)
  <1>1. CASE UNCHANGED vars
    BY <1>1 DEF NoClaim, RowMove, ClaimMove, vars, runVars, workerVars
  <1>2. CASE Next
    BY <1>2, WorkerNoClaim, StoreNoClaim, CommandNoClaim DEF Next
  <1>3. QED
    BY <1>1, <1>2

-----------------------------------------------------------------------------
(* The lease theorems.                                                     *)

\* At first no run has a row and no worker a claim.
LEMMA InitLease == Init => LeaseInv
  BY MaxAttemptsAssumption
  DEF Init, LeaseInv, RowsAreAttempts, SingleActiveLease, ClaimIsMinted, ClaimIsUnique,
      OpenLease, Attempts

\* LeaseInv is inductive relative to the types.
LEMMA NextLease == TypeOK /\ LeaseInv /\ [Next]_vars => LeaseInv'
  BY ClaimOrNot, NoClaimKeeps, ClaimKeeps

\* LeaseInv holds for ever: rows are attempts, the open row is the newest, and
\* every claim is minted and unique.
THEOREM LeasesAreOrdered == Spec => []LeaseInv
  <1>1. QED
    BY InitType, NextType, InitLease, NextLease, PTL DEF Spec

\* claim_next_runnable_run keeps at most one open lease per run, that of its
\* newest attempt, for any number of workers, commands and attempts.
THEOREM OneOpenLease == Spec => []SingleActiveLease
  <1>1. LeaseInv => SingleActiveLease
    BY DEF LeaseInv
  <1>2. QED
    BY <1>1, LeasesAreOrdered, PTL

\* _require_active_executor never accepts two workers for one run.
THEOREM OneWriter == Spec => []ExclusiveAuthority
  <1>1. LeaseInv => ExclusiveAuthority
    <2> SUFFICES ASSUME LeaseInv, NEW v \in Workers, NEW w \in Workers,
                        v # w, Holds(v), Holds(w), wrun[v] = wrun[w]
                 PROVE  FALSE
      BY DEF ExclusiveAuthority
    <2>1. watt[v] # 0 /\ watt[w] # 0 /\ watt[v] \in Attempts /\ watt[w] \in Attempts
      BY DEF Holds, Attempts
    <2>2. wrun[v] \in Runs
      BY <2>1 DEF LeaseInv, ClaimIsMinted
    <2>3. watt[v] = latest[wrun[v]] /\ watt[w] = latest[wrun[v]]
      BY <2>1, <2>2 DEF LeaseInv, SingleActiveLease, Holds
    <2>4. QED
      BY <2>1, <2>3 DEF LeaseInv, ClaimIsUnique
  <1>2. QED
    BY <1>1, LeasesAreOrdered, PTL

\* A closed lease stays closed and an attempt number is minted once.
THEOREM AttemptsGrow == Spec => AttemptsAreMonotone
  <1>1. TypeOK /\ LeaseInv /\ [Next]_vars =>
            [\A r \in Runs :
                /\ latest'[r] \in {latest[r], latest[r] + 1}
                /\ \A a \in Attempts :
                      lease[r][a] \in ClosedLease => lease'[r][a] \in ClosedLease]_vars
    <2> SUFFICES ASSUME TypeOK, LeaseInv, [Next]_vars, NEW r \in Runs
                 PROVE  /\ latest'[r] \in {latest[r], latest[r] + 1}
                        /\ \A a \in Attempts :
                              lease[r][a] \in ClosedLease => lease'[r][a] \in ClosedLease
      OBVIOUS
    <2>1. TypeOK'
      BY NextType
    <2>2. CASE NoClaim
      <3>1. ASSUME NEW a \in Attempts, lease[r][a] \in ClosedLease
            PROVE  lease'[r][a] \in ClosedLease
        <4>1. lease'[r][a] # "absent" /\ lease'[r][a] \notin OpenLease
          BY <2>2, <3>1, RowMoveRows DEF NoClaim, ClosedLease, OpenLease
        <4>2. lease'[r][a] \in LeaseState
          BY <2>1 DEF TypeOK
        <4>3. QED
          BY <4>1, <4>2 DEF LeaseState
      <3>2. QED
        BY <2>2, <3>1 DEF NoClaim
    <2>3. ASSUME NEW w \in Workers, NEW s \in Runs, Claim(w, s)
          PROVE  /\ latest'[r] \in {latest[r], latest[r] + 1}
                 /\ \A a \in Attempts :
                       lease[r][a] \in ClosedLease => lease'[r][a] \in ClosedLease
      <3>1. latest[s] + 1 \in Attempts /\ latest[s] + 1 > latest[s]
        BY <2>3, MaxAttemptsAssumption DEF Claim, TypeOK, Attempts
      <3>2. lease[s][latest[s] + 1] = "absent"
        BY <3>1 DEF LeaseInv, RowsAreAttempts
      <3>3. \A a \in Attempts :
                lease'[r][a] = IF r = s /\ a = latest[s] + 1 THEN "active" ELSE lease[r][a]
        BY <2>3, <3>1 DEF Claim, TypeOK
      <3>4. latest'[r] = IF r = s THEN latest[s] + 1 ELSE latest[r]
        BY <2>3 DEF Claim, TypeOK
      <3>5. QED
        BY <3>2, <3>3, <3>4 DEF ClosedLease
    <2>4. QED
      BY <2>2, <2>3, ClaimOrNot
  <1>2. QED
    BY <1>1, InitType, NextType, InitLease, NextLease, PTL DEF Spec, AttemptsAreMonotone

-----------------------------------------------------------------------------
(* The status column.                                                      *)

\* A request writes what it decided on an older status of the run.
WrittenOver(r) == \E c \in Commands : cmd[c].run = r /\ cmd[c].pc = "write" /\ UpdateRunStatus(c)

\* Who may change the status of a run, and to what: acceptance, the claim,
\* recovery, an executor that holds its lease and a command request; all but
\* the first and the last ask the FSM about the status they change.
StatusMove(r) ==
    \/ status'[r] = status[r]
    \/ status[r] = "absent" /\ status'[r] = "queued"
    \/ status[r] \in {"queued", "resume_requested"} /\ status'[r] = "starting"
    \/ status[r] = "needs_attention" /\ status'[r] = "resume_requested"
    \/ Allowed(status[r], status'[r])
    \/ WrittenOver(r)

\* An accepted executor event is a status move of every run.
LEMMA EventMove ==
    ASSUME TypeOK, NEW w \in Workers, NEW target, ExecutorEvent(w, target),
           NEW r \in Runs
    PROVE  StatusMove(r)
  <1>1. status'[r] = IF r = wrun[w] THEN target ELSE status[r]
    BY DEF ExecutorEvent, TypeOK
  <1>2. QED
    BY <1>1 DEF ExecutorEvent, StatusMove

\* A worker moves the status of a run through the FSM only.
LEMMA WorkerMove ==
    ASSUME TypeOK, NEW w \in Workers, NEW r \in Runs,
           WorkerStep(w) \/ Heartbeat(w) \/ HeartbeatLost(w) \/ Crash(w)
    PROVE  StatusMove(r)
  <1>1. ASSUME NEW target, ExecutorEvent(w, target)
        PROVE  StatusMove(r)
    BY <1>1, EventMove
  <1>2. CASE \/ ExecutorStarting(w) \/ Resumed(w) \/ ResumeFailed(w) \/ RuntimeStart(w)
             \/ Progress(w) \/ CheckpointEvent(w) \/ LaneBusy(w) \/ Complete(w)
             \/ ExecutorFailed(w) \/ ApplyEvent(w)
    BY <1>1, <1>2 DEF ExecutorStarting, Resumed, ResumeFailed, RuntimeStart, Progress,
                CheckpointEvent, LaneBusy, Complete, ExecutorFailed, ApplyEvent
  <1>3. CASE \/ ReadCheckpoint(w) \/ WriteCheckpoint(w) \/ AcceptSource(w)
             \/ SourceRefused(w) \/ RecordUnknown(w) \/ MintSafeRetry(w)
             \/ RuntimeEnds(w) \/ EventRefused(w) \/ HeartbeatLost(w) \/ Release(w)
             \/ Heartbeat(w) \/ Crash(w) \/ ApplyChoose(w) \/ ApplyMark(w)
    BY <1>3 DEF ReadCheckpoint, WriteCheckpoint, AcceptSource, SourceRefused,
                RecordUnknown, MintSafeRetry, RuntimeEnds, EventRefused, HeartbeatLost,
                Release, Heartbeat, Crash, ApplyChoose, ApplyMark, StatusMove, runVars
  <1>4. CASE YieldForReconciliation(w)
    <2>1. CASE UNCHANGED status
      BY <2>1 DEF StatusMove
    <2>2. CASE /\ Allowed(status[wrun[w]], "resume_requested")
               /\ status' = [status EXCEPT ![wrun[w]] = "resume_requested"]
      <3>1. status'[r] = IF r = wrun[w] THEN "resume_requested" ELSE status[r]
        BY <2>2 DEF TypeOK
      <3>2. QED
        BY <2>2, <3>1 DEF StatusMove
    <2>3. QED
      BY <1>4, <2>1, <2>2 DEF YieldForReconciliation
  <1>5. CASE WorkerFailed(w)
    BY <1>1, <1>5 DEF WorkerFailed, StatusMove, runVars
  <1>6. QED
    BY <1>2, <1>3, <1>4, <1>5 DEF WorkerStep

\* So do the store's other transactions.
LEMMA StoreMove ==
    ASSUME TypeOK, NEW s \in Runs, NEW r \in Runs,
           \/ AcceptRun(s) \/ WaitElapses(s) \/ OtherEvent(s) \/ RecoveryStep(s)
           \/ \E a \in Attempts : LeaseOverdue(s, a) \/ ExpireLease(s, a)
           \/ \E w \in Workers : Claim(w, s)
    PROVE  StatusMove(r)
  <1>1. ASSUME NEW to, status' = [status EXCEPT ![s] = to]
        PROVE  status'[r] = IF r = s THEN to ELSE status[r]
    BY <1>1 DEF TypeOK
  <1>2. CASE \/ WaitElapses(s) \/ OtherEvent(s) \/ NoOwnerReconcile(s)
             \/ \E a \in Attempts : \/ LeaseOverdue(s, a) \/ ExpireLease(s, a)
                                    \/ SettleLeaseOnly(s, a)
    BY <1>2 DEF WaitElapses, OtherEvent, NoOwnerReconcile, LeaseOverdue, ExpireLease,
                SettleLeaseOnly, StatusMove
  <1>3. CASE AcceptRun(s)
    BY <1>1, <1>3 DEF AcceptRun, StatusMove
  <1>4. ASSUME NEW w \in Workers, Claim(w, s)
        PROVE  StatusMove(r)
    BY <1>1, <1>4 DEF Claim, Runnable, StatusMove
  <1>5. ASSUME NEW a \in Attempts, SettleRun(s, a)
        PROVE  StatusMove(r)
    <2>1. PICK target : /\ Allowed(status[s], target)
                        /\ status' = [status EXCEPT ![s] = target]
      BY <1>5 DEF SettleRun
    <2>2. QED
      BY <1>1, <2>1 DEF StatusMove
  <1>6. CASE ResolveAttention(s)
    BY <1>1, <1>6 DEF ResolveAttention, StatusMove
  <1>7. QED
    BY <1>2, <1>3, <1>4, <1>5, <1>6 DEF RecoveryStep

\* And a command request.
LEMMA CommandMove ==
    ASSUME TypeOK, NEW c \in Commands, NEW r \in Runs, CommandStep(c) \/ CommandCrash(c)
    PROVE  StatusMove(r)
  <1>1. CASE UpdateRunStatus(c)
    <2>1. status'[r] = IF r = cmd[c].run THEN RequestedStatus(c) ELSE status[r]
      BY <1>1 DEF UpdateRunStatus, TypeOK
    <2>2. cmd[c].pc = "write"
      BY <1>1 DEF UpdateRunStatus
    <2>3. QED
      BY <1>1, <2>1, <2>2 DEF StatusMove, WrittenOver
  <1>2. CASE ~UpdateRunStatus(c)
    BY <1>2 DEF CommandStep, CommandCrash, RequestPauseOrResume, RequestCancel, Supersede,
                SaveCommand, MarkApplied, CheckRunStatus, CommandEvent, StatusMove, runVars
  <1>3. QED
    BY <1>1, <1>2

\* Every step moves the status of every run through the FSM, or writes over it.
LEMMA EveryMove ==
    ASSUME TypeOK, [Next]_vars, NEW r \in Runs
    PROVE  StatusMove(r)
  <1>1. CASE UNCHANGED vars
    BY <1>1 DEF StatusMove, vars, runVars
  <1>2. CASE Next
    BY <1>2, WorkerMove, StoreMove, CommandMove DEF Next
  <1>3. QED
    BY <1>1, <1>2

\* require_run_transition is asked, in the transaction that writes, on every
\* path that can meet a terminal run but one: only an update_run_status that
\* checked an older status writes over cancelled, completed or failed.
THEOREM EndedRunsAreLeftAlone == Spec => EndedRunIsLeftAlone
  <1>1. TypeOK /\ [Next]_vars =>
            [\A r \in Runs :
                status[r] \in Terminal /\ status'[r] # status[r] => WrittenOver(r)]_vars
    <2> SUFFICES ASSUME TypeOK, [Next]_vars, NEW r \in Runs, status[r] \in Terminal,
                        status'[r] # status[r]
                 PROVE  WrittenOver(r)
      OBVIOUS
    <2>1. StatusMove(r)
      BY EveryMove
    <2>2. QED
      BY <2>1, TerminalStays DEF StatusMove, Terminal
  <1>2. QED
    BY <1>1, InitType, NextType, PTL DEF Spec, EndedRunIsLeftAlone, WrittenOver

-----------------------------------------------------------------------------
(* Runs parked for attention.                                              *)

\* How a run comes to be, or stays, parked: recovery parks it, or nothing that
\* the attention rests on was touched; only a lease holder clears operations.
ParkedMove(r) ==
    status'[r] = "needs_attention" =>
        \/ \E a \in Attempts : SettleRun(r, a)
        \/ /\ status[r] = "needs_attention"
           /\ attention'[r] = attention[r]
           /\ ops[r] # "clear" => ops'[r] # "clear" \/ HasActiveLease(r)

\* A worker never parks a run, and clears its operation only under its lease.
LEMMA WorkerParked ==
    ASSUME TypeOK, NEW w \in Workers, NEW r \in Runs,
           WorkerStep(w) \/ Heartbeat(w) \/ HeartbeatLost(w) \/ Crash(w)
    PROVE  ParkedMove(r)
  <1>1. ASSUME NEW target, target # "needs_attention", ExecutorEvent(w, target)
        PROVE  ParkedMove(r)
    <2>1. status'[r] = IF r = wrun[w] THEN target ELSE status[r]
      BY <1>1 DEF ExecutorEvent, TypeOK
    <2>2. QED
      BY <1>1, <2>1 DEF ExecutorEvent, ParkedMove
  <1>2. EventTarget(w) # "needs_attention"
    BY DEF EventTarget, AppliedStatus
  <1>3. CASE \/ ExecutorStarting(w) \/ Resumed(w) \/ ResumeFailed(w) \/ RuntimeStart(w)
             \/ Progress(w) \/ CheckpointEvent(w) \/ LaneBusy(w) \/ Complete(w)
             \/ ExecutorFailed(w) \/ ApplyEvent(w)
    BY <1>1, <1>2, <1>3 DEF ExecutorStarting, Resumed, ResumeFailed, RuntimeStart,
                Progress, CheckpointEvent, LaneBusy, Complete, ExecutorFailed, ApplyEvent
  <1>4. CASE \/ ReadCheckpoint(w) \/ SourceRefused(w) \/ RuntimeEnds(w) \/ EventRefused(w)
             \/ HeartbeatLost(w) \/ Release(w) \/ Heartbeat(w) \/ Crash(w)
             \/ ApplyChoose(w) \/ ApplyMark(w)
    BY <1>4 DEF ReadCheckpoint, SourceRefused, RuntimeEnds, EventRefused, HeartbeatLost,
                Release, Heartbeat, Crash, ApplyChoose, ApplyMark, ParkedMove, runVars
  <1>5. CASE WriteCheckpoint(w)
    <2>1. r = wrun[w] => HasActiveLease(r)
      BY <1>5 DEF WriteCheckpoint, Holds, HasActiveLease
    <2>2. r # wrun[w] => ops'[r] = ops[r]
      BY <1>5 DEF WriteCheckpoint, TypeOK
    <2>3. QED
      BY <1>5, <2>1, <2>2 DEF WriteCheckpoint, ParkedMove
  <1>6. CASE AcceptSource(w) \/ RecordUnknown(w) \/ MintSafeRetry(w)
    <2>1. PICK o \in {"open", "unknown"} : ops' = [ops EXCEPT ![wrun[w]] = o]
      BY <1>6 DEF AcceptSource, RecordUnknown, MintSafeRetry
    <2>2. ops'[r] \in {ops[r], o}
      BY <2>1 DEF TypeOK
    <2>3. QED
      BY <1>6, <2>1, <2>2 DEF AcceptSource, RecordUnknown, MintSafeRetry, ParkedMove
  <1>7. CASE YieldForReconciliation(w)
    <2>1. CASE UNCHANGED status
      BY <1>7, <2>1 DEF YieldForReconciliation, ParkedMove
    <2>2. CASE status' = [status EXCEPT ![wrun[w]] = "resume_requested"]
      <3>1. status'[r] = IF r = wrun[w] THEN "resume_requested" ELSE status[r]
        BY <2>2 DEF TypeOK
      <3>2. QED
        BY <1>7, <3>1 DEF YieldForReconciliation, ParkedMove
    <2>3. QED
      BY <1>7, <2>1, <2>2 DEF YieldForReconciliation
  <1>8. CASE WorkerFailed(w)
    BY <1>1, <1>8 DEF WorkerFailed, ParkedMove, runVars
  <1>9. QED
    BY <1>3, <1>4, <1>5, <1>6, <1>7, <1>8 DEF WorkerStep

\* Of the store's other transactions only settlement parks a run.
LEMMA StoreParked ==
    ASSUME TypeOK, NEW s \in Runs, NEW r \in Runs,
           \/ AcceptRun(s) \/ WaitElapses(s) \/ OtherEvent(s) \/ RecoveryStep(s)
           \/ \E a \in Attempts : LeaseOverdue(s, a) \/ ExpireLease(s, a)
           \/ \E w \in Workers : Claim(w, s)
    PROVE  ParkedMove(r)
  <1>1. ASSUME NEW to, to # "needs_attention", status' = [status EXCEPT ![s] = to],
               UNCHANGED ops, r = s \/ attention'[r] = attention[r]
        PROVE  ParkedMove(r)
    <2>1. status'[r] = IF r = s THEN to ELSE status[r]
      BY <1>1 DEF TypeOK
    <2>2. QED
      BY <1>1, <2>1 DEF ParkedMove
  <1>2. CASE \/ WaitElapses(s) \/ OtherEvent(s)
             \/ \E a \in Attempts : \/ LeaseOverdue(s, a) \/ ExpireLease(s, a)
                                    \/ SettleLeaseOnly(s, a)
    BY <1>2 DEF WaitElapses, OtherEvent, LeaseOverdue, ExpireLease, SettleLeaseOnly,
                ParkedMove
  <1>3. CASE AcceptRun(s)
    BY <1>1, <1>3 DEF AcceptRun
  <1>4. ASSUME NEW w \in Workers, Claim(w, s)
        PROVE  ParkedMove(r)
    BY <1>1, <1>4 DEF Claim
  <1>5. ASSUME NEW a \in Attempts, SettleRun(s, a)
        PROVE  ParkedMove(r)
    <2>1. CASE r = s
      BY <1>5, <2>1 DEF ParkedMove
    <2>2. CASE r # s
      <3>1. status'[r] = status[r] /\ attention'[r] = attention[r] /\ ops' = ops
        BY <1>5, <2>2 DEF SettleRun, TypeOK
      <3>2. QED
        BY <3>1 DEF ParkedMove
    <2>3. QED
      BY <2>1, <2>2
  <1>6. CASE ResolveAttention(s)
    <2>1. r = s \/ attention'[r] = attention[r]
      BY <1>6 DEF ResolveAttention, TypeOK
    <2>2. QED
      BY <1>1, <1>6, <2>1 DEF ResolveAttention
  <1>7. CASE NoOwnerReconcile(s)
    <2>1. PICK o \in {"unknown", "safe", "concluded"} : ops' = [ops EXCEPT ![s] = o]
      BY <1>7 DEF NoOwnerReconcile
    <2>2. ops'[r] \in {ops[r], o}
      BY <2>1 DEF TypeOK
    <2>3. QED
      BY <1>7, <2>1, <2>2 DEF NoOwnerReconcile, ParkedMove
  <1>8. QED
    BY <1>2, <1>3, <1>4, <1>5, <1>6, <1>7 DEF RecoveryStep

\* No command request parks a run.
LEMMA CommandParked ==
    ASSUME TypeOK, NEW c \in Commands, NEW r \in Runs, CommandStep(c) \/ CommandCrash(c)
    PROVE  ParkedMove(r)
  <1>1. CASE UpdateRunStatus(c)
    <2>1. status'[r] = IF r = cmd[c].run THEN RequestedStatus(c) ELSE status[r]
      BY <1>1 DEF UpdateRunStatus, TypeOK
    <2>2. RequestedStatus(c) # "needs_attention"
      BY DEF RequestedStatus
    <2>3. QED
      BY <1>1, <2>1, <2>2 DEF UpdateRunStatus, ParkedMove
  <1>2. CASE ~UpdateRunStatus(c)
    BY <1>2 DEF CommandStep, CommandCrash, RequestPauseOrResume, RequestCancel, Supersede,
                SaveCommand, MarkApplied, CheckRunStatus, CommandEvent, ParkedMove, runVars
  <1>3. QED
    BY <1>1, <1>2

\* Whatever happens, a run is parked by recovery or stays as it was parked.
LEMMA EveryParkedMove ==
    ASSUME TypeOK, [Next]_vars, NEW r \in Runs
    PROVE  ParkedMove(r)
  <1>1. CASE UNCHANGED vars
    BY <1>1 DEF ParkedMove, vars, runVars
  <1>2. CASE Next
    BY <1>2, WorkerParked, StoreParked, CommandParked DEF Next
  <1>3. QED
    BY <1>1, <1>2

\* Settlement parks a run only with an unresolved operation, and closes the
\* only lease that could be open.
LEMMA SettleParks ==
    ASSUME TypeOK, LeaseInv, NEW r \in Runs, NEW a \in Attempts, SettleRun(r, a),
           status'[r] = "needs_attention"
    PROVE  /\ \A b \in Attempts : lease'[r][b] \notin OpenLease
           /\ attention'[r] = "active"
           /\ ops'[r] # "clear"
  <1>1. PICK v \in Verdicts(r) :
            /\ status' = [status EXCEPT ![r] = RecoveryTarget(status[r], v)]
            /\ attention' = [attention EXCEPT ![r] =
                   IF RecoveryTarget(status[r], v) = "needs_attention" THEN "active" ELSE @]
    BY DEF SettleRun
  <1>2. RecoveryTarget(status[r], v) = "needs_attention"
    BY <1>1 DEF TypeOK
  <1>3. v = "unresolved"
    BY <1>2 DEF RecoveryTarget
  <1>4. ops[r] # "clear"
    BY <1>1, <1>3 DEF Verdicts
  <1>5. \A b \in Attempts : lease'[r][b] = IF b = a THEN "settled" ELSE lease[r][b]
    BY DEF SettleRun, TypeOK
  <1>6. \A b \in Attempts : b # a => lease[r][b] \notin OpenLease
    <2>1. CASE lease[r][a] \in OpenLease
      BY <2>1 DEF LeaseInv, SingleActiveLease
    <2>2. CASE lease[r][a] \notin OpenLease
      BY <2>2 DEF SettleRun, NextRecoveryLease, OverdueFirst, Selectable, Stranded, OpenLease,
                  HasActiveLease
    <2>3. QED
      BY <2>1, <2>2
  <1>7. QED
    BY <1>1, <1>2, <1>4, <1>5, <1>6 DEF SettleRun, TypeOK, OpenLease

\* A parked run stays parked under every step, relative to the lease invariant.
LEMMA NextParked ==
    ASSUME TypeOK, LeaseInv, ParkedForAttention, [Next]_vars
    PROVE  ParkedForAttention'
  <1> SUFFICES ASSUME NEW r \in Runs, status'[r] = "needs_attention"
               PROVE  /\ ~HasActiveLease(r)'
                      /\ attention'[r] = "active"
                      /\ ops'[r] # "clear"
    BY DEF ParkedForAttention
  <1>1. ASSUME NEW a \in Attempts, SettleRun(r, a)
        PROVE  /\ ~HasActiveLease(r)'
               /\ attention'[r] = "active"
               /\ ops'[r] # "clear"
    BY <1>1, SettleParks DEF HasActiveLease, Attempts
  <1>2. CASE /\ status[r] = "needs_attention"
             /\ attention'[r] = attention[r]
             /\ ops[r] # "clear" => ops'[r] # "clear" \/ HasActiveLease(r)
    <2>1. ~HasActiveLease(r) /\ attention[r] = "active" /\ ops[r] # "clear"
      BY <1>2 DEF ParkedForAttention
    <2>2. \A a \in Attempts : lease'[r][a] \notin OpenLease
      <3>1. CASE NoClaim
        BY <2>1, <3>1, RowMoveRows DEF NoClaim, HasActiveLease
      <3>2. ASSUME NEW w \in Workers, NEW s \in Runs, Claim(w, s)
            PROVE  \A a \in Attempts : lease'[r][a] \notin OpenLease
        <4>1. s # r
          BY <1>2, <3>2 DEF Claim, Runnable
        <4>2. lease'[r] = lease[r]
          BY <3>2, <4>1 DEF Claim, TypeOK
        <4>3. QED
          BY <2>1, <4>2 DEF HasActiveLease
      <3>3. QED
        BY <3>1, <3>2, ClaimOrNot
    <2>3. QED
      BY <1>2, <2>1, <2>2 DEF HasActiveLease, Attempts
  <1>3. QED
    BY <1>1, <1>2, EveryParkedMove DEF ParkedMove

\* A run that needs attention has no owner, an active attention record and an
\* operation to reconcile, for as long as it is parked.
THEOREM ParkedRunsStayParked == Spec => []ParkedForAttention
  <1>1. Init => ParkedForAttention
    BY DEF Init, ParkedForAttention
  <1>2. TypeOK /\ LeaseInv /\ ParkedForAttention /\ [Next]_vars => ParkedForAttention'
    BY NextParked
  <1>3. QED
    BY <1>1, <1>2, InitType, NextType, InitLease, NextLease, PTL DEF Spec
=============================================================================
