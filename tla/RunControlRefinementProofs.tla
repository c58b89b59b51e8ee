--------------------- MODULE RunControlRefinementProofs ---------------------
(***************************************************************************)
(* RunControl implements RunOwnership, for any sets of runs, workers and   *)
(* commands and any bound on the attempts: the initial states map to       *)
(* initial states, and every step maps to a step of the protocol or to a   *)
(* stutter.                                                                *)
(*                                                                         *)
(* The mapping looks at the status, the open rows, the claims and the      *)
(* checkpoint.  Each lemma below takes one way of changing them and names  *)
(* the protocol step it is; the last ones go through the actions.          *)
(*                                                                         *)
(* On the same invariant rests recovery: a run shown as executing is never *)
(* orphaned, and its checkpoint and its completion come from the holder of *)
(* its newest attempt.  Two more facts are needed: a worker about to       *)
(* release has already moved its run out of starting and running           *)
(* (LeavingIsShown), and the command a worker is applying twice is not a   *)
(* resume, whose second event would show the run as running again          *)
(* (AppliedCommand).                                                       *)
(***************************************************************************)
EXTENDS RunControlProofs, RunControlRefinement

\* A worker in its polling loop has forgotten its claim.
IdleHasNoClaim == \A w \in Workers : pc[w] = "idle" => watt[w] = 0

\* A command that was requested names a run that was accepted.
CommandHasRun ==
    \A c \in Commands :
        cmd[c].pc # "idle" => cmd[c].run \in Runs /\ status[cmd[c].run] # "absent"

RefInv ==
    TypeOK /\ LeaseInv /\ ParkedForAttention /\ IdleHasNoClaim /\ CommandHasRun

-----------------------------------------------------------------------------
(* Idle workers hold nothing.                                              *)

\* A worker goes back to idle by Return or Crash only, and both drop the claim.
LEMMA NextIdle ==
    ASSUME TypeOK, IdleHasNoClaim, [Next]_vars
    PROVE  IdleHasNoClaim'
  <1> SUFFICES ASSUME NEW v \in Workers, pc'[v] = "idle"
               PROVE  watt'[v] = 0
    BY DEF IdleHasNoClaim
  <1>1. ASSUME UNCHANGED <<pc, watt>>
        PROVE  watt'[v] = 0
    BY <1>1 DEF IdleHasNoClaim
  <1>2. ASSUME NEW w \in Workers, NEW l, l # "idle", Goto(w, l), KeepClaim
        PROVE  watt'[v] = 0
    <2>1. v # w /\ pc[v] = "idle" /\ watt'[v] = watt[v]
      BY <1>2 DEF Goto, KeepClaim, TypeOK
    <2>2. QED
      BY <2>1 DEF IdleHasNoClaim
  <1>3. ASSUME NEW w \in Workers,
               pc' = [pc EXCEPT ![w] = "idle"], watt' = [watt EXCEPT ![w] = 0]
        PROVE  watt'[v] = 0
    <2>1. CASE v = w
      BY <1>3, <2>1 DEF TypeOK
    <2>2. CASE v # w
      <3>1. pc[v] = "idle" /\ watt'[v] = watt[v]
        BY <1>3, <2>2 DEF TypeOK
      <3>2. QED
        BY <3>1 DEF IdleHasNoClaim
    <2>3. QED
      BY <2>1, <2>2
  <1>4. ASSUME NEW w \in Workers, WorkerStep(w)
        PROVE  watt'[v] = 0
    <2>1. CASE \/ ExecutorStarting(w) \/ ReadCheckpoint(w) \/ Resumed(w) \/ ResumeFailed(w)
               \/ RuntimeStart(w) \/ WriteCheckpoint(w) \/ CheckpointEvent(w)
               \/ SourceRefused(w) \/ RuntimeEnds(w) \/ LaneBusy(w) \/ Complete(w)
               \/ ExecutorFailed(w) \/ EventRefused(w) \/ ApplyMark(w)
      BY <1>2, <2>1 DEF ExecutorStarting, ReadCheckpoint, Resumed, ResumeFailed,
            RuntimeStart, WriteCheckpoint, CheckpointEvent, SourceRefused, RuntimeEnds,
            LaneBusy, Complete, ExecutorFailed, EventRefused, ApplyMark
    <2>2. CASE Progress(w) \/ AcceptSource(w) \/ RecordUnknown(w) \/ MintSafeRetry(w)
      BY <1>1, <2>2 DEF Progress, AcceptSource, RecordUnknown, MintSafeRetry, workerVars
    <2>3. CASE YieldForReconciliation(w)
      BY <1>2, <1>3, <2>3 DEF YieldForReconciliation, Return, Goto
    <2>4. CASE Release(w)
      BY <1>2, <1>3, <2>4 DEF Release, Return, Goto
    <2>5. CASE WorkerFailed(w)
      BY <1>2, <1>3, <2>5 DEF WorkerFailed, Return, Goto
    <2>6. CASE ApplyChoose(w)
      <3>1. PICK l \in {"failing", "applyMark"} : Goto(w, l) /\ watt' = watt
        BY <2>6 DEF ApplyChoose
      <3>2. pc[v] = "idle" /\ watt'[v] = watt[v]
        BY <3>1 DEF Goto, TypeOK
      <3>3. QED
        BY <3>2 DEF IdleHasNoClaim
    <2>7. CASE ApplyEvent(w)
      BY <1>2, <1>3, <2>7 DEF ApplyEvent, Return, Goto
    <2>8. QED
      BY <1>4, <2>1, <2>2, <2>3, <2>4, <2>5, <2>6, <2>7 DEF WorkerStep
  <1>5. ASSUME NEW w \in Workers, Heartbeat(w) \/ HeartbeatLost(w) \/ Crash(w)
        PROVE  watt'[v] = 0
    BY <1>1, <1>2, <1>3, <1>5 DEF Heartbeat, HeartbeatLost, Crash, workerVars
  <1>6. ASSUME NEW w \in Workers, NEW r \in Runs, Claim(w, r)
        PROVE  watt'[v] = 0
    <2>1. v # w /\ pc[v] = "idle" /\ watt'[v] = watt[v]
      BY <1>6 DEF Claim, TypeOK
    <2>2. QED
      BY <2>1 DEF IdleHasNoClaim
  <1>7. ASSUME NEW r \in Runs,
               \/ AcceptRun(r) \/ WaitElapses(r) \/ OtherEvent(r) \/ RecoveryStep(r)
               \/ \E a \in Attempts : LeaseOverdue(r, a) \/ ExpireLease(r, a)
        PROVE  watt'[v] = 0
    BY <1>1, <1>7 DEF AcceptRun, WaitElapses, OtherEvent, RecoveryStep, LeaseOverdue,
          ExpireLease, SettleLeaseOnly, SettleRun, ResolveAttention, NoOwnerReconcile,
          workerVars
  <1>8. ASSUME NEW c \in Commands, CommandStep(c) \/ CommandCrash(c)
        PROVE  watt'[v] = 0
    BY <1>1, <1>8 DEF CommandStep, CommandCrash, RequestPauseOrResume, RequestCancel,
          Supersede, SaveCommand, MarkApplied, CheckRunStatus, UpdateRunStatus, CommandEvent,
          workerVars
  <1>9. CASE UNCHANGED vars
    BY <1>1, <1>9 DEF vars, workerVars
  <1>10. CASE Next
    BY <1>4, <1>5, <1>6, <1>7, <1>8, <1>10 DEF Next
  <1>11. QED
    BY <1>9, <1>10

-----------------------------------------------------------------------------
(* Commands name accepted runs.                                            *)

\* Only a request and the safe boundary write to a command.
LEMMA CommandsKept ==
    ASSUME [Next]_vars,
           \A c \in Commands : ~CommandStep(c) /\ ~CommandCrash(c),
           \A w \in Workers : ~ApplyMark(w)
    PROVE  cmd' = cmd
  <1>1. ASSUME NEW w \in Workers, WorkerStep(w)
        PROVE  cmd' = cmd
    BY <1>1 DEF WorkerStep, ExecutorStarting, ReadCheckpoint, Resumed, ResumeFailed,
       RuntimeStart, Progress, WriteCheckpoint, CheckpointEvent, AcceptSource,
       SourceRefused, RecordUnknown, MintSafeRetry, RuntimeEnds, LaneBusy, Complete,
       ExecutorFailed, YieldForReconciliation, Release, WorkerFailed, EventRefused,
       ApplyChoose, ApplyEvent, ExecutorEvent
  <1>2. ASSUME NEW r \in Runs,
               \/ AcceptRun(r) \/ WaitElapses(r) \/ OtherEvent(r) \/ RecoveryStep(r)
               \/ \E a \in Attempts : LeaseOverdue(r, a) \/ ExpireLease(r, a)
               \/ \E w \in Workers : Claim(w, r)
        PROVE  cmd' = cmd
    BY <1>2 DEF AcceptRun, WaitElapses, OtherEvent, RecoveryStep, LeaseOverdue, ExpireLease,
       SettleLeaseOnly, SettleRun, ResolveAttention, NoOwnerReconcile, Claim
  <1>3. ASSUME NEW w \in Workers, Heartbeat(w) \/ HeartbeatLost(w) \/ Crash(w)
        PROVE  cmd' = cmd
    BY <1>3 DEF Heartbeat, HeartbeatLost, Crash
  <1>4. CASE UNCHANGED vars
    BY <1>4 DEF vars
  <1>5. CASE Next
    BY <1>1, <1>2, <1>3, <1>5 DEF Next
  <1>6. QED
    BY <1>4, <1>5

\* A step leaves the run of a command alone, or requests it for an accepted one.
LEMMA CommandRun ==
    ASSUME TypeOK, [Next]_vars, NEW d \in Commands
    PROVE  \/ cmd'[d].run = cmd[d].run /\ (cmd'[d].pc # "idle" => cmd[d].pc # "idle")
           \/ cmd'[d].run \in Runs /\ status[cmd'[d].run] # "absent"
  <1>1. ASSUME NEW w \in Workers, ApplyMark(w)
        PROVE  cmd'[d].run = cmd[d].run /\ cmd'[d].pc = cmd[d].pc
    BY <1>1 DEF ApplyMark, TypeOK, CommandRecord
  <1>2. ASSUME NEW c \in Commands, CommandStep(c) \/ CommandCrash(c)
        PROVE  \/ cmd'[d].run = cmd[d].run /\ (cmd'[d].pc # "idle" => cmd[d].pc # "idle")
               \/ cmd'[d].run \in Runs /\ status[cmd'[d].run] # "absent"
    <2>1. ASSUME NEW r \in Runs, RequestPauseOrResume(c, r) \/ RequestCancel(c, r)
          PROVE  cmd'[d] = cmd[d] \/ (cmd'[d].run \in Runs /\ status[cmd'[d].run] # "absent")
      <3>1. status[r] # "absent"
        BY <2>1 DEF RequestPauseOrResume, RequestCancel, RunStatus, Transitions
      <3>2. cmd'[d] = cmd[d] \/ cmd'[d].run = r
        BY <2>1 DEF RequestPauseOrResume, RequestCancel, IdleCommand, TypeOK
      <3>3. QED
        BY <3>1, <3>2
    <2>2. CASE Supersede(c)
      <3>1. PICK e : cmd' = [cmd EXCEPT ![e].row = "superseded", ![c].todo = @ \ {e}]
        BY <2>2 DEF Supersede
      <3>2. QED
        BY <3>1 DEF TypeOK, CommandRecord
    <2>3. CASE SaveCommand(c)
      BY <2>3 DEF SaveCommand, TypeOK, CommandRecord
    <2>4. CASE CheckRunStatus(c)
      BY <2>4 DEF CheckRunStatus, TypeOK, CommandRecord
    <2>5. CASE MarkApplied(c)
      BY <2>5 DEF MarkApplied, TypeOK, CommandRecord
    <2>6. CASE UpdateRunStatus(c)
      BY <2>6 DEF UpdateRunStatus, TypeOK, CommandRecord
    <2>7. CASE CommandEvent(c)
      BY <2>7 DEF CommandEvent, TypeOK, CommandRecord
    <2>8. CASE CommandCrash(c)
      BY <2>8 DEF CommandCrash, TypeOK, CommandRecord
    <2>9. QED
      BY <1>2, <2>1, <2>2, <2>3, <2>4, <2>5, <2>6, <2>7, <2>8 DEF CommandStep
  <1>3. QED
    BY <1>1, <1>2, CommandsKept

\* An accepted run stays accepted, and so do the runs of the commands.
LEMMA NextCommandRun ==
    ASSUME TypeOK, CommandHasRun, [Next]_vars
    PROVE  CommandHasRun'
  <1> SUFFICES ASSUME NEW d \in Commands, cmd'[d].pc # "idle"
               PROVE  cmd'[d].run \in Runs /\ status'[cmd'[d].run] # "absent"
    BY DEF CommandHasRun
  <1>1. cmd'[d].run \in Runs /\ status[cmd'[d].run] # "absent"
    BY CommandRun DEF CommandHasRun
  <1>2. ASSUME NEW r \in Runs, status[r] # "absent"
        PROVE  status'[r] # "absent"
    <2>1. StatusMove(r)
      BY EveryMove
    <2>2. \A to : Allowed(status[r], to) => to # "absent"
      BY AllowedIsStatus DEF RunStatus, Transitions
    <2>3. ASSUME WrittenOver(r)
          PROVE  status'[r] # "absent"
      <3>1. PICK c \in Commands : cmd[c].run = r /\ UpdateRunStatus(c)
        BY <2>3 DEF WrittenOver
      <3>2. status'[r] = RequestedStatus(c)
        BY <1>2, <3>1 DEF UpdateRunStatus, TypeOK
      <3>3. QED
        BY <3>2 DEF RequestedStatus
    <2>4. QED
      BY <1>2, <2>1, <2>2, <2>3 DEF StatusMove
  <1>3. QED
    BY <1>1, <1>2

-----------------------------------------------------------------------------
(* What the mapping sees of a change.                                      *)

\* The owner of a run holds its newest attempt, and there is one of it.
LEMMA SoleOwner ==
    ASSUME RefInv, NEW w \in Workers, Holds(w)
    PROVE  /\ wrun[w] \in Runs
           /\ HasActiveLease(wrun[w])
           /\ RunOwner[wrun[w]] = {w}
  <1>1. watt[w] # 0 /\ watt[w] \in Attempts
    BY DEF Holds, Attempts
  <1>2. wrun[w] \in Runs
    BY <1>1 DEF RefInv, LeaseInv, ClaimIsMinted
  <1>3. HasActiveLease(wrun[w])
    BY <1>1 DEF Holds, HasActiveLease
  <1>4. ASSUME NEW v \in Workers, wrun[v] = wrun[w], Holds(v)
        PROVE  v = w
    <2>1. watt[v] # 0 /\ watt[v] \in Attempts
      BY <1>4 DEF Holds, Attempts
    <2>2. watt[v] = latest[wrun[w]] /\ watt[w] = latest[wrun[w]]
      BY <1>1, <1>2, <1>4, <2>1 DEF RefInv, LeaseInv, SingleActiveLease, Holds
    <2>3. QED
      BY <1>1, <1>4, <2>1, <2>2 DEF RefInv, LeaseInv, ClaimIsUnique
  <1>5. QED
    BY <1>2, <1>3, <1>4 DEF RunOwner, Owner

\* Neither the FSM nor the claims know of a change that keeps the rows' openness.
LEMMA SameOwners ==
    ASSUME \A r \in Runs, a \in Attempts :
               lease'[r][a] \in OpenLease <=> lease[r][a] \in OpenLease,
           \A w \in Workers : watt[w] # 0 => wrun[w] \in Runs,
           UNCHANGED <<wrun, watt>>
    PROVE  UNCHANGED <<RunOpen, RunOwner>>
  <1>1. \A w \in Workers : Holds(w)' <=> Holds(w)
    BY DEF Holds, Attempts
  <1>2. \A r \in Runs : (\E a \in Attempts : lease'[r][a] \in OpenLease) <=>
                         (\E a \in Attempts : lease[r][a] \in OpenLease)
    OBVIOUS
  <1>3. UNCHANGED RunOwner
    BY <1>1 DEF RunOwner, Owner
  <1>4. UNCHANGED RunOpen
    BY <1>2 DEF RunOpen, HasActiveLease, Attempts
  <1>5. QED
    BY <1>3, <1>4

\* A step that leaves status, rows, claims and checkpoint alone is a stutter.
LEMMA QuietStep ==
    ASSUME UNCHANGED <<status, latest, lease, ckpt, wrun, watt>>
    PROVE  UNCHANGED Ownership!ownershipVars
  BY DEF Ownership!ownershipVars, RunPhase, RunOpen, RunOwner, Owner, HasActiveLease, Holds,
         Attempts

\* One status change, as the protocol sees it.
LEMMA PhaseChange ==
    ASSUME TypeOK, NEW r \in Runs, NEW to, status' = [status EXCEPT ![r] = to]
    PROVE  /\ RunPhase' = [RunPhase EXCEPT ![r] = PhaseOf(to)]
           /\ RunPhase[r] = PhaseOf(status[r])
           /\ PhaseOf(to) = PhaseOf(status[r]) => RunPhase' = RunPhase
  BY DEF RunPhase, TypeOK

\* A step of the protocol, or a stutter.
AbstractStep == Ownership!OwnershipNext \/ UNCHANGED Ownership!ownershipVars

\* A status change of an accepted run that leaves rows, claims and checkpoint
\* alone is a decision about it: to a live status, or to a stopped one.
LEMMA StatusStep ==
    ASSUME RefInv, NEW r \in Runs, status[r] # "absent",
           NEW to \in RunStatus \ {"needs_attention", "completed"},
           status' = [status EXCEPT ![r] = to],
           UNCHANGED <<latest, lease, ckpt, wrun, watt>>
    PROVE  AbstractStep
  <1>1. UNCHANGED <<RunOpen, RunOwner>>
    BY SameOwners DEF RefInv, LeaseInv, ClaimIsMinted
  <1>2. RunPhase' = [RunPhase EXCEPT ![r] = PhaseOf(to)] /\ RunPhase[r] = PhaseOf(status[r])
    BY PhaseChange DEF RefInv
  <1>3. PhaseOf(to) \in {"live", "stopped"} /\ PhaseOf(status[r]) # "absent"
    BY DEF PhaseOf, RunStatus, Transitions
  <1>4. Ownership!Decided(r)
    BY <1>1, <1>2, <1>3 DEF Ownership!Decided
  <1>5. QED
    BY <1>4 DEF AbstractStep, Ownership!OwnershipNext

\* An event of the executor that keeps its claim: the completion is its own.
LEMMA EventStep ==
    ASSUME RefInv, NEW w \in Workers, NEW to \in RunStatus \ {"needs_attention"},
           ExecutorEvent(w, to), UNCHANGED <<wrun, watt>>
    PROVE  AbstractStep
  <1> DEFINE r == wrun[w]
  <1>1. /\ r \in Runs /\ HasActiveLease(r) /\ RunOwner[r] = {w}
    BY SoleOwner DEF ExecutorEvent
  <1>2. /\ Allowed(status[r], to) /\ status' = [status EXCEPT ![r] = to]
        /\ UNCHANGED <<latest, lease, ckpt>>
    BY DEF ExecutorEvent
  <1>3. CASE to # "completed"
    <2>1. status[r] # "absent"
      BY <1>2 DEF Allowed, RunStatus, Transitions
    <2>2. QED
      BY <1>1, <1>2, <1>3, <2>1, StatusStep
  <1>4. CASE to = "completed"
    <2>1. UNCHANGED <<RunOpen, RunOwner>>
      BY <1>2, SameOwners DEF RefInv, LeaseInv, ClaimIsMinted
    <2>2. /\ RunPhase' = [RunPhase EXCEPT ![r] = "completed"]
          /\ RunPhase[r] = PhaseOf(status[r])
          /\ PhaseOf(to) = PhaseOf(status[r]) => RunPhase' = RunPhase
      BY <1>1, <1>2, <1>4, PhaseChange DEF RefInv, PhaseOf
    <2>3. status[r] \in {"running", "completed"}
      BY <1>2, <1>4 DEF Allowed, Transitions, RunStatus
    <2>4. CASE status[r] = "completed"
      BY <1>2, <1>4, <2>1, <2>2, <2>4 DEF AbstractStep, Ownership!ownershipVars
    <2>5. CASE status[r] = "running"
      <3>1. Ownership!Completed(w, r)
        BY <1>1, <1>2, <2>1, <2>2, <2>5 DEF Ownership!Completed, PhaseOf
      <3>2. QED
        BY <1>1, <3>1 DEF AbstractStep, Ownership!OwnershipNext
    <2>6. QED
      BY <2>3, <2>4, <2>5
  <1>5. QED
    BY <1>3, <1>4

\* A worker that forgets its claim leaves its row as it is.
LEMMA ForgetStep ==
    ASSUME RefInv, NEW w \in Workers,
           wrun' = [wrun EXCEPT ![w] = NoRun], watt' = [watt EXCEPT ![w] = 0],
           UNCHANGED <<RunPhase, latest, lease, ckpt>>
    PROVE  AbstractStep
  <1>1. UNCHANGED RunOpen
    BY DEF RunOpen, HasActiveLease, Attempts
  <1>2. ASSUME NEW r \in Runs
        PROVE  Owner(r)' = Owner(r) \ {w}
    <2>1. ~Holds(w)'
      BY DEF Holds, Attempts, RefInv, TypeOK
    <2>2. \A v \in Workers : v # w => wrun'[v] = wrun[v] /\ (Holds(v)' <=> Holds(v))
      BY DEF Holds, Attempts, RefInv, TypeOK
    <2>3. QED
      BY <2>1, <2>2 DEF Owner
  <1>3. RunOwner' = [r \in Runs |-> RunOwner[r] \ {w}]
    BY <1>2 DEF RunOwner
  <1>4. Ownership!Forgotten(w)
    BY <1>1, <1>3 DEF Ownership!Forgotten
  <1>5. QED
    BY <1>4 DEF AbstractStep, Ownership!OwnershipNext

\* Closing the only row that may be open ends the term, whether its owner forgets
\* its claim in the same step or does not know.
LEMMA CloseStep ==
    ASSUME RefInv, NEW r \in Runs, NEW a \in Attempts, NEW to \in ClosedLease,
           lease[r][a] \in OpenLease \/ ~HasActiveLease(r),
           lease' = [lease EXCEPT ![r][a] = to],
           \/ UNCHANGED <<wrun, watt>>
           \/ \E w \in Workers : /\ wrun[w] = r
                                /\ wrun' = [wrun EXCEPT ![w] = NoRun]
                                /\ watt' = [watt EXCEPT ![w] = 0],
           \E next \in {RunPhase[r]} \cup
                   (IF RunPhase[r] = "live" THEN {"parked", "stopped"} ELSE {}) :
               RunPhase' = [RunPhase EXCEPT ![r] = next],
           UNCHANGED <<latest, ckpt>>
    PROVE  AbstractStep
  <1>1. \A s \in Runs, b \in Attempts :
            lease'[s][b] = IF s = r /\ b = a THEN to ELSE lease[s][b]
    BY DEF RefInv, TypeOK
  <1>2. \A b \in Attempts : lease'[r][b] \notin OpenLease
    <2>1. to \notin OpenLease
      BY DEF OpenLease, ClosedLease
    <2>2. \A b \in Attempts : b # a => lease[r][b] \notin OpenLease
      BY DEF RefInv, LeaseInv, SingleActiveLease, HasActiveLease
    <2>3. QED
      BY <1>1, <2>1, <2>2
  <1>3. RunOpen' = [RunOpen EXCEPT ![r] = FALSE]
    <2>1. \A s \in Runs : (\E b \in Attempts : lease'[s][b] \in OpenLease)
                           <=> (s # r /\ \E b \in Attempts : lease[s][b] \in OpenLease)
      BY <1>1, <1>2
    <2>2. QED
      BY <2>1 DEF RunOpen, HasActiveLease, Attempts
  <1>4. ASSUME NEW s \in Runs
        PROVE  Owner(s)' = IF s = r THEN {} ELSE Owner(s)
    <2>1. CASE s = r
      BY <1>2, <2>1 DEF Owner, Holds, Attempts
    <2>2. CASE s # r
      <3>1. \A v \in Workers : (wrun'[v] = s /\ Holds(v)') <=> (wrun[v] = s /\ Holds(v))
        BY <1>1, <2>2, NoRunAssumption DEF Holds, Attempts, RefInv, TypeOK
      <3>2. QED
        BY <2>2, <3>1 DEF Owner
    <2>3. QED
      BY <2>1, <2>2
  <1>5. RunOwner' = [RunOwner EXCEPT ![r] = {}]
    BY <1>4 DEF RunOwner
  <1>6. Ownership!Closed(r)
    BY <1>3, <1>5 DEF Ownership!Closed
  <1>7. QED
    BY <1>6 DEF AbstractStep, Ownership!OwnershipNext

\* The claim is a grant: the run was open to nobody and the worker idle.
LEMMA ClaimStep ==
    ASSUME RefInv, NEW w \in Workers, NEW r \in Runs, Claim(w, r)
    PROVE  AbstractStep
  <1> DEFINE n == latest[r] + 1
  <1>1. n \in Attempts /\ n # 0 /\ latest[r] \in Nat
    BY MaxAttemptsAssumption DEF Claim, RefInv, TypeOK, Attempts
  <1>2. \A s \in Runs, a \in Attempts :
            lease'[s][a] = IF s = r /\ a = n THEN "active" ELSE lease[s][a]
    BY <1>1 DEF Claim, RefInv, TypeOK
  <1>3. \A v \in Workers :
            /\ wrun'[v] = IF v = w THEN r ELSE wrun[v]
            /\ watt'[v] = IF v = w THEN n ELSE watt[v]
    BY DEF Claim, RefInv, TypeOK
  <1>4. ~Holds(w)
    BY DEF RefInv, IdleHasNoClaim, Claim, Holds, Attempts
  <1>5. \A v \in Workers : wrun[v] = r => ~Holds(v)
    BY DEF Claim, Runnable, HasActiveLease, Holds
  <1>6. Holds(w)'
    BY <1>1, <1>2, <1>3 DEF Holds, Attempts, OpenLease
  <1>7. \A v \in Workers : v # w /\ wrun[v] # r => (Holds(v)' <=> Holds(v))
    <2>1. ASSUME NEW v \in Workers, v # w, wrun[v] # r
          PROVE  Holds(v)' <=> Holds(v)
      <3>1. CASE watt[v] \in Attempts
        <4>1. wrun[v] \in Runs
          BY <3>1 DEF RefInv, LeaseInv, ClaimIsMinted, Attempts
        <4>2. QED
          BY <1>2, <1>3, <2>1, <4>1 DEF Holds, Attempts
      <3>2. CASE watt[v] \notin Attempts
        BY <1>3, <2>1, <3>2 DEF Holds, Attempts
      <3>3. QED
        BY <3>1, <3>2
    <2>2. QED
      BY <2>1
  <1>8. \A v \in Workers : v # w /\ wrun[v] = r => ~Holds(v)'
    <2>1. ASSUME NEW v \in Workers, v # w, wrun[v] = r, watt[v] \in Attempts
          PROVE  watt[v] # n /\ lease[r][watt[v]] \notin OpenLease
      <3>1. watt[v] # 0 /\ watt[v] \in Nat
        BY <2>1, MaxAttemptsAssumption DEF Attempts
      <3>2. watt[v] <= latest[r]
        BY <2>1, <3>1 DEF RefInv, LeaseInv, ClaimIsMinted
      <3>3. QED
        BY <1>1, <1>5, <2>1, <3>1, <3>2 DEF Holds
    <2>2. QED
      BY <1>2, <1>3, <2>1 DEF Holds, Attempts
  <1>9. RunOwner' = [RunOwner EXCEPT ![r] = {w}]
    <2>1. ASSUME NEW s \in Runs
          PROVE  Owner(s)' = IF s = r THEN {w} ELSE Owner(s)
      BY <1>3, <1>4, <1>6, <1>7, <1>8 DEF Owner
    <2>2. QED
      BY <2>1 DEF RunOwner
  <1>10. RunOpen' = [RunOpen EXCEPT ![r] = TRUE]
    <2>1. \A s \in Runs : (\E a \in Attempts : lease'[s][a] \in OpenLease)
                           <=> (s = r \/ \E a \in Attempts : lease[s][a] \in OpenLease)
      BY <1>1, <1>2 DEF OpenLease
    <2>2. QED
      BY <2>1 DEF RunOpen, HasActiveLease, Attempts
  <1>11. RunPhase' = RunPhase /\ RunPhase[r] = "live"
    <2>1. PhaseOf(status[r]) = "live" /\ PhaseOf("starting") = "live"
      BY DEF Claim, Runnable, PhaseOf
    <2>2. QED
      BY <2>1, PhaseChange DEF Claim, RefInv
  <1>12. Ownership!Granted(w, r)
    <2>1. ~RunOpen[r]
      BY DEF Claim, Runnable, RunOpen
    <2>2. \A s \in Runs : w \notin RunOwner[s]
      BY <1>4 DEF RunOwner, Owner
    <2>3. QED
      BY <1>9, <1>10, <1>11, <2>1, <2>2 DEF Ownership!Granted, Claim
  <1>13. QED
    BY <1>12 DEF AbstractStep, Ownership!OwnershipNext

-----------------------------------------------------------------------------
(* The actions.                                                            *)

\* A step of a worker.
LEMMA WorkerImplements ==
    ASSUME RefInv, NEW w \in Workers,
           WorkerStep(w) \/ Heartbeat(w) \/ HeartbeatLost(w) \/ Crash(w)
    PROVE  AbstractStep
  <1>1. EventTarget(w) \in RunStatus \ {"needs_attention"}
    BY DEF EventTarget, AppliedStatus, RunStatus, Transitions
  <1>2. {"starting", "running", "resume_requested", "completed", "failed"}
            \subseteq RunStatus \ {"needs_attention"}
    BY DEF RunStatus, Transitions
  <1>3. CASE \/ ExecutorStarting(w) \/ Resumed(w) \/ ResumeFailed(w) \/ RuntimeStart(w)
             \/ Progress(w) \/ CheckpointEvent(w) \/ LaneBusy(w) \/ Complete(w)
             \/ ExecutorFailed(w)
    BY <1>2, <1>3, EventStep DEF ExecutorStarting, Resumed, ResumeFailed, RuntimeStart,
          Progress, CheckpointEvent, LaneBusy, Complete, ExecutorFailed, KeepClaim,
          workerVars
  <1>4. CASE \/ ReadCheckpoint(w) \/ AcceptSource(w) \/ SourceRefused(w) \/ RecordUnknown(w)
             \/ MintSafeRetry(w) \/ RuntimeEnds(w) \/ EventRefused(w) \/ HeartbeatLost(w)
             \/ ApplyChoose(w) \/ ApplyMark(w)
    BY <1>4, QuietStep DEF ReadCheckpoint, AcceptSource, SourceRefused, RecordUnknown,
          MintSafeRetry, RuntimeEnds, EventRefused, HeartbeatLost, ApplyChoose, ApplyMark,
          KeepClaim, runVars, workerVars, AbstractStep
  <1>5. CASE WriteCheckpoint(w)
    <2>1. wrun[w] \in Runs /\ RunOwner[wrun[w]] = {w}
      BY <1>5, SoleOwner DEF WriteCheckpoint
    <2>2. UNCHANGED <<RunOpen, RunOwner, RunPhase>>
      BY <1>5 DEF WriteCheckpoint, KeepClaim, RunOpen, RunOwner, RunPhase, Owner,
                  HasActiveLease, Holds, Attempts
    <2>3. \E new \in CheckpointState : ckpt' = [ckpt EXCEPT ![wrun[w]] = new]
      BY <1>5 DEF WriteCheckpoint, CheckpointState
    <2>4. Ownership!Written(w, wrun[w])
      BY <1>5, <2>1, <2>2, <2>3 DEF Ownership!Written, WriteCheckpoint
    <2>5. QED
      BY <2>1, <2>4 DEF AbstractStep, Ownership!OwnershipNext
  <1>6. CASE YieldForReconciliation(w)
    <2>1. CASE Return(w)
      <3>1. Goto(w, "idle")
        BY <2>1 DEF Return
      <3>2. "workerFailing" # "idle" /\ pc[w] # "idle"
        BY <1>6 DEF YieldForReconciliation
      <3>3. ~Goto(w, "workerFailing")
        BY <3>1, <3>2 DEF Goto, RefInv, TypeOK
      <3>4. /\ Holds(w) /\ CloseLease(w, "revoked")
            /\ Allowed(status[wrun[w]], "resume_requested")
            /\ status' = [status EXCEPT ![wrun[w]] = "resume_requested"]
            /\ UNCHANGED <<latest, ckpt>>
        BY <1>6, <3>3 DEF YieldForReconciliation
      <3>5. wrun[w] \in Runs /\ HasActiveLease(wrun[w]) /\ watt[w] \in Attempts
        BY <3>4, SoleOwner DEF Holds
      <3>6. status[wrun[w]] # "needs_attention"
        BY <3>5 DEF RefInv, ParkedForAttention
      <3>7. PhaseOf("resume_requested") = PhaseOf(status[wrun[w]])
        BY <3>4, <3>6 DEF PhaseOf, Allowed, Transitions, RunStatus
      <3>8. RunPhase' = [RunPhase EXCEPT ![wrun[w]] = RunPhase[wrun[w]]]
        BY <3>4, <3>5, <3>7, PhaseChange DEF RefInv
      <3>9. lease[wrun[w]][watt[w]] \in OpenLease /\ "revoked" \in ClosedLease
        BY <3>4 DEF Holds, ClosedLease
      <3>10. QED
        BY <2>1, <3>4, <3>5, <3>8, <3>9, CloseStep DEF CloseLease, Return
    <2>2. CASE ~Return(w)
      BY <1>6, <2>2, QuietStep DEF YieldForReconciliation, KeepClaim, AbstractStep
    <2>3. QED
      BY <2>1, <2>2
  <1>7. CASE Release(w)
    <2>1. CASE Holds(w)
      <3>1. wrun[w] \in Runs /\ watt[w] \in Attempts /\ lease[wrun[w]][watt[w]] \in OpenLease
        BY <2>1, SoleOwner DEF Holds
      <3>2. ReleaseAs(w) \in ClosedLease
        BY DEF ReleaseAs, ClosedLease
      <3>3. RunPhase' = [RunPhase EXCEPT ![wrun[w]] = RunPhase[wrun[w]]]
        BY <1>7 DEF Release, RunPhase
      <3>4. QED
        BY <1>7, <2>1, <3>1, <3>2, <3>3, CloseStep DEF Release, CloseLease, Return
    <2>2. CASE ~Holds(w) /\ Return(w)
      <3>1. UNCHANGED RunPhase
        BY <1>7 DEF Release, RunPhase
      <3>2. QED
        BY <1>7, <2>2, <3>1, ForgetStep DEF Release, Return
    <2>3. CASE ~Holds(w) /\ ~Return(w)
      BY <1>7, <2>3, QuietStep DEF Release, KeepClaim, AbstractStep
    <2>4. QED
      BY <2>1, <2>2, <2>3
  <1>8. CASE WorkerFailed(w)
    <2>1. CASE ExecutorEvent(w, "failed") /\ KeepClaim
      BY <1>2, <2>1, EventStep DEF KeepClaim
    <2>2. CASE Return(w) /\ UNCHANGED runVars
      <3>1. UNCHANGED RunPhase
        BY <2>2 DEF RunPhase, runVars
      <3>2. QED
        BY <2>2, <3>1, ForgetStep DEF Return, runVars
    <2>3. QED
      BY <1>8, <2>1, <2>2 DEF WorkerFailed
  <1>9. CASE Heartbeat(w)
    <2>1. wrun[w] \in Runs /\ watt[w] \in Attempts
      BY <1>9, SoleOwner DEF Heartbeat, Holds
    <2>2. \A r \in Runs, a \in Attempts :
              lease'[r][a] \in OpenLease <=> lease[r][a] \in OpenLease
      <3>1. \A r \in Runs, a \in Attempts :
                lease'[r][a] = IF r = wrun[w] /\ a = watt[w] THEN "active" ELSE lease[r][a]
        BY <1>9, <2>1 DEF Heartbeat, CloseLease, RefInv, TypeOK
      <3>2. lease[wrun[w]][watt[w]] \in OpenLease /\ "active" \in OpenLease
        BY <1>9 DEF Heartbeat, OpenLease
      <3>3. QED
        BY <3>1, <3>2
    <2>3. UNCHANGED <<RunOpen, RunOwner>>
      BY <1>9, <2>2, SameOwners DEF Heartbeat, workerVars, RefInv, LeaseInv, ClaimIsMinted
    <2>4. QED
      BY <1>9, <2>3 DEF Heartbeat, AbstractStep, Ownership!ownershipVars, RunPhase
  <1>10. CASE Crash(w)
    <2>1. UNCHANGED RunPhase
      BY <1>10 DEF Crash, RunPhase, runVars
    <2>2. QED
      BY <1>10, <2>1, ForgetStep DEF Crash, runVars
  <1>11. CASE ApplyEvent(w)
    <2>1. ExecutorEvent(w, EventTarget(w))
      BY <1>11 DEF ApplyEvent
    <2>2. CASE KeepClaim
      BY <1>1, <2>1, <2>2, EventStep DEF KeepClaim
    <2>3. CASE ~KeepClaim
      <3>1. Return(w) /\ pc[w] = "applyEvent" /\ cmd[wcmd[w]].type = "resume"
        BY <1>11, <2>3 DEF ApplyEvent
      <3>2. EventTarget(w) = "running"
        BY <3>1 DEF EventTarget, AppliedStatus
      <3>3. /\ wrun[w] \in Runs /\ HasActiveLease(wrun[w])
            /\ Allowed(status[wrun[w]], "running")
            /\ status' = [status EXCEPT ![wrun[w]] = "running"]
            /\ UNCHANGED <<latest, lease, ckpt>>
        BY <2>1, <3>2, SoleOwner DEF ExecutorEvent
      <3>4. PhaseOf("running") = PhaseOf(status[wrun[w]])
        BY <3>3 DEF PhaseOf, Allowed, Transitions, RunStatus
      <3>5. UNCHANGED RunPhase
        BY <3>3, <3>4, PhaseChange DEF RefInv
      <3>6. QED
        BY <3>1, <3>3, <3>5, ForgetStep DEF Return
    <2>4. QED
      BY <2>2, <2>3
  <1>12. QED
    BY <1>3, <1>4, <1>5, <1>6, <1>7, <1>8, <1>9, <1>10, <1>11 DEF WorkerStep

\* A step of the clock, of recovery, or of another service of main.
LEMMA StoreImplements ==
    ASSUME RefInv, NEW r \in Runs,
           \/ AcceptRun(r) \/ WaitElapses(r) \/ OtherEvent(r) \/ RecoveryStep(r)
           \/ \E a \in Attempts : LeaseOverdue(r, a) \/ ExpireLease(r, a)
    PROVE  AbstractStep
  <1>1. CASE WaitElapses(r) \/ OtherEvent(r) \/ NoOwnerReconcile(r)
    BY <1>1, QuietStep DEF WaitElapses, OtherEvent, NoOwnerReconcile, workerVars, AbstractStep
  <1>2. CASE AcceptRun(r)
    <2>1. /\ RunPhase' = [RunPhase EXCEPT ![r] = "live"] /\ RunPhase[r] = "absent"
      <3>1. PhaseOf("queued") = "live" /\ PhaseOf("absent") = "absent"
        BY DEF PhaseOf
      <3>2. QED
        BY <1>2, <3>1, PhaseChange DEF AcceptRun, RefInv
    <2>2. UNCHANGED <<RunOpen, RunOwner>>
      BY <1>2, SameOwners DEF AcceptRun, workerVars, RefInv, LeaseInv, ClaimIsMinted
    <2>3. Ownership!Accepted(r)
      BY <1>2, <2>1, <2>2 DEF AcceptRun, Ownership!Accepted
    <2>4. QED
      BY <2>3 DEF AbstractStep, Ownership!OwnershipNext
  <1>3. ASSUME NEW a \in Attempts, LeaseOverdue(r, a)
        PROVE  AbstractStep
    <2>1. \A s \in Runs, b \in Attempts :
              lease'[s][b] \in OpenLease <=> lease[s][b] \in OpenLease
      BY <1>3 DEF LeaseOverdue, OpenLease, RefInv, TypeOK
    <2>2. UNCHANGED <<RunOpen, RunOwner>>
      BY <1>3, <2>1, SameOwners DEF LeaseOverdue, workerVars, RefInv, LeaseInv, ClaimIsMinted
    <2>3. QED
      BY <1>3, <2>2 DEF LeaseOverdue, AbstractStep, Ownership!ownershipVars, RunPhase
  <1>4. ASSUME NEW a \in Attempts, ExpireLease(r, a)
        PROVE  AbstractStep
    <2>1. lease[r][a] \in OpenLease /\ "expired" \in ClosedLease
      BY <1>4 DEF ExpireLease, OpenLease, ClosedLease
    <2>2. RunPhase' = [RunPhase EXCEPT ![r] = RunPhase[r]]
      BY <1>4 DEF ExpireLease, RunPhase
    <2>3. QED
      BY <1>4, <2>1, <2>2, CloseStep DEF ExpireLease, workerVars
  <1>5. ASSUME NEW a \in Attempts, NextRecoveryLease(r, a)
        PROVE  /\ lease[r][a] \in OpenLease \/ ~HasActiveLease(r)
               /\ status[r] # "needs_attention"
    BY <1>5 DEF NextRecoveryLease, OverdueFirst, Selectable, Stranded, OpenLease
  <1>6. ASSUME NEW a \in Attempts, SettleLeaseOnly(r, a)
        PROVE  AbstractStep
    <2>1. "expired" \in ClosedLease
      BY DEF ClosedLease
    <2>2. RunPhase' = [RunPhase EXCEPT ![r] = RunPhase[r]]
      BY <1>6 DEF SettleLeaseOnly, RunPhase
    <2>3. QED
      BY <1>5, <1>6, <2>1, <2>2, CloseStep DEF SettleLeaseOnly, workerVars
  <1>7. ASSUME NEW a \in Attempts, SettleRun(r, a)
        PROVE  AbstractStep
    <2>1. PICK v : LET target == RecoveryTarget(status[r], v)
                   IN Allowed(status[r], target) /\ status' = [status EXCEPT ![r] = target]
      BY <1>7 DEF SettleRun
    <2>2. RunPhase[r] = "live"
      BY <1>5, <1>7 DEF SettleRun, LeaseOnlyCleanup, Terminal, RunPhase, PhaseOf, RunStatus,
                        Transitions
    <2>3. PhaseOf(RecoveryTarget(status[r], v)) \in {"live", "parked", "stopped"}
      BY DEF RecoveryTarget, PhaseOf
    <2>4. RunPhase' = [RunPhase EXCEPT ![r] = PhaseOf(RecoveryTarget(status[r], v))]
      BY <2>1, PhaseChange DEF RefInv
    <2>5. "settled" \in ClosedLease
      BY DEF ClosedLease
    <2>6. QED
      BY <1>5, <1>7, <2>2, <2>3, <2>4, <2>5, CloseStep DEF SettleRun, workerVars
  <1>8. CASE ResolveAttention(r)
    <2>1. "resume_requested" \in RunStatus \ {"needs_attention", "completed"}
      BY DEF RunStatus, Transitions
    <2>2. status[r] # "absent"
      BY <1>8 DEF ResolveAttention
    <2>3. QED
      BY <1>8, <2>1, <2>2, StatusStep DEF ResolveAttention, workerVars
  <1>9. QED
    BY <1>1, <1>2, <1>3, <1>4, <1>6, <1>7, <1>8 DEF RecoveryStep

\* A step of a command request moves the status or nothing the protocol sees.
LEMMA CommandImplements ==
    ASSUME RefInv, NEW c \in Commands, CommandStep(c) \/ CommandCrash(c)
    PROVE  AbstractStep
  <1>1. CASE UpdateRunStatus(c)
    <2>1. RequestedStatus(c) \in RunStatus \ {"needs_attention", "completed"}
      BY DEF RequestedStatus, RunStatus, Transitions
    <2>2. cmd[c].run \in Runs /\ status[cmd[c].run] # "absent"
      BY <1>1 DEF UpdateRunStatus, RefInv, CommandHasRun
    <2>3. QED
      BY <1>1, <2>1, <2>2, StatusStep DEF UpdateRunStatus, workerVars
  <1>2. CASE ~UpdateRunStatus(c)
    BY <1>2, QuietStep DEF CommandStep, CommandCrash, RequestPauseOrResume, RequestCancel,
          Supersede, SaveCommand, MarkApplied, CheckRunStatus, CommandEvent, runVars, workerVars,
          AbstractStep
  <1>3. QED
    BY <1>1, <1>2

\* Every step of the plane is a step of the protocol or a stutter.
LEMMA StepImplements == RefInv /\ [Next]_vars => AbstractStep
  <1> SUFFICES ASSUME RefInv, [Next]_vars
               PROVE  AbstractStep
    OBVIOUS
  <1>1. CASE UNCHANGED vars
    BY <1>1, QuietStep DEF vars, runVars, workerVars, AbstractStep
  <1>2. CASE Next
    BY <1>2, WorkerImplements, StoreImplements, CommandImplements, ClaimStep DEF Next
  <1>3. QED
    BY <1>1, <1>2

\* The plane starts where the protocol starts.
LEMMA InitImplements == Init => Ownership!OwnershipInit
  <1> SUFFICES ASSUME Init
               PROVE  Ownership!OwnershipInit
    OBVIOUS
  <1>1. RunPhase = [r \in Runs |-> "absent"]
    BY DEF Init, RunPhase, PhaseOf
  <1>2. RunOpen = [r \in Runs |-> FALSE]
    BY DEF Init, RunOpen, HasActiveLease, OpenLease
  <1>3. RunOwner = [r \in Runs |-> {}]
    BY DEF Init, RunOwner, Owner, Holds, Attempts
  <1>4. "none" \in CheckpointState
    BY DEF CheckpointState
  <1>5. QED
    BY <1>1, <1>2, <1>3, <1>4 DEF Init, Ownership!OwnershipInit

\* The run-control plane implements the ownership protocol: one owner per term,
\* terms in order, results and completion by the owner alone.
THEOREM PlaneImplementsOwnership == Spec => ImplementsOwnership
  <1>1. Init => RefInv
    BY InitType, InitLease DEF RefInv, Init, ParkedForAttention, IdleHasNoClaim,
       CommandHasRun, IdleCommand
  <1>2. RefInv /\ [Next]_vars => RefInv'
    BY NextType, NextLease, NextParked, NextIdle, NextCommandRun DEF RefInv
  <1>3. RefInv /\ [Next]_vars => [Ownership!OwnershipNext]_(Ownership!ownershipVars)
    BY StepImplements DEF AbstractStep
  <1>4. QED
    BY <1>1, <1>2, <1>3, InitImplements, PTL DEF Spec, ImplementsOwnership,
       Ownership!OwnershipSpec

-----------------------------------------------------------------------------
(* Recovery: what a worker that leaves, or applies a command, has shown.   *)

Executing == {"starting", "running"}

ReleaseLabel ==
    {"yieldRelease", "completeRelease", "failRelease", "workerRelease", "applyRelease"}

\* A worker that is about to release its lease has said so in the run status.
LeavingIsShown ==
    \A w \in Workers :
        pc[w] \in ReleaseLabel /\ Holds(w) => status[wrun[w]] \notin Executing

\* A command whose row is accepted has been requested, and knows what it asks for.
AcceptedIsRequested ==
    \A c \in Commands :
        /\ cmd[c].row = "accepted" => cmd[c].pc # "idle"
        /\ cmd[c].pc # "idle" => cmd[c].type \in CommandTypes

\* The command a worker applies has been requested, and one whose second event is
\* due pauses or cancels.
AppliedCommand ==
    \A w \in Workers : pc[w] \in {"applyMark", "applyEvent", "applyEvent2"} =>
        /\ wcmd[w] \in Commands
        /\ cmd[wcmd[w]].pc # "idle"
        /\ pc[w] = "applyEvent2" => cmd[wcmd[w]].type # "resume"

RecoveryInv ==
    RefInv /\ ExecutingRunIsRecoverable /\ LeavingIsShown
           /\ AcceptedIsRequested /\ AppliedCommand

-----------------------------------------------------------------------------
(* The commands.                                                           *)

\* What a step may do to a command row: nothing; request it, if it was idle; save
\* it, if it was requested; or move on without touching its type.
LEMMA CommandRow ==
    ASSUME TypeOK, AppliedCommand, [Next]_vars, NEW d \in Commands
    PROVE  \/ cmd'[d] = cmd[d]
           \/ /\ cmd[d].pc = "idle" /\ cmd'[d].pc = "save"
              /\ cmd'[d].type \in CommandTypes /\ cmd'[d].row = "none"
           \/ /\ cmd'[d].type = cmd[d].type
              /\ cmd[d].pc # "idle" => cmd'[d].pc # "idle"
              /\ cmd'[d].row = "accepted" => cmd[d].row = "accepted" \/ cmd[d].pc = "save"
              /\ cmd[d].pc = "idle" => cmd'[d].pc = "idle"
  <1> DEFINE Kept == /\ cmd'[d].type = cmd[d].type
                     /\ cmd[d].pc # "idle" <=> cmd'[d].pc # "idle"
                     /\ cmd'[d].row = "accepted" =>
                            cmd[d].row = "accepted" \/ cmd[d].pc = "save"
  <1>1. ASSUME NEW w \in Workers, ApplyMark(w)
        PROVE  Kept
    BY <1>1 DEF ApplyMark, TypeOK, CommandRecord
  <1>2. ASSUME NEW c \in Commands, CommandStep(c) \/ CommandCrash(c)
        PROVE  \/ cmd'[d] = cmd[d] \/ Kept
               \/ /\ cmd[d].pc = "idle" /\ cmd'[d].pc = "save"
                  /\ cmd'[d].type \in CommandTypes /\ cmd'[d].row = "none"
    <2>1. ASSUME NEW r \in Runs, RequestPauseOrResume(c, r)
          PROVE  \/ cmd'[d] = cmd[d]
                 \/ /\ cmd[d].pc = "idle" /\ cmd'[d].pc = "save"
                    /\ cmd'[d].type \in CommandTypes /\ cmd'[d].row = "none"
      BY <2>1 DEF RequestPauseOrResume, TypeOK, IdleCommand, CommandTypes
    <2>2. ASSUME NEW r \in Runs, RequestCancel(c, r)
          PROVE  \/ cmd'[d] = cmd[d]
                 \/ /\ cmd[d].pc = "idle" /\ cmd'[d].pc = "save"
                    /\ cmd'[d].type \in CommandTypes /\ cmd'[d].row = "none"
      BY <2>2 DEF RequestCancel, TypeOK, IdleCommand, CommandTypes
    <2>3. CASE Supersede(c)
      <3>1. PICK e : cmd' = [cmd EXCEPT ![e].row = "superseded", ![c].todo = @ \ {e}]
        BY <2>3 DEF Supersede
      <3>2. QED
        BY <3>1 DEF TypeOK, CommandRecord
    <2>4. CASE SaveCommand(c)
      BY <2>4 DEF SaveCommand, TypeOK, CommandRecord
    <2>5. CASE MarkApplied(c)
      BY <2>5 DEF MarkApplied, TypeOK, CommandRecord
    <2>6. CASE CheckRunStatus(c) \/ UpdateRunStatus(c)
      <3>1. PICK l \in {"write", "event", "done"} : cmd' = [cmd EXCEPT ![c].pc = l]
        BY <2>6 DEF CheckRunStatus, UpdateRunStatus
      <3>2. cmd[c].pc \in {"update", "write"}
        BY <2>6 DEF CheckRunStatus, UpdateRunStatus
      <3>3. QED
        BY <3>1, <3>2 DEF TypeOK, CommandRecord
    <2>7. CASE CommandEvent(c)
      BY <2>7 DEF CommandEvent, TypeOK, CommandRecord
    <2>8. CASE CommandCrash(c)
      BY <2>8 DEF CommandCrash, TypeOK, CommandRecord
    <2>9. QED
      BY <1>2, <2>1, <2>2, <2>3, <2>4, <2>5, <2>6, <2>7, <2>8 DEF CommandStep
  <1>3. QED
    BY <1>1, <1>2, CommandsKept

\* A command that was requested keeps its type and never becomes idle again.
LEMMA RequestedForGood ==
    ASSUME TypeOK, AppliedCommand, [Next]_vars, NEW d \in Commands, cmd[d].pc # "idle"
    PROVE  cmd'[d].pc # "idle" /\ cmd'[d].type = cmd[d].type
  BY CommandRow

\* save_command is the only writer of "accepted", after the request was read.
LEMMA NextAccepted ==
    ASSUME TypeOK, AcceptedIsRequested, AppliedCommand, [Next]_vars
    PROVE  AcceptedIsRequested'
  <1> SUFFICES ASSUME NEW d \in Commands
               PROVE  /\ cmd'[d].row = "accepted" => cmd'[d].pc # "idle"
                      /\ cmd'[d].pc # "idle" => cmd'[d].type \in CommandTypes
    BY DEF AcceptedIsRequested
  <1>1. QED
    BY CommandRow DEF AcceptedIsRequested

\* A worker's position and command change by its own steps only.
LEMMA OthersKeep ==
    ASSUME TypeOK, [Next]_vars, NEW w \in Workers,
           ~(WorkerStep(w) \/ HeartbeatLost(w) \/ Crash(w)),
           \A r \in Runs : ~Claim(w, r)
    PROVE  pc'[w] = pc[w] /\ wcmd'[w] = wcmd[w] /\ wrun'[w] = wrun[w] /\ watt'[w] = watt[w]
  <1> DEFINE Same == /\ pc'[w] = pc[w] /\ wcmd'[w] = wcmd[w]
                     /\ wrun'[w] = wrun[w] /\ watt'[w] = watt[w]
  <1>1. ASSUME UNCHANGED workerVars
        PROVE  Same
    BY <1>1 DEF workerVars
  <1>2. ASSUME NEW v \in Workers, v # w, NEW l, Goto(v, l), KeepClaim
        PROVE  Same
    BY <1>2 DEF Goto, KeepClaim, TypeOK
  <1>3. ASSUME NEW v \in Workers, v # w, Return(v)
        PROVE  Same
    BY <1>3 DEF Return, Goto, TypeOK
  <1>4. ASSUME NEW v \in Workers, v # w, WorkerStep(v)
        PROVE  Same
    <2>1. CASE \/ ExecutorStarting(v) \/ ReadCheckpoint(v) \/ Resumed(v) \/ ResumeFailed(v)
               \/ RuntimeStart(v) \/ WriteCheckpoint(v) \/ CheckpointEvent(v)
               \/ SourceRefused(v) \/ RuntimeEnds(v) \/ LaneBusy(v) \/ Complete(v)
               \/ ExecutorFailed(v) \/ EventRefused(v) \/ ApplyMark(v)
      BY <1>2, <1>4, <2>1 DEF ExecutorStarting, ReadCheckpoint, Resumed, ResumeFailed,
            RuntimeStart, WriteCheckpoint, CheckpointEvent, SourceRefused, RuntimeEnds,
            LaneBusy, Complete, ExecutorFailed, EventRefused, ApplyMark
    <2>2. CASE Progress(v) \/ AcceptSource(v) \/ RecordUnknown(v) \/ MintSafeRetry(v)
      BY <1>1, <2>2 DEF Progress, AcceptSource, RecordUnknown, MintSafeRetry
    <2>3. CASE YieldForReconciliation(v)
      BY <1>2, <1>3, <1>4, <2>3 DEF YieldForReconciliation
    <2>4. CASE Release(v)
      BY <1>2, <1>3, <1>4, <2>4 DEF Release
    <2>5. CASE WorkerFailed(v)
      BY <1>2, <1>3, <1>4, <2>5 DEF WorkerFailed
    <2>6. CASE ApplyChoose(v)
      BY <1>4, <2>6 DEF ApplyChoose, Goto, TypeOK
    <2>7. CASE ApplyEvent(v)
      BY <1>2, <1>3, <1>4, <2>7 DEF ApplyEvent
    <2>8. QED
      BY <1>4, <2>1, <2>2, <2>3, <2>4, <2>5, <2>6, <2>7 DEF WorkerStep
  <1>5. ASSUME NEW v \in Workers, v # w, HeartbeatLost(v) \/ Crash(v)
        PROVE  Same
    BY <1>2, <1>5 DEF HeartbeatLost, Crash, TypeOK
  <1>6. ASSUME NEW v \in Workers, Heartbeat(v)
        PROVE  Same
    BY <1>1, <1>6 DEF Heartbeat
  <1>7. ASSUME NEW v \in Workers, v # w, NEW r \in Runs, Claim(v, r)
        PROVE  Same
    BY <1>7 DEF Claim, TypeOK
  <1>8. ASSUME NEW r \in Runs,
               \/ AcceptRun(r) \/ WaitElapses(r) \/ OtherEvent(r) \/ RecoveryStep(r)
               \/ \E a \in Attempts : LeaseOverdue(r, a) \/ ExpireLease(r, a)
        PROVE  Same
    BY <1>1, <1>8 DEF AcceptRun, WaitElapses, OtherEvent, RecoveryStep, LeaseOverdue,
          ExpireLease, SettleLeaseOnly, SettleRun, ResolveAttention, NoOwnerReconcile
  <1>9. ASSUME NEW c \in Commands, CommandStep(c) \/ CommandCrash(c)
        PROVE  Same
    BY <1>1, <1>9 DEF CommandStep, CommandCrash, RequestPauseOrResume, RequestCancel,
          Supersede, SaveCommand, MarkApplied, CheckRunStatus, UpdateRunStatus, CommandEvent
  <1>10. CASE UNCHANGED vars
    BY <1>1, <1>10 DEF vars
  <1>11. CASE Next
    BY <1>4, <1>5, <1>6, <1>7, <1>8, <1>9, <1>11 DEF Next
  <1>12. QED
    BY <1>10, <1>11

\* The command being applied is a requested one, and its second event never that
\* of a resume.
LEMMA NextApplied ==
    ASSUME TypeOK, AcceptedIsRequested, AppliedCommand, [Next]_vars
    PROVE  AppliedCommand'
  <1> SUFFICES ASSUME NEW w \in Workers, pc'[w] \in {"applyMark", "applyEvent", "applyEvent2"}
               PROVE  /\ wcmd'[w] \in Commands
                      /\ cmd'[wcmd'[w]].pc # "idle"
                      /\ pc'[w] = "applyEvent2" => cmd'[wcmd'[w]].type # "resume"
    BY DEF AppliedCommand
  <1>1. CASE pc'[w] = pc[w] /\ wcmd'[w] = wcmd[w]
    BY <1>1, RequestedForGood DEF AppliedCommand
  <1>2. CASE ApplyChoose(w)
    <2>1. pc'[w] \in {"failing", "applyMark"}
      BY <1>2 DEF ApplyChoose, Goto, TypeOK
    <2>2. pc'[w] = "applyMark"
      BY <2>1
    <2>3. PICK c \in NextLifecycle(wrun[w]) : wcmd' = [wcmd EXCEPT ![w] = c]
      BY <1>2, <2>2 DEF ApplyChoose, Goto, TypeOK
    <2>4. c \in Commands /\ cmd[c].row = "accepted" /\ wcmd'[w] = c
      BY <2>3 DEF NextLifecycle, Pending, TypeOK
    <2>5. cmd[c].pc # "idle"
      BY <2>4 DEF AcceptedIsRequested
    <2>6. QED
      BY <2>2, <2>4, <2>5, RequestedForGood
  <1>3. CASE ApplyMark(w)
    <2>1. pc[w] = "applyMark" /\ pc'[w] = "applyEvent" /\ wcmd'[w] = wcmd[w]
      BY <1>3 DEF ApplyMark, Goto, KeepClaim, TypeOK
    <2>2. QED
      BY <2>1, RequestedForGood DEF AppliedCommand
  <1>4. CASE ApplyEvent(w)
    <2>1. /\ pc[w] = "applyEvent" /\ pc'[w] = "applyEvent2" /\ wcmd'[w] = wcmd[w]
          /\ cmd[wcmd[w]].type # "resume"
      BY <1>4 DEF ApplyEvent, Goto, KeepClaim, Return, TypeOK
    <2>2. QED
      BY <2>1, RequestedForGood DEF AppliedCommand
  <1>5. ASSUME WorkerStep(w), ~ApplyChoose(w), ~ApplyMark(w), ~ApplyEvent(w)
        PROVE  pc'[w] = pc[w] /\ wcmd'[w] = wcmd[w]
    <2>1. CASE Progress(w) \/ AcceptSource(w) \/ RecordUnknown(w) \/ MintSafeRetry(w)
      BY <2>1 DEF Progress, AcceptSource, RecordUnknown, MintSafeRetry, workerVars
    <2>2. CASE \/ ExecutorStarting(w) \/ ReadCheckpoint(w) \/ Resumed(w) \/ ResumeFailed(w)
               \/ RuntimeStart(w) \/ WriteCheckpoint(w) \/ CheckpointEvent(w)
               \/ SourceRefused(w) \/ RuntimeEnds(w) \/ LaneBusy(w) \/ Complete(w)
               \/ ExecutorFailed(w) \/ EventRefused(w)
      BY <2>2 DEF ExecutorStarting, ReadCheckpoint, Resumed, ResumeFailed, RuntimeStart,
            WriteCheckpoint, CheckpointEvent, SourceRefused, RuntimeEnds, LaneBusy,
            Complete, ExecutorFailed, EventRefused, Goto, TypeOK
    <2>3. CASE YieldForReconciliation(w) \/ Release(w) \/ WorkerFailed(w)
      BY <2>3 DEF YieldForReconciliation, Release, WorkerFailed, Return, Goto, TypeOK
    <2>4. QED
      BY <1>5, <2>1, <2>2, <2>3 DEF WorkerStep
  <1>6. CASE HeartbeatLost(w) \/ Crash(w) \/ \E r \in Runs : Claim(w, r)
    BY <1>6 DEF HeartbeatLost, Crash, Claim, Goto, TypeOK
  <1>7. QED
    BY <1>1, <1>2, <1>3, <1>4, <1>5, <1>6, OthersKeep

-----------------------------------------------------------------------------
(* Executing runs.                                                         *)

\* How a run comes to be shown as executing: it was, its holder says so without
\* touching its row, or it is claimed.
LEMMA BecomesExecuting ==
    ASSUME RefInv, [Next]_vars, NEW r \in Runs, status'[r] \in Executing
    PROVE  \/ status[r] \in Executing
           \/ \E w \in Workers : /\ WorkerStep(w) /\ wrun[w] = r /\ Holds(w)
                                /\ UNCHANGED <<lease, latest>>
           \/ \E w \in Workers : Claim(w, r)
  <1> DEFINE Other == \A s \in Runs : status'[s] \in Executing => status[s] \in Executing
  <1>1. ASSUME NEW s, NEW to, to \notin Executing, status' = [status EXCEPT ![s] = to]
        PROVE  status[r] \in Executing
    BY <1>1 DEF RefInv, TypeOK
  <1>2. ASSUME NEW w \in Workers, WorkerStep(w)
        PROVE  \/ status[r] \in Executing
               \/ /\ wrun[w] = r /\ Holds(w)
                  /\ UNCHANGED <<lease, latest>>
    <2>1. ASSUME NEW to, ExecutorEvent(w, to)
          PROVE  \/ status[r] \in Executing
                 \/ wrun[w] = r /\ Holds(w) /\ UNCHANGED <<lease, latest>>
      BY <2>1 DEF ExecutorEvent, RefInv, TypeOK
    <2>2. CASE \/ ExecutorStarting(w) \/ Resumed(w) \/ ResumeFailed(w) \/ RuntimeStart(w)
               \/ Progress(w) \/ CheckpointEvent(w) \/ LaneBusy(w) \/ Complete(w)
               \/ ExecutorFailed(w) \/ ApplyEvent(w)
      BY <2>1, <2>2 DEF ExecutorStarting, Resumed, ResumeFailed, RuntimeStart, Progress,
            CheckpointEvent, LaneBusy, Complete, ExecutorFailed, ApplyEvent
    <2>3. CASE \/ ReadCheckpoint(w) \/ WriteCheckpoint(w) \/ AcceptSource(w)
               \/ SourceRefused(w) \/ RecordUnknown(w) \/ MintSafeRetry(w)
               \/ RuntimeEnds(w) \/ EventRefused(w) \/ Release(w)
               \/ ApplyChoose(w) \/ ApplyMark(w)
      BY <2>3 DEF ReadCheckpoint, WriteCheckpoint, AcceptSource, SourceRefused,
            RecordUnknown, MintSafeRetry, RuntimeEnds, EventRefused, Release, ApplyChoose,
            ApplyMark, runVars
    <2>4. CASE YieldForReconciliation(w)
      BY <1>1, <2>4 DEF YieldForReconciliation, Executing
    <2>5. CASE WorkerFailed(w)
      BY <2>1, <2>5 DEF WorkerFailed, runVars
    <2>6. QED
      BY <1>2, <2>2, <2>3, <2>4, <2>5 DEF WorkerStep
  <1>3. ASSUME NEW s \in Runs,
               \/ AcceptRun(s) \/ WaitElapses(s) \/ OtherEvent(s) \/ RecoveryStep(s)
               \/ \E a \in Attempts : LeaseOverdue(s, a) \/ ExpireLease(s, a)
        PROVE  status[r] \in Executing
    <2>1. CASE AcceptRun(s) \/ ResolveAttention(s)
      BY <1>1, <2>1 DEF AcceptRun, ResolveAttention, Executing
    <2>2. ASSUME NEW a \in Attempts, SettleRun(s, a)
          PROVE  status[r] \in Executing
      <3>1. PICK v : status' = [status EXCEPT ![s] = RecoveryTarget(status[s], v)]
        BY <2>2 DEF SettleRun
      <3>2. RecoveryTarget(status[s], v) \notin Executing
        BY DEF RecoveryTarget, Executing
      <3>3. QED
        BY <1>1, <3>1, <3>2
    <2>3. QED
      BY <1>3, <2>1, <2>2 DEF RecoveryStep, WaitElapses, OtherEvent, NoOwnerReconcile,
         SettleLeaseOnly, LeaseOverdue, ExpireLease
  <1>4. ASSUME NEW c \in Commands, CommandStep(c) \/ CommandCrash(c)
        PROVE  status[r] \in Executing
    <2>1. CASE UpdateRunStatus(c)
      <3>1. RequestedStatus(c) \notin Executing
        BY DEF RequestedStatus, Executing
      <3>2. QED
        BY <1>1, <2>1, <3>1 DEF UpdateRunStatus
    <2>2. CASE ~UpdateRunStatus(c)
      BY <1>4, <2>2 DEF CommandStep, CommandCrash, RequestPauseOrResume, RequestCancel,
         Supersede, SaveCommand, MarkApplied, CheckRunStatus, CommandEvent, runVars
    <2>3. QED
      BY <2>1, <2>2
  <1>5. ASSUME NEW w \in Workers, Heartbeat(w) \/ HeartbeatLost(w) \/ Crash(w)
        PROVE  status[r] \in Executing
    BY <1>5 DEF Heartbeat, HeartbeatLost, Crash, runVars
  <1>6. ASSUME NEW w \in Workers, NEW s \in Runs, Claim(w, s), s # r
        PROVE  status[r] \in Executing
    BY <1>6 DEF Claim, RefInv, TypeOK
  <1>7. CASE UNCHANGED vars
    BY <1>7 DEF vars, runVars
  <1>8. CASE Next
    BY <1>2, <1>3, <1>4, <1>5, <1>6, <1>8 DEF Next
  <1>9. QED
    BY <1>7, <1>8

\* While a run is shown as executing its rows are closed by nobody but the clock:
\* a release comes after the run has left that status, and recovery moves it.
LEMMA ExecutingRow ==
    ASSUME RecoveryInv, [Next]_vars, NEW r \in Runs, NEW a \in Attempts,
           status[r] \in Executing, status'[r] \in Executing,
           lease[r][a] \in OpenLease \cup {"expired"}
    PROVE  lease'[r][a] \in OpenLease \cup {"expired"}
  <1> USE DEF RecoveryInv, RefInv
  <1>1. ASSUME NEW s, NEW b, NEW to \in OpenLease \cup {"expired"},
               lease' = [lease EXCEPT ![s][b] = to]
        PROVE  lease'[r][a] \in OpenLease \cup {"expired"}
    BY <1>1 DEF TypeOK
  <1>2. ASSUME NEW s, NEW b, NEW to, lease' = [lease EXCEPT ![s][b] = to], s # r
        PROVE  lease'[r][a] = lease[r][a]
    BY <1>2 DEF TypeOK
  <1>3. ASSUME NEW w \in Workers, Release(w), lease' # lease
        PROVE  wrun[w] # r
    BY <1>3 DEF Release, LeavingIsShown, ReleaseLabel
  <1>4. ASSUME NEW w \in Workers, YieldForReconciliation(w), lease' # lease
        PROVE  wrun[w] # r
    BY <1>4 DEF YieldForReconciliation, TypeOK, Executing
  <1>5. ASSUME NEW w \in Workers, WorkerStep(w)
        PROVE  lease'[r][a] \in OpenLease \cup {"expired"}
    <2>1. CASE lease' = lease
      BY <2>1
    <2>2. CASE Release(w) /\ lease' # lease
      BY <1>2, <1>3, <2>2 DEF Release, CloseLease
    <2>3. CASE YieldForReconciliation(w) /\ lease' # lease
      <3>1. lease' = [lease EXCEPT ![wrun[w]][watt[w]] = "revoked"]
        BY <2>3 DEF YieldForReconciliation, CloseLease
      <3>2. QED
        BY <1>2, <1>4, <2>3, <3>1
    <2>4. QED
      BY <1>5, <2>1, <2>2, <2>3 DEF WorkerStep, ExecutorStarting, ReadCheckpoint, Resumed,
         ResumeFailed, RuntimeStart, Progress, WriteCheckpoint, CheckpointEvent,
         AcceptSource, SourceRefused, RecordUnknown, MintSafeRetry, RuntimeEnds, LaneBusy,
         Complete, ExecutorFailed, WorkerFailed, EventRefused, ApplyChoose, ApplyMark,
         ApplyEvent, ExecutorEvent, runVars
  <1>6. ASSUME NEW w \in Workers, Heartbeat(w) \/ HeartbeatLost(w) \/ Crash(w)
        PROVE  lease'[r][a] \in OpenLease \cup {"expired"}
    BY <1>1, <1>6 DEF Heartbeat, HeartbeatLost, Crash, CloseLease, OpenLease, runVars
  <1>7. ASSUME NEW w \in Workers, NEW s \in Runs, Claim(w, s)
        PROVE  lease'[r][a] \in OpenLease \cup {"expired"}
    BY <1>1, <1>7 DEF Claim, OpenLease
  <1>8. ASSUME NEW s \in Runs, NEW b \in Attempts, SettleRun(s, b)
        PROVE  s # r
    <2>1. PICK v : status' = [status EXCEPT ![s] = RecoveryTarget(status[s], v)]
      BY <1>8 DEF SettleRun
    <2>2. RecoveryTarget(status[s], v) \notin Executing
      BY DEF RecoveryTarget, Executing
    <2>3. QED
      BY <2>1, <2>2 DEF TypeOK
  <1>9. ASSUME NEW s \in Runs, NEW b \in Attempts,
               SettleRun(s, b) \/ SettleLeaseOnly(s, b) \/ ExpireLease(s, b)
                   \/ LeaseOverdue(s, b)
        PROVE  lease'[r][a] \in OpenLease \cup {"expired"}
    <2>1. CASE SettleRun(s, b)
      <3>1. lease' = [lease EXCEPT ![s][b] = "settled"]
        BY <2>1 DEF SettleRun
      <3>2. QED
        BY <1>2, <1>8, <2>1, <3>1
    <2>2. CASE SettleLeaseOnly(s, b) \/ ExpireLease(s, b)
      BY <1>1, <2>2 DEF SettleLeaseOnly, ExpireLease
    <2>3. CASE LeaseOverdue(s, b)
      BY <1>1, <2>3 DEF LeaseOverdue, OpenLease
    <2>4. QED
      BY <1>9, <2>1, <2>2, <2>3
  <1>10. ASSUME NEW s \in Runs,
                \/ AcceptRun(s) \/ WaitElapses(s) \/ OtherEvent(s)
                \/ ResolveAttention(s) \/ NoOwnerReconcile(s)
         PROVE  lease' = lease
    BY <1>10 DEF AcceptRun, WaitElapses, OtherEvent, ResolveAttention, NoOwnerReconcile
  <1>11. ASSUME NEW c \in Commands, CommandStep(c) \/ CommandCrash(c)
         PROVE  lease' = lease
    BY <1>11 DEF CommandStep, CommandCrash, RequestPauseOrResume, RequestCancel, Supersede,
       SaveCommand, MarkApplied, CheckRunStatus, UpdateRunStatus, CommandEvent, runVars
  <1>12. CASE UNCHANGED vars
    BY <1>12 DEF vars, runVars
  <1>13. CASE Next
    BY <1>5, <1>6, <1>7, <1>9, <1>10, <1>11, <1>13 DEF Next, RecoveryStep
  <1>14. QED
    BY <1>12, <1>13

\* The row of an executing run stays where recovery finds it.
LEMMA NextExecuting ==
    ASSUME RecoveryInv, [Next]_vars
    PROVE  ExecutingRunIsRecoverable'
  <1> SUFFICES ASSUME NEW r \in Runs, status'[r] \in Executing
               PROVE  /\ latest'[r] \in Attempts
                      /\ lease'[r][latest'[r]] \in OpenLease \cup {"expired"}
    BY DEF ExecutingRunIsRecoverable, Executing, Attempts
  <1>1. CASE \E w \in Workers : Claim(w, r)
    <2>1. PICK w \in Workers : Claim(w, r)
      BY <1>1
    <2>2. latest[r] + 1 \in Attempts
      BY <2>1, MaxAttemptsAssumption DEF Claim, RecoveryInv, RefInv, TypeOK, Attempts
    <2>3. latest'[r] = latest[r] + 1 /\ lease'[r][latest[r] + 1] = "active"
      BY <2>1, <2>2 DEF Claim, RecoveryInv, RefInv, TypeOK
    <2>4. QED
      BY <2>2, <2>3 DEF OpenLease
  <1>2. ASSUME NEW w \in Workers, wrun[w] = r, Holds(w), UNCHANGED <<lease, latest>>
        PROVE  /\ latest'[r] \in Attempts
               /\ lease'[r][latest'[r]] \in OpenLease \cup {"expired"}
    BY <1>2 DEF Holds, RecoveryInv, RefInv, LeaseInv, SingleActiveLease
  <1>3. CASE status[r] \in Executing
    <2>1. latest[r] \in Attempts /\ lease[r][latest[r]] \in OpenLease \cup {"expired"}
      BY <1>3 DEF RecoveryInv, ExecutingRunIsRecoverable, Executing
    <2>2. latest'[r] = latest[r]
      <3>1. CASE NoClaim
        BY <3>1 DEF NoClaim
      <3>2. ASSUME NEW w \in Workers, NEW s \in Runs, Claim(w, s)
            PROVE  latest'[r] = latest[r]
        <4>1. s # r
          BY <1>3, <3>2 DEF Claim, Runnable, Executing
        <4>2. QED
          BY <3>2, <4>1 DEF Claim, RecoveryInv, RefInv, TypeOK
      <3>3. QED
        BY <3>1, <3>2, ClaimOrNot DEF RecoveryInv, RefInv
    <2>3. QED
      BY <1>3, <2>1, <2>2, ExecutingRow
  <1>4. QED
    BY <1>1, <1>2, <1>3, BecomesExecuting DEF RecoveryInv

\* A holder whose claim is untouched held its row before the step.
LEMMA HeldBefore ==
    ASSUME RefInv, [Next]_vars, NEW w \in Workers,
           wrun'[w] = wrun[w], watt'[w] = watt[w], Holds(w)'
    PROVE  Holds(w)
  <1>1. watt[w] \in Attempts /\ watt[w] # 0
    BY DEF Holds, Attempts
  <1>2. wrun[w] \in Runs /\ watt[w] <= latest[wrun[w]]
    BY <1>1 DEF RefInv, LeaseInv, ClaimIsMinted
  <1>3. CASE NoClaim
    BY <1>1, <1>2, <1>3, RowMoveRows DEF Holds, NoClaim, RefInv
  <1>4. ASSUME NEW v \in Workers, NEW s \in Runs, Claim(v, s)
        PROVE  Holds(w)
    <2>1. lease'[wrun[w]][watt[w]] = lease[wrun[w]][watt[w]]
      <3>1. CASE s = wrun[w]
        <4>1. watt[w] # latest[s] + 1
          BY <1>1, <1>2, <3>1, MaxAttemptsAssumption DEF RefInv, TypeOK, Attempts
        <4>2. QED
          BY <1>1, <1>2, <1>4, <3>1, <4>1 DEF Claim, RefInv, TypeOK
      <3>2. CASE s # wrun[w]
        BY <1>2, <1>4, <3>2 DEF Claim, RefInv, TypeOK
      <3>3. QED
        BY <3>1, <3>2
    <2>2. QED
      BY <1>1, <2>1 DEF Holds, Attempts
  <1>5. QED
    BY <1>3, <1>4, ClaimOrNot DEF RefInv

\* A worker about to release has said so, and nobody else can show its run as
\* executing again.
LEMMA NextLeaving ==
    ASSUME RecoveryInv, [Next]_vars
    PROVE  LeavingIsShown'
  <1> SUFFICES ASSUME NEW w \in Workers, pc'[w] \in ReleaseLabel, Holds(w)'
               PROVE  status'[wrun'[w]] \notin Executing
    BY DEF LeavingIsShown
  <1> USE DEF RecoveryInv
  <1>1. ASSUME ~(WorkerStep(w) \/ HeartbeatLost(w) \/ Crash(w)), \A r \in Runs : ~Claim(w, r)
        PROVE  status'[wrun'[w]] \notin Executing
    <2>1. pc'[w] = pc[w] /\ wrun'[w] = wrun[w] /\ watt'[w] = watt[w]
      BY <1>1, OthersKeep DEF RefInv
    <2>2. Holds(w)
      BY <2>1, HeldBefore
    <2>3. status[wrun[w]] \notin Executing
      BY <2>1, <2>2 DEF LeavingIsShown
    <2>4. wrun[w] \in Runs /\ HasActiveLease(wrun[w]) /\ RunOwner[wrun[w]] = {w}
      BY <2>2, SoleOwner
    <2>5. ASSUME NEW v \in Workers, WorkerStep(v), wrun[v] = wrun[w], Holds(v)
          PROVE  FALSE
      <3>1. RunOwner[wrun[v]] = {v}
        BY <2>5, SoleOwner
      <3>2. v = w
        BY <2>4, <2>5, <3>1
      <3>3. QED
        BY <1>1, <2>5, <3>2
    <2>6. ASSUME NEW v \in Workers, Claim(v, wrun[w])
          PROVE  FALSE
      BY <2>4, <2>6 DEF Claim, Runnable
    <2>7. QED
      BY <2>1, <2>3, <2>4, <2>5, <2>6, BecomesExecuting
  <1>2. ASSUME WorkerStep(w)
        PROVE  status'[wrun'[w]] \notin Executing
    <2>1. ASSUME NEW to, to \notin Executing, ExecutorEvent(w, to), KeepClaim
          PROVE  status'[wrun'[w]] \notin Executing
      <3>1. wrun[w] \in Runs
        BY <2>1, SoleOwner DEF ExecutorEvent
      <3>2. QED
        BY <2>1, <3>1 DEF ExecutorEvent, KeepClaim, RefInv, TypeOK
    <2>2. CASE LaneBusy(w) \/ Complete(w) \/ ExecutorFailed(w) \/ ResumeFailed(w)
      BY <2>1, <2>2 DEF LaneBusy, Complete, ExecutorFailed, ResumeFailed, Executing
    <2>3. CASE WorkerFailed(w)
      BY <2>1, <2>3 DEF WorkerFailed, Return, Goto, Executing, ReleaseLabel, RefInv, TypeOK
    <2>4. CASE ApplyEvent(w)
      <3>1. pc'[w] = "applyRelease" /\ pc[w] = "applyEvent2" /\ KeepClaim
        BY <2>4 DEF ApplyEvent, Return, Goto, ReleaseLabel, RefInv, TypeOK
      <3>2. cmd[wcmd[w]].type \in {"pause", "cancel"}
        BY <3>1 DEF AppliedCommand, AcceptedIsRequested, CommandTypes
      <3>3. EventTarget(w) \notin Executing
        BY <3>1, <3>2 DEF EventTarget, AppliedStatus, Executing
      <3>4. QED
        BY <2>1, <2>4, <3>1, <3>3 DEF ApplyEvent
    <2>5. CASE \/ ExecutorStarting(w) \/ ReadCheckpoint(w) \/ Resumed(w)
               \/ RuntimeStart(w) \/ WriteCheckpoint(w) \/ CheckpointEvent(w)
               \/ SourceRefused(w) \/ RuntimeEnds(w) \/ EventRefused(w)
               \/ ApplyChoose(w) \/ ApplyMark(w) \/ YieldForReconciliation(w) \/ Release(w)
      BY <2>5 DEF ExecutorStarting, ReadCheckpoint, Resumed, RuntimeStart, WriteCheckpoint,
         CheckpointEvent, SourceRefused, RuntimeEnds, EventRefused, ApplyChoose, ApplyMark,
         YieldForReconciliation, Release, Return, Goto, ReleaseLabel, RefInv, TypeOK
    <2>6. CASE Progress(w) \/ AcceptSource(w) \/ RecordUnknown(w) \/ MintSafeRetry(w)
      BY <2>6 DEF Progress, AcceptSource, RecordUnknown, MintSafeRetry, ReleaseLabel,
         workerVars
    <2>7. QED
      BY <1>2, <2>2, <2>3, <2>4, <2>5, <2>6 DEF WorkerStep
  <1>3. ASSUME HeartbeatLost(w) \/ Crash(w) \/ \E r \in Runs : Claim(w, r)
        PROVE  FALSE
    BY <1>3 DEF HeartbeatLost, Crash, Claim, Goto, ReleaseLabel, RefInv, TypeOK
  <1>4. QED
    BY <1>1, <1>2, <1>3

-----------------------------------------------------------------------------
(* The theorems.                                                           *)

\* RefInv is inductive: types, leases, parked runs and idle workers.
LEMMA NextRef == RefInv /\ [Next]_vars => RefInv'
  BY NextType, NextLease, NextParked, NextIdle, NextCommandRun DEF RefInv

\* At first nothing is executing, leaving or applied.
LEMMA InitRecovery == Init => RecoveryInv
  <1> SUFFICES ASSUME Init
               PROVE  RecoveryInv
    OBVIOUS
  <1>1. RefInv
    BY InitType, InitLease DEF RefInv, Init, ParkedForAttention, IdleHasNoClaim,
       CommandHasRun, IdleCommand
  <1>2. ExecutingRunIsRecoverable
    BY DEF Init, ExecutingRunIsRecoverable
  <1>3. LeavingIsShown /\ AppliedCommand
    BY DEF Init, LeavingIsShown, AppliedCommand, ReleaseLabel
  <1>4. AcceptedIsRequested
    BY DEF Init, AcceptedIsRequested, IdleCommand
  <1>5. QED
    BY <1>1, <1>2, <1>3, <1>4 DEF RecoveryInv

\* RecoveryInv is inductive.
LEMMA NextRecovery == RecoveryInv /\ [Next]_vars => RecoveryInv'
  <1> SUFFICES ASSUME RecoveryInv, [Next]_vars
               PROVE  RecoveryInv'
    OBVIOUS
  <1>1. RefInv'
    BY NextRef DEF RecoveryInv
  <1>2. AcceptedIsRequested' /\ AppliedCommand'
    BY NextAccepted, NextApplied DEF RecoveryInv, RefInv
  <1>3. QED
    BY <1>1, <1>2, NextExecuting, NextLeaving DEF RecoveryInv

\* A run shown as executing has a lease that is open, or expired and still to be
\* settled: whatever its worker was doing when it died, recovery finds it.
THEOREM ExecutingRunsAreRecoverable == Spec => []ExecutingRunIsRecoverable
  <1>1. RecoveryInv => ExecutingRunIsRecoverable
    BY DEF RecoveryInv
  <1>2. QED
    BY <1>1, InitRecovery, NextRecovery, PTL DEF Spec

\* Only write_checkpoint_v2 moves the checkpoint.
LEMMA CheckpointMoves ==
    ASSUME [Next]_vars, ckpt' # ckpt
    PROVE  \E w \in Workers : WriteCheckpoint(w)
  <1>1. ASSUME NEW w \in Workers, WorkerStep(w), ~WriteCheckpoint(w)
        PROVE  ckpt' = ckpt
    BY <1>1 DEF WorkerStep, ExecutorStarting, ReadCheckpoint, Resumed, ResumeFailed,
       RuntimeStart, Progress, CheckpointEvent, AcceptSource, SourceRefused, RecordUnknown,
       MintSafeRetry, RuntimeEnds, LaneBusy, Complete, ExecutorFailed,
       YieldForReconciliation, Release, WorkerFailed, EventRefused, ApplyChoose, ApplyMark,
       ApplyEvent, ExecutorEvent, runVars
  <1>2. ASSUME NEW r \in Runs,
               \/ AcceptRun(r) \/ WaitElapses(r) \/ OtherEvent(r) \/ RecoveryStep(r)
               \/ \E a \in Attempts : LeaseOverdue(r, a) \/ ExpireLease(r, a)
               \/ \E w \in Workers : Claim(w, r)
        PROVE  ckpt' = ckpt
    BY <1>2 DEF AcceptRun, WaitElapses, OtherEvent, RecoveryStep, LeaseOverdue, ExpireLease,
       SettleLeaseOnly, SettleRun, ResolveAttention, NoOwnerReconcile, Claim
  <1>3. ASSUME NEW w \in Workers, Heartbeat(w) \/ HeartbeatLost(w) \/ Crash(w)
        PROVE  ckpt' = ckpt
    BY <1>3 DEF Heartbeat, HeartbeatLost, Crash, runVars
  <1>4. ASSUME NEW c \in Commands, CommandStep(c) \/ CommandCrash(c)
        PROVE  ckpt' = ckpt
    BY <1>4 DEF CommandStep, CommandCrash, RequestPauseOrResume, RequestCancel, Supersede,
       SaveCommand, MarkApplied, CheckRunStatus, UpdateRunStatus, CommandEvent, runVars
  <1>5. CASE UNCHANGED vars
    BY <1>5 DEF vars, runVars
  <1>6. CASE Next
    BY <1>1, <1>2, <1>3, <1>4, <1>6 DEF Next
  <1>7. QED
    BY <1>5, <1>6

\* The writer of a checkpoint holds the newest attempt of its run: an executor
\* that lost its lease is refused by _require_active_executor.
THEOREM CheckpointsComeFromTheOwner == Spec => CheckpointByOwner
  <1>1. RefInv /\ [Next]_vars =>
            [\A r \in Runs : ckpt'[r] # ckpt[r] =>
                \E w \in Workers :
                    wrun[w] = r /\ watt[w] = latest[r] /\ pc'[w] # pc[w]]_vars
    <2> SUFFICES ASSUME RefInv, [Next]_vars, NEW r \in Runs, ckpt'[r] # ckpt[r]
                 PROVE  \E w \in Workers :
                            wrun[w] = r /\ watt[w] = latest[r] /\ pc'[w] # pc[w]
      OBVIOUS
    <2>1. PICK w \in Workers : WriteCheckpoint(w)
      BY CheckpointMoves
    <2>2. wrun[w] = r
      BY <2>1 DEF WriteCheckpoint, RefInv, TypeOK
    <2>3. watt[w] = latest[r]
      BY <2>1, <2>2 DEF WriteCheckpoint, Holds, RefInv, LeaseInv, SingleActiveLease
    <2>4. pc'[w] # pc[w]
      BY <2>1 DEF WriteCheckpoint, Goto, RefInv, TypeOK
    <2>5. QED
      BY <2>2, <2>3, <2>4
  <1>2. Init => RefInv
    BY InitRecovery DEF RecoveryInv
  <1>3. QED
    BY <1>1, <1>2, NextRef, PTL DEF Spec, CheckpointByOwner

\* The completion of a run is written by the holder of its newest attempt.
THEOREM CompletionsComeFromTheOwner == Spec => CompletedByOwner
  <1>1. RefInv /\ [Next]_vars =>
            [\A r \in Runs : status'[r] = "completed" /\ status[r] # "completed" =>
                \E w \in Workers :
                    wrun[w] = r /\ watt[w] = latest[r] /\ Holds(w)]_vars
    <2> SUFFICES ASSUME RefInv, [Next]_vars, NEW r \in Runs,
                        status'[r] = "completed", status[r] # "completed"
                 PROVE  \E w \in Workers :
                            wrun[w] = r /\ watt[w] = latest[r] /\ Holds(w)
      OBVIOUS
    <2>1. RunPhase[r] # "completed" /\ RunPhase'[r] = "completed"
      BY DEF RunPhase, PhaseOf
    <2>2. Ownership!OwnershipNext
      BY <2>1, StepImplements DEF AbstractStep, Ownership!ownershipVars
    <2>3. RunPhase \in [Runs -> {"absent", "live", "parked", "completed", "stopped"}]
      BY DEF RunPhase, PhaseOf
    <2>4. PICK w \in Workers : Ownership!Completed(w, r)
      BY <2>1, <2>2, <2>3 DEF Ownership!OwnershipNext, Ownership!Forgotten,
         Ownership!Accepted, Ownership!Decided, Ownership!Closed, Ownership!Granted, Ownership!Written, Ownership!Completed
    <2>5. wrun[w] = r /\ Holds(w)
      BY <2>4 DEF Ownership!Completed, RunOwner, Owner
    <2>6. watt[w] = latest[r]
      BY <2>5 DEF Holds, RefInv, LeaseInv, SingleActiveLease
    <2>7. QED
      BY <2>5, <2>6
  <1>2. Init => RefInv
    BY InitRecovery DEF RecoveryInv
  <1>3. QED
    BY <1>1, <1>2, NextRef, PTL DEF Spec, CompletedByOwner
=============================================================================
