-------------------------- MODULE BridgeLifecycle --------------------------
(***************************************************************************)
(* Who owns the browser bridge.  The application's supervisor object       *)
(* (wtscli_lifecycle_supervisor.py) spawns one sidecar process and watches *)
(* it from a thread; the sidecar (wtscli_lifecycle_sidecar.mjs) claims the *)
(* owner lock, spawns the bridge daemon and watches that.  Sidecars and    *)
(* daemons are numbered in the order they are spawned.  An application may *)
(* die, or end, and be launched again; a sidecar may die or hang and a     *)
(* daemon die or stop answering.  A status file is stale when its writer   *)
(* has written nothing for longer than the heartbeat timeout.              *)
(***************************************************************************)
EXTENDS Naturals, FiniteSets

CONSTANTS
    RestartBudget,   \* WTSCLI_SUPERVISOR_RESTART_BUDGET
    MaxRestarts,     \* maxRestarts of the sidecar
    MaxLaunches,     \* bound on the launches of the application
    MaxFaults        \* bound on the deaths and hangs of processes

ASSUME BudgetAssumption ==
    /\ RestartBudget \in Nat /\ MaxRestarts \in Nat /\ MaxFaults \in Nat
    /\ MaxLaunches \in Nat \ {0}

\* One sidecar more than a launch may spawn, so that a breach can be seen.
Sidecars == 1 .. (MaxLaunches * (RestartBudget + 2))
\* A daemon after the first of a launch replaces one that a fault took.
Daemons == 1 .. (MaxLaunches + MaxFaults)

VARIABLES
    app,       \* the owner of the supervisor: "down", "starting" (start() waits
               \* for the owner lock), "up", "stopping" (shutdown()), "off", "dead"
    launch,    \* number of the current application: its pid and lifecycle id
    process, restarts, failure,  \* _process, _sidecar_restart_count and
               \* _watchdog_failure_reason of the supervisor
    watch,     \* the watchdog thread: "none", "watching", "replacing" (stops the
               \* old process), "spawning", "awaiting" (both under the state
               \* lock), "discarding" (stops the new one)
    victim,    \* the sidecar that _stop_process of app or watchdog works on
    sidecar,   \* state of each sidecar: "left" exited, "killed" by _stop_process,
               \* "gone" died
    master,    \* the application that spawned each sidecar (parentPid)
    hung,      \* sidecars that answer nothing any more
    child, ended,  \* the daemon each sidecar owns, and the one it waits to see dead
    backoff,   \* sidecars with a pendingRestart
    exits,     \* restartCount of each sidecar
    attention, \* sidecars with an attentionReason
    daemon,    \* state of each daemon
    parent,    \* the sidecar that spawned each daemon
    record,    \* the daemon of the ownership record, 0 without one
    lock,      \* supervisorPid in the owner lock, 0 without the file
    control,   \* lifecycleId of the shutdown request, 0 without the file
    faults

supervisor == <<process, restarts, failure>>
application == <<app, launch, supervisor, watch, victim>>
own == <<child, ended, backoff, exits, attention>>
daemons == <<daemon, parent, record>>
vars == <<application, sidecar, master, hung, own, daemons, lock, control, faults>>

TypeOK ==
    /\ app \in {"down", "starting", "up", "stopping", "off", "dead"}
    /\ launch \in 1 .. MaxLaunches
    /\ process \in Sidecars \cup {0} /\ restarts \in 0 .. (RestartBudget + 1)
    /\ failure \in {"none", "replacing", "failed", "exhausted"}
    /\ watch \in {"none", "watching", "replacing", "spawning", "awaiting", "discarding"}
    /\ victim \in [{"app", "watchdog"} -> Sidecars \cup {0}]
    /\ sidecar \in [Sidecars -> {"absent", "born", "booting", "running", "leaving", "left", "killed", "gone"}]
    /\ master \in [Sidecars -> 0 .. MaxLaunches]
    /\ hung \in SUBSET Sidecars /\ backoff \in SUBSET Sidecars
    /\ attention \in SUBSET Sidecars
    /\ child \in [Sidecars -> Daemons \cup {0}] /\ ended \in [Sidecars -> Daemons \cup {0}]
    /\ exits \in [Sidecars -> 0 .. (MaxRestarts + 1)]
    /\ daemon \in [Daemons -> {"absent", "starting", "listening", "mute", "gone"}]
    /\ parent \in [Daemons -> Sidecars \cup {0}] /\ record \in Daemons \cup {0}
    /\ lock \in Sidecars \cup {0} /\ control \in 0 .. MaxLaunches
    /\ faults \in 0 .. MaxFaults

Init ==
    /\ app = "down" /\ launch = 1
    /\ process = 0 /\ restarts = 0 /\ failure = "none"
    /\ watch = "none" /\ victim = [t \in {"app", "watchdog"} |-> 0]
    /\ sidecar = [s \in Sidecars |-> "absent"] /\ master = [s \in Sidecars |-> 0]
    /\ hung = {} /\ backoff = {} /\ attention = {} /\ exits = [s \in Sidecars |-> 0]
    /\ child = [s \in Sidecars |-> 0] /\ ended = [s \in Sidecars |-> 0]
    /\ daemon = [d \in Daemons |-> "absent"] /\ parent = [d \in Daemons |-> 0]
    /\ record = 0 /\ lock = 0 /\ control = 0 /\ faults = 0

-----------------------------------------------------------------------------
(* Processes.                                                              *)

SidecarAlive(s) == s # 0 /\ sidecar[s] \notin {"absent", "left", "killed", "gone"}
Responsive(s) == SidecarAlive(s) /\ s \notin hung
DaemonAlive(d) == d # 0 /\ daemon[d] \notin {"absent", "gone"}

\* poll() of the process the supervisor holds
Exited == process # 0 /\ ~SidecarAlive(process)

\* A sidecar writes its status from the loop of monitor(): not while it hangs or
\* stops a daemon.
Stale(s) == SidecarAlive(s) /\ (s \in hung \/ ended[s] # 0)

Smallest(S) == CHOOSE x \in S : \A y \in S : x <= y
NextSidecar == Smallest({s \in Sidecars : sidecar[s] = "absent"})
NextDaemon == Smallest({d \in Daemons : daemon[d] = "absent"})

\* getDaemonHealth: something listens on the bridge's port.
Listening == \E d \in Daemons : daemon[d] = "listening"

\* Mutant of StaleLock: a lock is taken without looking at its owner.
StaleLockAlways == TRUE

\* _remove_stale_owner_lock refuses the lock of a live process.
StaleLock == ~SidecarAlive(lock)

\* parentPid of the sidecar is gone.
ParentDead(s) == master[s] < launch \/ app = "dead"

-----------------------------------------------------------------------------
(* The supervisor: start, shutdown and the watchdog.                       *)

\* _spawn_sidecar
Spawn ==
    /\ sidecar' = [sidecar EXCEPT ![NextSidecar] = "born"]
    /\ master' = [master EXCEPT ![NextSidecar] = launch]
    /\ process' = NextSidecar

\* start() until the sidecar is spawned
Start ==
    /\ app = "down" /\ StaleLock
    /\ Spawn
    /\ app' = "starting" /\ lock' = 0
    /\ UNCHANGED <<launch, restarts, failure, watch, victim, hung, own, daemons, control, faults>>

\* The lock is held by a live process: start() raises.
StartRefused ==
    /\ app = "down" /\ ~StaleLock
    /\ app' = "off"
    /\ UNCHANGED <<launch, supervisor, watch, victim, sidecar, master, hung, own, daemons, lock, control, faults>>

\* _wait_for_sidecar_owner succeeds.
Started ==
    /\ app = "starting" /\ lock = process
    /\ app' = "up" /\ watch' = "watching"
    /\ UNCHANGED <<launch, supervisor, victim, sidecar, master, hung, own, daemons, lock, control, faults>>

\* The sidecar died or claimed nothing in time: _reset_failed_start.
StartFails ==
    /\ app = "starting" /\ lock # process
    /\ Exited \/ process \in hung
    /\ victim' = [victim EXCEPT !["app"] = process]
    /\ process' = 0 /\ app' = "stopping"
    /\ UNCHANGED <<launch, restarts, failure, watch, sidecar, master, hung, own, daemons, lock, control, faults>>

\* shutdown(): the watchdog is told to stop and loses the process.
Shutdown ==
    /\ app = "up" /\ watch \notin {"spawning", "awaiting"}
    /\ app' = "stopping" /\ victim' = [victim EXCEPT !["app"] = process]
    /\ process' = 0
    /\ control' = IF SidecarAlive(process) THEN launch ELSE control
    /\ UNCHANGED <<launch, restarts, failure, watch, sidecar, master, hung, own, daemons, lock, faults>>

ShutdownDone ==
    /\ app = "stopping" /\ ~SidecarAlive(victim["app"])
    /\ app' = "off" /\ victim' = [victim EXCEPT !["app"] = 0]
    /\ UNCHANGED <<launch, supervisor, watch, sidecar, master, hung, own, daemons, lock, control, faults>>

\* The application's process ends, with all its threads, and another starts.
Relaunch ==
    /\ app \in {"off", "dead"} /\ launch < MaxLaunches
    /\ launch' = launch + 1 /\ app' = "down"
    /\ process' = 0 /\ restarts' = 0 /\ failure' = "none"
    /\ watch' = "none" /\ victim' = [t \in {"app", "watchdog"} |-> 0]
    /\ UNCHANGED <<sidecar, master, hung, own, daemons, lock, control, faults>>

\* Mutant of Notice: the budget is looked at only in the second section.
NoticeUnbounded ==
    /\ watch = "watching" /\ app = "up"
    /\ process = 0 \/ Exited \/ Stale(process)
    /\ restarts' = restarts + 1 /\ failure' = "replacing"
    /\ victim' = [victim EXCEPT !["watchdog"] = process]
    /\ process' = 0 /\ watch' = "replacing"
    /\ UNCHANGED <<app, launch, sidecar, master, hung, own, daemons, lock, control, faults>>

\* Mutant of Notice: only a process that exited is noticed.
NoticeExit ==
    /\ watch = "watching" /\ app = "up"
    /\ Exited
    /\ IF restarts > RestartBudget
         THEN failure' = "exhausted" /\ UNCHANGED <<process, restarts, watch, victim>>
         ELSE /\ restarts' = restarts + 1 /\ failure' = "replacing"
              /\ victim' = [victim EXCEPT !["watchdog"] = process]
              /\ process' = 0 /\ watch' = "replacing"
    /\ UNCHANGED <<app, launch, sidecar, master, hung, own, daemons, lock, control, faults>>

\* _watchdog_loop notices a missing, dead or silent sidecar: first section of
\* _recover_sidecar.
Notice ==
    /\ watch = "watching" /\ app = "up"
    /\ process = 0 \/ Exited \/ Stale(process)
    /\ IF restarts > RestartBudget
         THEN failure' = "exhausted" /\ UNCHANGED <<process, restarts, watch, victim>>
         ELSE /\ restarts' = restarts + 1 /\ failure' = "replacing"
              /\ victim' = [victim EXCEPT !["watchdog"] = process]
              /\ process' = 0 /\ watch' = "replacing"
    /\ UNCHANGED <<app, launch, sidecar, master, hung, own, daemons, lock, control, faults>>

\* Mutant of Respawn: the budget is not looked at again after the increment.
RespawnOverBudget ==
    /\ watch = "replacing" /\ ~SidecarAlive(victim["watchdog"])
    /\ victim' = [victim EXCEPT !["watchdog"] = 0]
    /\ watch' = IF app # "up" THEN "none" ELSE "spawning"
    /\ UNCHANGED <<app, launch, supervisor, sidecar, master, hung, own, daemons, lock, control, faults>>

\* Its second section, once the old process is dead.
Respawn ==
    /\ watch = "replacing" /\ ~SidecarAlive(victim["watchdog"])
    /\ victim' = [victim EXCEPT !["watchdog"] = 0]
    /\ CASE app # "up" -> watch' = "none" /\ UNCHANGED failure
         [] app = "up" /\ restarts > RestartBudget -> watch' = "watching" /\ failure' = "exhausted"
         [] OTHER -> watch' = "spawning" /\ UNCHANGED failure
    /\ UNCHANGED <<app, launch, process, restarts, sidecar, master, hung, own, daemons, lock, control, faults>>

SpawnReplacement ==
    /\ watch = "spawning"
    /\ IF StaleLock THEN Spawn /\ lock' = 0 /\ watch' = "awaiting" /\ UNCHANGED failure
                    ELSE /\ failure' = "failed" /\ watch' = "watching"
                         /\ UNCHANGED <<process, sidecar, master, lock>>
    /\ UNCHANGED <<app, launch, restarts, victim, hung, own, daemons, control, faults>>

Replaced ==
    /\ watch = "awaiting" /\ lock = process
    /\ watch' = "watching" /\ failure' = "none"
    /\ UNCHANGED <<app, launch, process, restarts, victim, sidecar, master, hung, own, daemons, lock, control, faults>>

\* The state lock is released before the new process is stopped.
ReplacementFails ==
    /\ watch = "awaiting" /\ lock # process
    /\ Exited \/ process \in hung
    /\ victim' = [victim EXCEPT !["watchdog"] = process]
    /\ process' = 0 /\ failure' = "failed" /\ watch' = "discarding"
    /\ UNCHANGED <<app, launch, restarts, sidecar, master, hung, own, daemons, lock, control, faults>>

Discarded ==
    /\ watch = "discarding" /\ ~SidecarAlive(victim["watchdog"])
    /\ watch' = "watching" /\ victim' = [victim EXCEPT !["watchdog"] = 0]
    /\ UNCHANGED <<app, launch, supervisor, sidecar, master, hung, own, daemons, lock, control, faults>>

WatchdogStops ==
    /\ watch = "watching" /\ app \in {"stopping", "off"}
    /\ watch' = "none"
    /\ UNCHANGED <<app, launch, supervisor, victim, sidecar, master, hung, own, daemons, lock, control, faults>>

\* _stop_process: terminate() reaches the sidecar's handler, or ends a sidecar
\* that has installed none.
Terminate(t) ==
    LET s == victim[t] IN
    /\ Responsive(s) /\ sidecar[s] # "leaving"
    /\ sidecar' = [sidecar EXCEPT ![s] = IF @ = "born" THEN "gone" ELSE "leaving"]
    /\ UNCHANGED <<application, master, hung, own, daemons, lock, control, faults>>

\* Mutant of Kill: only the sidecar is killed, not its process group.
KillAlone(t) ==
    LET s == victim[t] IN
    /\ SidecarAlive(s) /\ (s \in hung \/ sidecar[s] = "leaving")
    /\ sidecar' = [sidecar EXCEPT ![s] = "killed"]
    /\ UNCHANGED <<application, master, hung, own, daemons, lock, control, faults>>

\* A sidecar that does not exit in time is killed with its process group.
Kill(t) ==
    LET s == victim[t] IN
    /\ SidecarAlive(s) /\ (s \in hung \/ sidecar[s] = "leaving")
    /\ sidecar' = [sidecar EXCEPT ![s] = "killed"]
    /\ daemon' = [d \in Daemons |-> IF parent[d] = s /\ DaemonAlive(d) THEN "gone" ELSE daemon[d]]
    /\ UNCHANGED <<application, master, hung, own, parent, record, lock, control, faults>>

-----------------------------------------------------------------------------
(* The sidecar.                                                            *)

\* claimSupervisorLock: the lock of a dead process is taken over.
Claim(s) ==
    /\ sidecar[s] = "born" /\ s \notin hung
    /\ IF StaleLock THEN lock' = s /\ sidecar' = [sidecar EXCEPT ![s] = "booting"]
                    ELSE sidecar' = [sidecar EXCEPT ![s] = "gone"] /\ UNCHANGED lock
    /\ UNCHANGED <<application, master, hung, own, daemons, control, faults>>

\* ensureDaemon goes on only if nothing listens and, by prepareDaemonOwnership,
\* the daemon of the record is dead.
Prepared == ~Listening /\ ~DaemonAlive(record)

\* ensureDaemon, at boot or when the restart timer fires.  At boot a failure ends
\* the sidecar with exit code 70; later it is latched as needing attention.
EnsureDaemon(s) ==
    /\ Responsive(s)
    /\ sidecar[s] = "booting" \/ (sidecar[s] = "running" /\ s \in backoff)
    /\ backoff' = backoff \ {s}
    /\ \/ /\ Prepared
          /\ daemon' = [daemon EXCEPT ![NextDaemon] = "starting"]
          /\ parent' = [parent EXCEPT ![NextDaemon] = s]
          /\ record' = NextDaemon
          /\ child' = [child EXCEPT ![s] = NextDaemon]
          /\ sidecar' = [sidecar EXCEPT ![s] = "running"]
          /\ UNCHANGED <<attention, lock, faults>>
       \/ /\ ~Prepared \/ faults < MaxFaults   \* a launch that fails is a fault
          /\ faults' = IF Prepared THEN faults + 1 ELSE faults
          /\ attention' = attention \cup {s}
          /\ IF sidecar[s] = "booting"
               THEN /\ sidecar' = [sidecar EXCEPT ![s] = "left"]
                    /\ lock' = IF lock = s THEN 0 ELSE lock
               ELSE UNCHANGED <<sidecar, lock>>
          /\ UNCHANGED <<child, daemons>>
    /\ UNCHANGED <<application, master, hung, ended, exits, control>>

\* Mutant of ChildExit: a daemon that died is forgotten, not restarted.
ChildExitForgotten(s) ==
    /\ Responsive(s) /\ sidecar[s] = "running"
    /\ child[s] # 0 /\ ~DaemonAlive(child[s])
    /\ child' = [child EXCEPT ![s] = 0]
    /\ UNCHANGED <<application, sidecar, master, hung, ended, backoff, exits, attention, daemons, lock, control, faults>>

\* handleChildExit of a daemon the sidecar still owns
ChildExit(s) ==
    /\ Responsive(s) /\ sidecar[s] = "running"
    /\ child[s] # 0 /\ ~DaemonAlive(child[s])
    /\ child' = [child EXCEPT ![s] = 0]
    /\ record' = IF record = child[s] THEN 0 ELSE record
    /\ exits' = [exits EXCEPT ![s] = @ + 1]
    /\ IF exits'[s] > MaxRestarts THEN attention' = attention \cup {s} /\ UNCHANGED backoff
                                 ELSE backoff' = backoff \cup {s} /\ UNCHANGED attention
    /\ UNCHANGED <<application, sidecar, master, hung, ended, daemon, parent, lock, control, faults>>

\* monitor() stops a daemon that is alive and does not listen (in time):
\* stopOwnedChild forgets it at once and waits for its exit, which then counts as
\* nobody's.
ListenerTimeout(s) ==
    /\ Responsive(s) /\ sidecar[s] = "running" /\ s \notin attention
    /\ child[s] # 0 /\ daemon[child[s]] = "mute"
    /\ ended' = [ended EXCEPT ![s] = child[s]]
    /\ child' = [child EXCEPT ![s] = 0]
    /\ UNCHANGED <<application, sidecar, master, hung, backoff, exits, attention, daemons, lock, control, faults>>

\* The daemon ends on the request, on SIGTERM or on SIGKILL.
EndedExits(s) ==
    /\ Responsive(s) /\ sidecar[s] = "running" /\ ended[s] # 0
    /\ daemon' = [daemon EXCEPT ![ended[s]] = "gone"]
    /\ ended' = [ended EXCEPT ![s] = 0]
    /\ UNCHANGED <<application, sidecar, master, hung, child, backoff, exits, attention, parent, record, lock, control, faults>>

\* Mutant of Requested: a request of an earlier application is obeyed too.
RequestedByAnyone(s) == control # 0

\* controlRequestsShutdown: only a request of this lifecycle counts.
Requested(s) == control = master[s]

\* Mutant of Obey: the sidecar does not watch its parent.
ObeyRequestOnly(s) ==
    /\ Responsive(s) /\ sidecar[s] = "running" /\ ended[s] = 0
    /\ Requested(s)
    /\ control' = 0
    /\ sidecar' = [sidecar EXCEPT ![s] = "leaving"]
    /\ UNCHANGED <<application, master, hung, own, daemons, lock, faults>>

\* monitor() shuts down on the request or when the parent is gone.
Obey(s) ==
    /\ Responsive(s) /\ sidecar[s] = "running" /\ ended[s] = 0
    /\ Requested(s) \/ ParentDead(s)
    /\ control' = IF Requested(s) THEN 0 ELSE control
    /\ sidecar' = [sidecar EXCEPT ![s] = "leaving"]
    /\ UNCHANGED <<application, master, hung, own, daemons, lock, faults>>

\* shutdown(): the owned daemon is stopped, the record and the lock are given up.
\* A daemon that is already being stopped is not waited for.
Leave(s) ==
    /\ Responsive(s) /\ sidecar[s] = "leaving"
    /\ daemon' = [d \in Daemons |-> IF d = child[s] THEN "gone" ELSE daemon[d]]
    /\ record' = IF record # 0 /\ parent[record] = s THEN 0 ELSE record
    /\ lock' = IF lock = s THEN 0 ELSE lock
    /\ sidecar' = [sidecar EXCEPT ![s] = "left"]
    /\ backoff' = backoff \ {s} /\ attention' = attention \ {s}
    /\ UNCHANGED <<application, master, hung, child, ended, exits, parent, control, faults>>

-----------------------------------------------------------------------------
(* Daemons and faults.                                                     *)

DaemonListens(d) ==
    /\ daemon[d] = "starting" /\ ~Listening
    /\ daemon' = [daemon EXCEPT ![d] = "listening"]
    /\ UNCHANGED <<application, sidecar, master, hung, own, parent, record, lock, control, faults>>

Fault == faults < MaxFaults /\ faults' = faults + 1

DaemonDies(d) ==
    /\ Fault /\ DaemonAlive(d)
    /\ daemon' = [daemon EXCEPT ![d] = "gone"]
    /\ UNCHANGED <<application, sidecar, master, hung, own, parent, record, lock, control>>

\* It is alive and no longer, or never, answers on its port.
DaemonMutes(d) ==
    /\ Fault /\ daemon[d] \in {"starting", "listening"}
    /\ daemon' = [daemon EXCEPT ![d] = "mute"]
    /\ UNCHANGED <<application, sidecar, master, hung, own, parent, record, lock, control>>

SidecarDies(s) ==
    /\ Fault /\ SidecarAlive(s)
    /\ sidecar' = [sidecar EXCEPT ![s] = "gone"]
    /\ UNCHANGED <<application, master, hung, own, daemons, lock, control>>

SidecarHangs(s) ==
    /\ Fault /\ Responsive(s)
    /\ hung' = hung \cup {s}
    /\ UNCHANGED <<application, sidecar, master, own, daemons, lock, control>>

\* The application dies with its threads.
AppDies ==
    /\ Fault /\ app \in {"starting", "up", "stopping"}
    /\ app' = "dead" /\ process' = 0
    /\ watch' = "none" /\ victim' = [t \in {"app", "watchdog"} |-> 0]
    /\ UNCHANGED <<launch, restarts, failure, sidecar, master, hung, own, daemons, lock, control>>

-----------------------------------------------------------------------------
AppStep == Start \/ StartRefused \/ Started \/ StartFails \/ ShutdownDone
           \/ Terminate("app") \/ Kill("app")
WatchdogStep == Notice \/ Respawn \/ SpawnReplacement \/ Replaced \/ ReplacementFails
                \/ Discarded \/ WatchdogStops \/ Terminate("watchdog") \/ Kill("watchdog")
SidecarStep(s) == Claim(s) \/ EnsureDaemon(s) \/ ChildExit(s) \/ ListenerTimeout(s)
                  \/ EndedExits(s) \/ Obey(s) \/ Leave(s)

Next ==
    \/ AppStep \/ WatchdogStep \/ Shutdown \/ Relaunch \/ AppDies
    \/ \E s \in Sidecars : SidecarStep(s) \/ SidecarDies(s) \/ SidecarHangs(s)
    \/ \E d \in Daemons : DaemonListens(d) \/ DaemonDies(d) \/ DaemonMutes(d)

\* Threads and processes that run make progress; nothing makes the application
\* shut down or be launched again.
Fairness ==
    /\ WF_vars(AppStep) /\ WF_vars(WatchdogStep)
    /\ \A s \in Sidecars : WF_vars(SidecarStep(s))
    /\ \A d \in Daemons : WF_vars(DaemonListens(d))

Spec == Init /\ [][Next]_vars
FairSpec == Spec /\ Fairness

-----------------------------------------------------------------------------
(* Properties.                                                             *)

\* No two sidecars own the bridge at a time: between a launch and the one before,
\* and between a watchdog's replacement and the sidecar it replaces, the lock
\* keeps them apart (claimSupervisorLock, _remove_stale_owner_lock).
OneOwner ==
    \A r, s \in Sidecars :
        sidecar[r] \in {"booting", "running", "leaving"} /\ sidecar[s] \in {"booting", "running", "leaving"}
            => r = s

\* The number of sidecars a launch spawns is bounded by the restart budget
\* (_recover_sidecar looks at the budget before and after it counts).
SpawnsWithinBudget ==
    \A l \in 1 .. MaxLaunches :
        Cardinality({s \in Sidecars : master[s] = l}) <= RestartBudget + 1

\* A daemon outlives the sidecar that spawned it only if that sidecar died by
\* itself or left while it was stopping this very daemon: a sidecar that is told
\* to leave, or is killed by its supervisor, takes its daemon with it.
LeavesNoDaemon ==
    \A d \in Daemons :
        DaemonAlive(d) /\ sidecar[parent[d]] \in {"left", "killed"}
            => sidecar[parent[d]] = "left" /\ ended[parent[d]] = d

\* The sidecar the running supervisor relies on was not told to leave: not by a
\* request an earlier application left in the control file, nor by a watchdog that
\* works on the one before.
NoStrayShutdown == app = "up" /\ process # 0 => sidecar[process] # "leaving"

\* While the application is up, a sidecar that died or fell silent is replaced, or
\* the supervisor reports that its budget is exhausted.
SidecarIsReplaced ==
    (app = "up" /\ (process = 0 \/ Exited \/ Stale(process)))
        ~> (app # "up" \/ failure = "exhausted" \/ (process # 0 /\ Responsive(process)))

\* A sidecar whose application died does not stay behind, unless it hangs.
DeathReaps ==
    \A s \in Sidecars : (SidecarAlive(s) /\ ParentDead(s)) ~> (~SidecarAlive(s) \/ s \in hung)

\* A daemon that dies under its sidecar is restarted or its loss is reported.
DaemonIsRestarted ==
    \A s \in Sidecars :
        (sidecar[s] = "running" /\ child[s] # 0 /\ ~DaemonAlive(child[s]))
            ~> (sidecar[s] # "running" \/ s \in hung \/ s \in attention \/ DaemonAlive(child[s]) \/ ended[s] # 0)
=============================================================================
