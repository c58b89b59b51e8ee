----------------------- MODULE BridgeLifecycleProofs -----------------------
(***************************************************************************)
(* Proofs about BridgeLifecycle for any restart budgets and any number of  *)
(* launches and faults: who owns the bridge, how many sidecars a launch    *)
(* spawns, which daemons are left behind, and who is told to leave.        *)
(*                                                                         *)
(* The invariant has four parts.  LockInv: an owner of the bridge is named *)
(* in the lock.  SpawnInv: the sidecars of a launch against its restart    *)
(* counter, and hence that there is always a sidecar number left.          *)
(* DaemonInv: which daemon a sidecar accounts for.  ProcessInv: the        *)
(* supervisor's process is nobody's victim.  The types need more:          *)
(* SupplyInv counts the daemons against the launches and the faults, so    *)
(* that there is always a daemon number left, ExitInv the exits of a       *)
(* sidecar.                                                                *)
(***************************************************************************)
EXTENDS BridgeLifecycle, FiniteSetTheorems, WellFoundedInduction, TLAPS

SidecarState == {"absent", "born", "booting", "running", "leaving", "left", "killed", "gone"}
DaemonState == {"absent", "starting", "listening", "mute", "gone"}
Owning == {"booting", "running", "leaving"}

\* The part of the types the proofs rest on.
Shape ==
    /\ launch \in 1 .. MaxLaunches /\ restarts \in 0 .. (RestartBudget + 1)
    /\ sidecar \in [Sidecars -> SidecarState]
    /\ master \in [Sidecars -> 0 .. MaxLaunches]
    /\ daemon \in [Daemons -> DaemonState]
    /\ parent \in [Daemons -> Sidecars \cup {0}]
    /\ child = [s \in Sidecars |-> child[s]] /\ ended = [s \in Sidecars |-> ended[s]]
    /\ victim = [t \in {"app", "watchdog"} |-> victim[t]]
    /\ \A t \in {"app", "watchdog"} : victim[t] \in Sidecars \cup {0}

LockInv == \A s \in Sidecars : sidecar[s] \in Owning => lock = s

Spawned(l) == {s \in Sidecars : master[s] = l}
Used == {s \in Sidecars : master[s] # 0}

SpawnInv ==
    /\ \A s \in Sidecars : master[s] <= launch
    /\ \A s \in Sidecars : sidecar[s] = "absent" <=> master[s] = 0
    /\ app = "down" => watch = "none" /\ Spawned(launch) = {}
    /\ Cardinality(Spawned(launch)) <= restarts + 1
    /\ watch \in {"replacing", "spawning"} => Cardinality(Spawned(launch)) <= restarts
    /\ watch = "spawning" => restarts <= RestartBudget
    /\ SpawnsWithinBudget
    /\ Cardinality(Used) <= (launch - 1) * (RestartBudget + 1) + Cardinality(Spawned(launch))

AliveHasParent == \A d \in Daemons : DaemonAlive(d) => parent[d] \in Sidecars

AliveIsAccounted ==
    \A d \in Daemons :
        DaemonAlive(d) /\ sidecar[parent[d]] \in {"absent", "born"} \cup Owning
            => child[parent[d]] = d \/ ended[parent[d]] = d

UnbornOwnsNothing ==
    \A s \in Sidecars :
        sidecar[s] \in {"absent", "born", "booting"} => child[s] = 0 /\ ended[s] = 0 /\ s \notin backoff

OneAtATime ==
    \A s \in Sidecars :
        /\ ended[s] # 0 => child[s] = 0 /\ s \notin backoff
        /\ s \in backoff => child[s] = 0

DaemonInv == AliveHasParent /\ AliveIsAccounted /\ LeavesNoDaemon /\ UnbornOwnsNothing /\ OneAtATime

ProcessInv ==
    /\ process # 0 => /\ process \in Sidecars
                      /\ sidecar[process] # "leaving" /\ master[process] = launch
                      /\ \A t \in {"app", "watchdog"} : victim[t] # process
                      /\ app \in {"starting", "up"}
    /\ \A t \in {"app", "watchdog"} : victim[t] # 0 => sidecar[victim[t]] # "absent"
    /\ watch \in {"spawning", "awaiting"} => app = "up"
    /\ control \in 0 .. launch
    /\ app \in {"down", "starting", "up"} => control # launch

IInv == Shape /\ LockInv /\ SpawnInv /\ DaemonInv /\ ProcessInv

-----------------------------------------------------------------------------
(* Sidecar numbers.                                                        *)

\* The numbers are an initial segment of the naturals, positive, and finitely many.
LEMMA SidecarNumbers ==
    /\ IsFiniteSet(Sidecars) /\ Sidecars \subseteq Nat \ {0}
    /\ Cardinality(Sidecars) = MaxLaunches * (RestartBudget + 2)
  <1> DEFINE N == MaxLaunches * (RestartBudget + 2)
  <1>1. N \in Nat
    BY BudgetAssumption
  <1>2. Sidecars = 1 .. N
    BY DEF Sidecars
  <1> HIDE DEF N
  <1>3. /\ IsFiniteSet(1 .. N)
        /\ Cardinality(1 .. N) = IF 1 > N THEN 0 ELSE N - 1 + 1
    BY <1>1, FS_Interval
  <1>4. Cardinality(1 .. N) = N
    BY <1>1, <1>3
  <1>5. 1 .. N \subseteq Nat \ {0}
    BY <1>1
  <1>6. QED
    BY <1>2, <1>3, <1>4, <1>5 DEF N

\* The smallest member of a set of sidecar numbers is one of them.
LEMMA SmallestIsMember ==
    ASSUME NEW S, S \subseteq Nat, S # {}
    PROVE  Smallest(S) \in S
  <1> DEFINE R == {ss \in Nat \X Nat : ss[1] < ss[2]}
  <1>1. IsWellFoundedOn(R, Nat)
    BY NatLessThanWellFounded DEF OpToRel
  <1>2. \A m, n \in Nat : n < m => <<n, m>> \in R
    OBVIOUS
  <1> HIDE DEF R
  <1>3. PICK x \in S : \A y \in S : ~(<<y, x>> \in R)
    BY <1>1, WFMin
  <1>4. x \in Nat /\ \A y \in S : y \in Nat /\ ~(y < x)
    BY <1>2, <1>3
  <1>5. \A y \in S : x <= y
    BY <1>4
  <1>6. QED
    BY <1>3, <1>5 DEF Smallest

\* The launches so far have not used up the sidecar numbers: _spawn_sidecar
\* always gets one of its own.
LEMMA SidecarLeft ==
    ASSUME Shape, SpawnInv
    PROVE  NextSidecar \in Sidecars /\ sidecar[NextSidecar] = "absent" /\ master[NextSidecar] = 0
  <1> DEFINE B == RestartBudget + 1
             c == Cardinality(Spawned(launch))
  <1>1. B \in Nat /\ MaxLaunches \in Nat \ {0} /\ launch \in 1 .. MaxLaunches
    BY BudgetAssumption DEF Shape
  <1>2. Used \subseteq Sidecars /\ Spawned(launch) \subseteq Sidecars
    BY DEF Used, Spawned
  <1>3. Cardinality(Used) \in Nat /\ c \in Nat
    BY <1>2, SidecarNumbers, FS_Subset, FS_CardinalityType
  <1>4. c <= B /\ Cardinality(Used) <= (launch - 1) * B + c
    BY <1>1 DEF SpawnInv, SpawnsWithinBudget, Spawned
  <1>5. Cardinality(Sidecars) = MaxLaunches * (B + 1)
    BY BudgetAssumption, SidecarNumbers
  <1> HIDE DEF B, c
  <1>6. launch * B <= MaxLaunches * B
    BY <1>1
  <1>7. /\ (launch - 1) * B + B = launch * B
        /\ MaxLaunches * (B + 1) = MaxLaunches * B + MaxLaunches
        /\ (launch - 1) * B \in Int /\ launch * B \in Int /\ MaxLaunches * B \in Int
    BY <1>1
  <1>8. Cardinality(Used) < Cardinality(Sidecars)
    BY <1>1, <1>3, <1>4, <1>5, <1>6, <1>7
  <1>9. PICK s \in Sidecars : master[s] = 0
    BY <1>2, <1>8, <1>3 DEF Used
  <1>10. {r \in Sidecars : sidecar[r] = "absent"} # {}
    BY <1>9 DEF SpawnInv
  <1>11. NextSidecar \in {r \in Sidecars : sidecar[r] = "absent"}
    <2>1. {r \in Sidecars : sidecar[r] = "absent"} \subseteq Nat
      BY SidecarNumbers
    <2>2. QED
      BY <2>1, <1>10, SmallestIsMember DEF NextSidecar
  <1>12. QED
    BY <1>11 DEF SpawnInv

-----------------------------------------------------------------------------
(* The initial state, and what every step keeps of the types.              *)

\* Before the first launch there is nothing.
LEMMA InitHolds == Init => IInv
  <1> SUFFICES ASSUME Init PROVE IInv
    OBVIOUS
  <1>1. Shape
    BY BudgetAssumption DEF Init, Shape, SidecarState, DaemonState
  <1>2. LockInv
    BY DEF Init, LockInv, Owning
  <1>3. SpawnInv
    <2>1. \A l \in 1 .. MaxLaunches : Spawned(l) = {}
      BY DEF Init, Spawned
    <2>2. Used = {}
      BY DEF Init, Used
    <2>3. Cardinality({}) = 0
      BY FS_EmptySet
    <2>4. 1 \in 1 .. MaxLaunches
      BY BudgetAssumption
    <2>5. SpawnsWithinBudget
      BY <2>1, <2>3, BudgetAssumption DEF SpawnsWithinBudget, Spawned
    <2>6. launch = 1 /\ 0 * (RestartBudget + 1) = 0
      BY BudgetAssumption DEF Init
    <2>7. Cardinality(Spawned(launch)) = 0 /\ Spawned(launch) = {} /\ Cardinality(Used) = 0
      BY <2>1, <2>2, <2>3, <2>4, <2>6
    <2>8. QED
      BY <2>5, <2>6, <2>7, BudgetAssumption DEF Init, SpawnInv
  <1>4. DaemonInv
    BY DEF Init, DaemonInv, AliveHasParent, AliveIsAccounted, UnbornOwnsNothing, OneAtATime,
           DaemonAlive, LeavesNoDaemon
  <1>5. ProcessInv
    BY DEF Init, ProcessInv
  <1>6. QED
    BY <1>1, <1>2, <1>3, <1>4, <1>5 DEF IInv

\* The types of what the other parts speak about.
LEMMA ShapeKeeps == IInv /\ [Next]_vars => Shape'
  <1> SUFFICES ASSUME IInv, [Next]_vars PROVE Shape'
    OBVIOUS
  <1> USE BudgetAssumption DEF Shape, IInv
  <1>1. CASE Start
    BY <1>1, SidecarLeft DEF Start, Spawn, own, daemons, SidecarState
  <1>2. ASSUME StartFails \/ Shutdown \/ ShutdownDone PROVE Shape'
    BY <1>2 DEF StartFails, Shutdown, ShutdownDone, own, daemons, ProcessInv, supervisor
  <1>3. CASE Relaunch
    BY <1>3 DEF Relaunch, own, daemons
  <1>4. CASE Notice
    BY <1>4 DEF Notice, own, daemons, ProcessInv
  <1>5. CASE Respawn
    BY <1>5 DEF Respawn, own, daemons
  <1>6. CASE SpawnReplacement
    BY <1>6, SidecarLeft DEF SpawnReplacement, Spawn, own, daemons, SidecarState
  <1>7. ASSUME ReplacementFails \/ Discarded \/ AppDies PROVE Shape'
    BY <1>7 DEF ReplacementFails, Discarded, AppDies, own, daemons, ProcessInv, supervisor
  <1>8. ASSUME NEW t \in {"app", "watchdog"}, Terminate(t) PROVE Shape'
    BY <1>8 DEF Terminate, application, supervisor, own, daemons, SidecarState
  <1>9. ASSUME NEW t \in {"app", "watchdog"}, Kill(t) PROVE Shape'
    BY <1>9 DEF Kill, application, supervisor, own, SidecarState, DaemonState
  <1>10. ASSUME NEW s \in Sidecars, Claim(s) PROVE Shape'
    BY <1>10 DEF Claim, application, supervisor, own, daemons, SidecarState
  <1>11. ASSUME NEW s \in Sidecars, EnsureDaemon(s) PROVE Shape'
    BY <1>11 DEF EnsureDaemon, application, supervisor, daemons, SidecarState, DaemonState
  <1>12. ASSUME NEW s \in Sidecars, ChildExit(s) \/ ListenerTimeout(s) PROVE Shape'
    BY <1>12 DEF ChildExit, ListenerTimeout, application, supervisor, daemons
  <1>13. ASSUME NEW s \in Sidecars, EndedExits(s) PROVE Shape'
    BY <1>13 DEF EndedExits, application, supervisor, DaemonState
  <1>14. ASSUME NEW s \in Sidecars, Obey(s) \/ SidecarDies(s) PROVE Shape'
    BY <1>14 DEF Obey, SidecarDies, application, supervisor, own, daemons, SidecarState
  <1>15. ASSUME NEW s \in Sidecars, Leave(s) PROVE Shape'
    BY <1>15 DEF Leave, application, supervisor, SidecarState, DaemonState
  <1>16. ASSUME NEW d \in Daemons, DaemonListens(d) \/ DaemonDies(d) \/ DaemonMutes(d)
         PROVE  Shape'
    BY <1>16 DEF DaemonListens, DaemonDies, DaemonMutes, application, supervisor, own, DaemonState
  <1>17. ASSUME NEW s \in Sidecars, SidecarHangs(s) PROVE Shape'
    BY <1>17 DEF SidecarHangs, application, supervisor, own, daemons
  <1>18. ASSUME StartRefused \/ Started \/ Replaced \/ WatchdogStops PROVE Shape'
    BY <1>18 DEF StartRefused, Started, Replaced, WatchdogStops, supervisor, own, daemons
  <1>19. CASE UNCHANGED vars
    BY <1>19 DEF vars, application, supervisor, own, daemons
  <1>20. QED
    BY <1>1, <1>2, <1>3, <1>4, <1>5, <1>6, <1>7, <1>8, <1>9, <1>10, <1>11, <1>12, <1>13,
       <1>14, <1>15, <1>16, <1>17, <1>18, <1>19
       DEF Next, AppStep, WatchdogStep, SidecarStep

-----------------------------------------------------------------------------
(* The owner lock.                                                         *)

\* Only claimSupervisorLock makes an owner, and it writes the lock; nobody else
\* writes a lock whose sidecar is alive.
LEMMA LockKeeps == IInv /\ [Next]_vars => LockInv'
  <1> SUFFICES ASSUME IInv, [Next]_vars PROVE LockInv'
    OBVIOUS
  <1> USE DEF LockInv, IInv, Shape, Owning, SidecarState
  <1>1. CASE Start
    BY <1>1, SidecarNumbers DEF Start, Spawn, StaleLock, SidecarAlive
  <1>2. CASE SpawnReplacement
    BY <1>2, SidecarNumbers DEF SpawnReplacement, Spawn, StaleLock, SidecarAlive
  <1>3. ASSUME NEW t \in {"app", "watchdog"}, Terminate(t) \/ Kill(t) PROVE LockInv'
    BY <1>3 DEF Terminate, Kill, Responsive, SidecarAlive
  <1>4. ASSUME NEW s \in Sidecars, Claim(s) PROVE LockInv'
    BY <1>4, SidecarNumbers DEF Claim, StaleLock, SidecarAlive
  <1>5. ASSUME NEW s \in Sidecars, EnsureDaemon(s) PROVE LockInv'
    BY <1>5 DEF EnsureDaemon
  <1>6. ASSUME NEW s \in Sidecars, Obey(s) \/ Leave(s) \/ SidecarDies(s) PROVE LockInv'
    BY <1>6 DEF Obey, Leave, SidecarDies
  <1>7. CASE UNCHANGED <<sidecar, lock>>
    BY <1>7
  <1>8. QED
    BY <1>1, <1>2, <1>3, <1>4, <1>5, <1>6, <1>7
       DEF Next, AppStep, WatchdogStep, SidecarStep, StartRefused, Started, StartFails,
           ShutdownDone, Shutdown, Relaunch, AppDies, Notice, Respawn, Replaced,
           ReplacementFails, Discarded, WatchdogStops, ChildExit, ListenerTimeout, EndedExits,
           SidecarHangs, DaemonListens, DaemonDies, DaemonMutes, vars

-----------------------------------------------------------------------------
(* The restart budget.                                                     *)

\* The sidecars of a launch are finitely many.
LEMMA SpawnedFinite ==
    ASSUME NEW l
    PROVE  /\ IsFiniteSet(Spawned(l)) /\ Cardinality(Spawned(l)) \in Nat
           /\ IsFiniteSet(Used) /\ Cardinality(Used) \in Nat
  <1>1. Spawned(l) \subseteq Sidecars /\ Used \subseteq Sidecars
    BY DEF Spawned, Used
  <1>2. QED
    BY <1>1, SidecarNumbers, FS_Subset, FS_CardinalityType

\* A step that spawns nothing, launches nothing and counts no restart.
LEMMA NothingSpawned ==
    ASSUME IInv, UNCHANGED <<master, launch, restarts>>,
           \A s \in Sidecars : sidecar'[s] = "absent" <=> sidecar[s] = "absent",
           app' = "down" => app = "down" /\ watch' = watch,
           watch' \in {"replacing", "spawning"} => watch \in {"replacing", "spawning"},
           watch' = "spawning" => watch = "spawning" \/ restarts <= RestartBudget
    PROVE  SpawnInv'
  <1>1. \A l : Spawned(l)' = Spawned(l)
    BY DEF Spawned
  <1>2. Used' = Used
    BY DEF Used
  <1>3. SpawnsWithinBudget'
    BY DEF SpawnsWithinBudget, SpawnInv, IInv
  <1>4. QED
    BY <1>1, <1>2, <1>3 DEF SpawnInv, IInv

\* _spawn_sidecar adds a number that was not used before to those of its launch.
LEMMA OneSpawned ==
    ASSUME IInv, Spawn, UNCHANGED <<launch, restarts>>,
           app' # "down", watch' \notin {"replacing", "spawning"},
           app = "down" \/ watch = "spawning"
    PROVE  SpawnInv'
  <1> DEFINE n == NextSidecar
             c == Cardinality(Spawned(launch))
  <1>1. n \in Sidecars /\ sidecar[n] = "absent" /\ master[n] = 0
    BY SidecarLeft DEF IInv
  <1>2. launch \in Nat \ {0} /\ launch \in 1 .. MaxLaunches
    BY BudgetAssumption DEF IInv, Shape
  <1>3. /\ master' = [master EXCEPT ![n] = launch]
        /\ sidecar' = [sidecar EXCEPT ![n] = "born"]
    BY DEF Spawn
  <1>4. master \in [Sidecars -> 0 .. MaxLaunches] /\ sidecar \in [Sidecars -> SidecarState]
    BY DEF IInv, Shape
  <1> HIDE DEF n
  <1>5. /\ Spawned(launch)' = Spawned(launch) \cup {n} /\ n \notin Spawned(launch)
        /\ \A l : l # launch => Spawned(l)' = Spawned(l) \/ l = 0
        /\ Used' = Used \cup {n} /\ n \notin Used
    BY <1>1, <1>2, <1>3, <1>4 DEF Spawned, Used
  <1>6. /\ c \in Nat /\ Cardinality(Used) \in Nat
        /\ Cardinality(Spawned(launch) \cup {n}) = c + 1
        /\ Cardinality(Used \cup {n}) = Cardinality(Used) + 1
    BY <1>5, SpawnedFinite, FS_AddElement
  <1>7. \/ c <= restarts /\ restarts <= RestartBudget
        \/ c = 0
    <2>1. CASE watch = "spawning"
      BY <2>1 DEF IInv, SpawnInv
    <2>2. CASE app = "down"
      BY <2>2, FS_EmptySet DEF IInv, SpawnInv, Shape
    <2>3. QED
      BY <2>1, <2>2
  <1>8. restarts \in Nat /\ RestartBudget \in Nat
    BY BudgetAssumption DEF IInv, Shape
  <1>9. Cardinality(Spawned(launch)') <= restarts + 1 /\ Cardinality(Spawned(launch)') <= RestartBudget + 1
    BY <1>5, <1>6, <1>7, <1>8
  <1>10. SpawnsWithinBudget'
    <2> SUFFICES ASSUME NEW l \in 1 .. MaxLaunches
                 PROVE  Cardinality(Spawned(l)') <= RestartBudget + 1
      BY DEF SpawnsWithinBudget, Spawned
    <2>1. CASE l = launch
      BY <2>1, <1>9
    <2>2. CASE l # launch
      <3>1. Cardinality(Spawned(l)) <= RestartBudget + 1
        BY DEF IInv, SpawnInv, SpawnsWithinBudget, Spawned
      <3>2. QED
        BY <2>2, <3>1, <1>5
    <2>3. QED
      BY <2>1, <2>2
  <1>11. Cardinality(Used') <= (launch - 1) * (RestartBudget + 1) + Cardinality(Spawned(launch)')
    <2> DEFINE k == (launch - 1) * (RestartBudget + 1)
    <2>1. k \in Int
      BY <1>2, <1>8
    <2>2. Cardinality(Used) <= k + c
      BY DEF IInv, SpawnInv
    <2> HIDE DEF k, c
    <2>3. QED
      BY <2>1, <2>2, <1>5, <1>6 DEF k
  <1>12. /\ \A s \in Sidecars : master'[s] <= launch
         /\ \A s \in Sidecars : sidecar'[s] = "absent" <=> master'[s] = 0
    BY <1>1, <1>2, <1>3, <1>4 DEF IInv, SpawnInv
  <1>13. Cardinality(Spawned(launch)') = Cardinality(Spawned(launch))' /\ launch' = launch
         /\ restarts' = restarts /\ Cardinality(Used)' = Cardinality(Used')
    OBVIOUS
  <1>14. QED
    BY <1>9, <1>10, <1>11, <1>12, <1>13 DEF SpawnInv

\* The next launch has spawned nothing, and the one before kept its budget.
LEMMA LaunchedAgain == IInv /\ Relaunch => SpawnInv'
  <1> SUFFICES ASSUME IInv, Relaunch PROVE SpawnInv'
    OBVIOUS
  <1> DEFINE B == RestartBudget + 1
             c == Cardinality(Spawned(launch))
  <1>1. /\ B \in Nat /\ launch \in Nat /\ launch' = launch + 1 /\ launch \in 1 .. MaxLaunches
        /\ UNCHANGED <<sidecar, master>> /\ restarts' = 0
        /\ app' = "down" /\ watch' = "none"
    BY BudgetAssumption DEF IInv, Shape, Relaunch
  <1>2. \A s \in Sidecars : master[s] \in Nat /\ master[s] <= launch
    BY DEF IInv, SpawnInv, Shape
  <1>3. \A l : Spawned(l)' = Spawned(l)
    BY <1>1 DEF Spawned
  <1>4. Used' = Used
    BY <1>1 DEF Used
  <1>5. Spawned(launch)' = {}
    BY <1>1, <1>2 DEF Spawned
  <1>6. Cardinality(Spawned(launch))' = 0
    BY <1>5, FS_EmptySet
  <1>7. c \in Nat /\ Cardinality(Used) \in Nat /\ c <= B /\ Cardinality(Used) <= (launch - 1) * B + c
    BY <1>1, SpawnedFinite DEF IInv, SpawnInv, SpawnsWithinBudget, Spawned
  <1> HIDE DEF B, c
  <1>8. (launch - 1) * B + B = launch * B /\ (launch - 1) * B \in Int /\ launch * B \in Int
    BY <1>1
  <1>9. Cardinality(Used') <= (launch' - 1) * B + Cardinality(Spawned(launch))'
    <2>1. Cardinality(Used) <= launch * B
      BY <1>1, <1>7, <1>8
    <2>2. launch' - 1 = launch
      BY <1>1
    <2>3. QED
      BY <2>1, <2>2, <1>4, <1>6, <1>8
  <1>10. SpawnsWithinBudget'
    BY <1>1 DEF IInv, SpawnInv, SpawnsWithinBudget
  <1>11. /\ \A s \in Sidecars : master'[s] <= launch'
         /\ \A s \in Sidecars : sidecar'[s] = "absent" <=> master'[s] = 0
    BY <1>1, <1>2 DEF IInv, SpawnInv
  <1>12. QED
    BY <1>1, <1>5, <1>6, <1>9, <1>10, <1>11 DEF SpawnInv, B

\* _recover_sidecar counts the restart before the old process is stopped.
LEMMA RestartCounted == IInv /\ Notice => SpawnInv'
  <1> SUFFICES ASSUME IInv, Notice PROVE SpawnInv'
    OBVIOUS
  <1>1. CASE restarts > RestartBudget
    <2>1. UNCHANGED <<master, launch, restarts, sidecar, app, watch>>
      BY <1>1 DEF Notice
    <2>2. QED
      BY <2>1, NothingSpawned
  <1>2. CASE ~(restarts > RestartBudget)
    <2>1. /\ UNCHANGED <<master, launch, sidecar, app>> /\ app = "up"
          /\ restarts' = restarts + 1 /\ watch' = "replacing"
      BY <1>2 DEF Notice
    <2>2. /\ Spawned(launch)' = Spawned(launch) /\ Used' = Used
          /\ SpawnsWithinBudget' = SpawnsWithinBudget
      BY <2>1 DEF Spawned, Used, SpawnsWithinBudget
    <2>3. Cardinality(Spawned(launch)) \in Nat /\ restarts \in Nat
      BY BudgetAssumption, SpawnedFinite DEF IInv, Shape
    <2>4. QED
      BY <2>1, <2>2, <2>3 DEF IInv, SpawnInv
  <1>3. QED
    BY <1>1, <1>2

\* Every step keeps the sidecars of a launch within its restart counter.
LEMMA SpawnKeeps == IInv /\ [Next]_vars => SpawnInv'
  <1> SUFFICES ASSUME IInv, [Next]_vars PROVE SpawnInv'
    OBVIOUS
  <1>1. CASE Start
    <2>1. Spawn /\ UNCHANGED <<launch, restarts, watch>> /\ app = "down" /\ app' = "starting"
      BY <1>1 DEF Start
    <2>2. watch = "none"
      BY <2>1 DEF IInv, SpawnInv
    <2>3. QED
      BY <2>1, <2>2, OneSpawned
  <1>2. CASE SpawnReplacement
    <2>1. CASE StaleLock
      <3>1. Spawn /\ UNCHANGED <<launch, restarts, app>> /\ watch = "spawning" /\ watch' = "awaiting"
        BY <1>2, <2>1 DEF SpawnReplacement
      <3>2. app # "down"
        BY <3>1 DEF IInv, SpawnInv
      <3>3. QED
        BY <3>1, <3>2, OneSpawned
    <2>2. CASE ~StaleLock
      <3>1. /\ UNCHANGED <<master, launch, restarts, sidecar, app>>
            /\ watch = "spawning" /\ watch' = "watching"
        BY <1>2, <2>2 DEF SpawnReplacement
      <3>2. app # "down"
        BY <3>1 DEF IInv, SpawnInv
      <3>3. QED
        BY <3>1, <3>2, NothingSpawned
    <2>3. QED
      BY <2>1, <2>2
  <1>3. CASE Relaunch
    BY <1>3, LaunchedAgain
  <1>4. CASE Notice
    BY <1>4, RestartCounted
  <1>5. CASE Respawn
    <2>1. /\ UNCHANGED <<master, launch, restarts, sidecar, app>> /\ watch = "replacing"
          /\ watch' = "spawning" => restarts <= RestartBudget
      BY <1>5, BudgetAssumption DEF Respawn, IInv, Shape
    <2>2. app # "down"
      BY <2>1 DEF IInv, SpawnInv
    <2>3. QED
      BY <2>1, <2>2, NothingSpawned
  <1>6. ASSUME \/ StartRefused \/ Started \/ StartFails \/ ShutdownDone \/ Shutdown \/ AppDies
               \/ Replaced \/ ReplacementFails \/ Discarded \/ WatchdogStops
        PROVE  SpawnInv'
    <2>1. /\ UNCHANGED <<master, launch, restarts, sidecar>>
          /\ app' = "down" => app = "down" /\ watch # "none"
          /\ watch' \in {"none", "watching", "discarding"} \/ watch' = watch
      BY <1>6 DEF StartRefused, Started, StartFails, ShutdownDone, Shutdown, AppDies, Replaced,
                  ReplacementFails, Discarded, WatchdogStops, supervisor
    <2>2. app = "down" => watch = "none"
      BY DEF IInv, SpawnInv
    <2>3. QED
      BY <2>1, <2>2, NothingSpawned
  <1>7. ASSUME NEW t \in {"app", "watchdog"}, Terminate(t) \/ Kill(t) PROVE SpawnInv'
    <2>1. UNCHANGED <<master, launch, restarts, app, watch>>
      BY <1>7 DEF Terminate, Kill, application, supervisor
    <2>2. \A s \in Sidecars : sidecar'[s] = "absent" <=> sidecar[s] = "absent"
      BY <1>7 DEF Terminate, Kill, Responsive, SidecarAlive, IInv, Shape
    <2>3. QED
      BY <2>1, <2>2, NothingSpawned
  <1>8. ASSUME NEW s \in Sidecars,
               SidecarStep(s) \/ SidecarDies(s) \/ SidecarHangs(s)
        PROVE  SpawnInv'
    <2>1. UNCHANGED <<master, launch, restarts, app, watch>>
      BY <1>8 DEF SidecarStep, Claim, EnsureDaemon, ChildExit, ListenerTimeout, EndedExits, Obey,
                  Leave, SidecarDies, SidecarHangs, application, supervisor
    <2>2. \A r \in Sidecars : sidecar'[r] = "absent" <=> sidecar[r] = "absent"
      BY <1>8 DEF SidecarStep, Claim, EnsureDaemon, ChildExit, ListenerTimeout, EndedExits, Obey,
                  Leave, SidecarDies, SidecarHangs, SidecarAlive, Responsive, IInv, Shape
    <2>3. QED
      BY <2>1, <2>2, NothingSpawned
  <1>9. ASSUME UNCHANGED vars \/ \E d \in Daemons : DaemonListens(d) \/ DaemonDies(d) \/ DaemonMutes(d)
        PROVE  SpawnInv'
    <2>1. UNCHANGED <<master, launch, restarts, app, watch, sidecar>>
      BY <1>9 DEF vars, DaemonListens, DaemonDies, DaemonMutes, application, supervisor
    <2>2. QED
      BY <2>1, NothingSpawned
  <1>10. QED
    BY <1>1, <1>2, <1>3, <1>4, <1>5, <1>6, <1>7, <1>8, <1>9 DEF Next, AppStep, WatchdogStep

-----------------------------------------------------------------------------
(* The daemons.                                                            *)

\* A step that starts no daemon, ends no sidecar's account of one, and moves no
\* sidecar to an exit.
LEMMA AccountsKept ==
    ASSUME IInv, UNCHANGED <<sidecar, child, ended, backoff, parent>>,
           \A d \in Daemons : DaemonAlive(d)' => DaemonAlive(d)
    PROVE  DaemonInv'
  BY DEF IInv, DaemonInv, AliveHasParent, AliveIsAccounted, UnbornOwnsNothing, OneAtATime, LeavesNoDaemon

\* Every step keeps a living daemon on the account of its parent.
LEMMA DaemonKeeps == IInv /\ [Next]_vars => DaemonInv'
  <1> SUFFICES ASSUME IInv, [Next]_vars PROVE DaemonInv'
    OBVIOUS
  <1> USE DEF IInv, DaemonInv, AliveHasParent, AliveIsAccounted, UnbornOwnsNothing, OneAtATime,
              LeavesNoDaemon, DaemonAlive, Owning
  <1>1. ASSUME Spawn, UNCHANGED own, UNCHANGED daemons PROVE DaemonInv'
    <2>1. NextSidecar \in Sidecars /\ sidecar[NextSidecar] = "absent"
      BY SidecarLeft
    <2>2. sidecar' = [sidecar EXCEPT ![NextSidecar] = "born"]
      BY <1>1 DEF Spawn
    <2>3. QED
      BY <1>1, <2>1, <2>2 DEF Shape, own, daemons
  <1>2. ASSUME NEW t \in {"app", "watchdog"}, Terminate(t) PROVE DaemonInv'
    <2>1. /\ UNCHANGED <<child, ended, backoff, daemon, parent>>
          /\ \A r \in Sidecars :
                \/ sidecar'[r] = sidecar[r]
                \/ sidecar[r] \in {"born", "booting", "running"} /\ sidecar'[r] \in {"leaving", "gone"}
                   /\ (sidecar[r] = "born" => sidecar'[r] = "gone")
      BY <1>2 DEF Terminate, Responsive, SidecarAlive, Shape, SidecarState, own, daemons
    <2>2. QED
      BY <2>1
  <1>3. ASSUME NEW t \in {"app", "watchdog"}, Kill(t) PROVE DaemonInv'
    BY <1>3 DEF Kill, SidecarAlive, Shape, own
  <1>4. ASSUME NEW s \in Sidecars, Claim(s) \/ Obey(s) \/ SidecarDies(s) PROVE DaemonInv'
    <2>1. /\ UNCHANGED <<child, ended, backoff, daemon, parent>>
          /\ \A r \in Sidecars : r # s => sidecar'[r] = sidecar[r]
          /\ sidecar'[s] \in {"booting", "leaving", "gone"}
          /\ sidecar'[s] = "booting" => sidecar[s] = "born"
          /\ sidecar[s] \in {"born"} \cup Owning
      BY <1>4 DEF Claim, Obey, SidecarDies, SidecarAlive, Shape, SidecarState, own, daemons
    <2>2. QED
      BY <2>1
  <1>5. ASSUME NEW s \in Sidecars, EnsureDaemon(s) PROVE DaemonInv'
    <2>1. /\ sidecar[s] \in {"booting", "running"} /\ child[s] = 0 /\ ended[s] = 0
          /\ backoff' = backoff \ {s} /\ UNCHANGED ended
      BY <1>5 DEF EnsureDaemon
    <2>2. \A d \in Daemons : DaemonAlive(d) => parent[d] # s
      BY <2>1
    <2>3. CASE UNCHANGED <<child, daemons>>
      <3>1. /\ \A r \in Sidecars : r # s => sidecar'[r] = sidecar[r]
            /\ sidecar'[s] \in {"running", "left"}
        BY <1>5, <2>1, <2>3 DEF EnsureDaemon, Shape
      <3>2. QED
        BY <2>1, <2>2, <2>3, <3>1 DEF daemons
    <2>4. CASE /\ daemon' = [daemon EXCEPT ![NextDaemon] = "starting"]
               /\ parent' = [parent EXCEPT ![NextDaemon] = s]
               /\ child' = [child EXCEPT ![s] = NextDaemon]
               /\ sidecar' = [sidecar EXCEPT ![s] = "running"]
      <3> DEFINE n == NextDaemon
      <3>1. /\ \A d \in Daemons : d # n => daemon'[d] = daemon[d] /\ parent'[d] = parent[d]
            /\ n \in Daemons => parent'[n] = s
            /\ \A r \in Sidecars : r # s => child'[r] = child[r] /\ sidecar'[r] = sidecar[r]
            /\ child'[s] = n /\ sidecar'[s] = "running"
        BY <2>4 DEF Shape
      <3> HIDE DEF n
      <3>2. AliveHasParent'
        BY <3>1
      <3>3. AliveIsAccounted' /\ LeavesNoDaemon'
        BY <2>1, <2>2, <3>1, <3>2
      <3>4. UnbornOwnsNothing' /\ OneAtATime'
        BY <2>1, <3>1
      <3>5. QED
        BY <3>2, <3>3, <3>4
    <2>5. QED
      BY <1>5, <2>3, <2>4 DEF EnsureDaemon
  <1>6. ASSUME NEW s \in Sidecars, ChildExit(s) PROVE DaemonInv'
    <2>1. /\ child[s] # 0 /\ ~DaemonAlive(child[s]) /\ sidecar[s] = "running" /\ ended[s] = 0
          /\ UNCHANGED <<sidecar, ended, daemon, parent>>
          /\ child'[s] = 0 /\ \A r \in Sidecars : r # s => child'[r] = child[r]
          /\ backoff' \subseteq backoff \cup {s}
      BY <1>6 DEF ChildExit, Shape
    <2>2. \A d \in Daemons : DaemonAlive(d) => parent[d] # s
      BY <2>1
    <2>3. QED
      BY <2>1, <2>2
  <1>7. ASSUME NEW s \in Sidecars, ListenerTimeout(s) PROVE DaemonInv'
    <2>1. /\ child[s] # 0 /\ ended[s] = 0 /\ s \notin backoff /\ sidecar[s] = "running"
          /\ UNCHANGED <<sidecar, backoff, daemon, parent>>
          /\ child'[s] = 0 /\ ended'[s] = child[s]
          /\ \A r \in Sidecars : r # s => child'[r] = child[r] /\ ended'[r] = ended[r]
      BY <1>7 DEF ListenerTimeout, Shape, daemons
    <2>2. QED
      BY <2>1
  <1>8. ASSUME NEW s \in Sidecars, EndedExits(s) PROVE DaemonInv'
    <2>1. /\ ended[s] # 0 /\ ended'[s] = 0 /\ UNCHANGED <<sidecar, child, backoff, parent>>
          /\ \A r \in Sidecars : r # s => ended'[r] = ended[r]
          /\ \A d \in Daemons : daemon'[d] = IF d = ended[s] THEN "gone" ELSE daemon[d]
      BY <1>8 DEF EndedExits, Shape
    <2>2. QED
      BY <2>1
  <1>9. ASSUME NEW s \in Sidecars, Leave(s) PROVE DaemonInv'
    BY <1>9 DEF Leave, Shape
  <1>10. ASSUME NEW d \in Daemons, DaemonListens(d) \/ DaemonDies(d) \/ DaemonMutes(d)
         PROVE  DaemonInv'
    <2>1. \A e \in Daemons : DaemonAlive(e)' => DaemonAlive(e)
      BY <1>10 DEF DaemonListens, DaemonDies, DaemonMutes, Shape
    <2>2. UNCHANGED <<sidecar, child, ended, backoff, parent>>
      BY <1>10 DEF DaemonListens, DaemonDies, DaemonMutes, own
    <2>3. QED
      BY <2>1, <2>2, AccountsKept
  <1>11. ASSUME UNCHANGED <<sidecar, child, ended, backoff, parent, daemon>> PROVE DaemonInv'
    BY <1>11, AccountsKept
  <1>12. ASSUME Start \/ SpawnReplacement PROVE DaemonInv'
    BY <1>12, <1>1, <1>11 DEF Start, SpawnReplacement, own, daemons
  <1>13. ASSUME \/ StartRefused \/ Started \/ StartFails \/ ShutdownDone \/ Shutdown \/ Relaunch
                \/ AppDies \/ Notice \/ Respawn \/ Replaced \/ ReplacementFails \/ Discarded
                \/ WatchdogStops \/ UNCHANGED vars
         PROVE  DaemonInv'
    BY <1>13, <1>11
       DEF StartRefused, Started, StartFails, ShutdownDone, Shutdown, Relaunch, AppDies, Notice,
           Respawn, Replaced, ReplacementFails, Discarded, WatchdogStops, vars, own, daemons
  <1>14. ASSUME NEW s \in Sidecars, SidecarHangs(s) PROVE DaemonInv'
    BY <1>14, <1>11 DEF SidecarHangs, own, daemons
  <1>15. QED
    BY <1>2, <1>3, <1>4, <1>5, <1>6, <1>7, <1>8, <1>9, <1>10, <1>12, <1>13, <1>14
       DEF Next, AppStep, WatchdogStep, SidecarStep

-----------------------------------------------------------------------------
(* The supervisor's process.                                               *)

\* Every step keeps the process of the supervisor from being a victim.
LEMMA ProcessKeeps == IInv /\ [Next]_vars => ProcessInv'
  <1> SUFFICES ASSUME IInv, [Next]_vars PROVE ProcessInv'
    OBVIOUS
  <1>1. /\ launch \in Nat \ {0} /\ MaxLaunches \in Nat /\ launch <= MaxLaunches
        /\ \A s \in Sidecars : s # 0
        /\ \A s \in Sidecars : sidecar[s] = "absent" <=> master[s] = 0
        /\ \A t \in {"app", "watchdog"} : victim[t] \in Sidecars \cup {0}
        /\ victim = [t \in {"app", "watchdog"} |-> victim[t]]
        /\ sidecar \in [Sidecars -> SidecarState] /\ master \in [Sidecars -> 0 .. MaxLaunches]
    BY BudgetAssumption, SidecarNumbers DEF IInv, Shape, SpawnInv
  <1> USE <1>1 DEF ProcessInv
  <1> ProcessInv
    BY DEF IInv
  <1>2. ASSUME Spawn, UNCHANGED <<launch, victim, control>>, app' \in {"starting", "up"},
               app \in {"down", "up"},
               watch' \in {"spawning", "awaiting"} => app' = "up"
        PROVE  ProcessInv'
    <2>1. NextSidecar \in Sidecars /\ sidecar[NextSidecar] = "absent"
      BY SidecarLeft DEF IInv
    <2>2. /\ process' = NextSidecar
          /\ master' = [master EXCEPT ![NextSidecar] = launch]
          /\ sidecar' = [sidecar EXCEPT ![NextSidecar] = "born"]
      BY <1>2 DEF Spawn
    <2>3. QED
      BY <1>2, <2>1, <2>2
  <1>3. CASE Start
    <2>1. watch = "none"
      BY <1>3 DEF Start, IInv, SpawnInv
    <2>2. QED
      BY <1>3, <1>2, <2>1 DEF Start
  <1>4. CASE SpawnReplacement
    <2>1. CASE StaleLock
      BY <1>4, <2>1, <1>2 DEF SpawnReplacement
    <2>2. CASE ~StaleLock
      BY <1>4, <2>2 DEF SpawnReplacement
    <2>3. QED
      BY <2>1, <2>2
  <1>5. ASSUME StartRefused \/ Started \/ ShutdownDone \/ Replaced \/ WatchdogStops \/ Respawn \/ Discarded
        PROVE  ProcessInv'
    BY <1>5 DEF StartRefused, Started, ShutdownDone, Replaced, WatchdogStops, Respawn, Discarded, supervisor
  <1>6. ASSUME StartFails \/ Shutdown \/ Notice \/ ReplacementFails \/ AppDies PROVE ProcessInv'
    <2>1. process # 0 => sidecar[process] # "absent"
      OBVIOUS
    <2>2. QED
      BY <1>6, <2>1 DEF StartFails, Shutdown, Notice, ReplacementFails, AppDies
  <1>7. CASE Relaunch
    BY <1>7 DEF Relaunch
  <1>8. ASSUME NEW t \in {"app", "watchdog"}, Terminate(t) \/ Kill(t) PROVE ProcessInv'
    <2>1. /\ UNCHANGED <<app, launch, process, watch, victim, master, control>>
          /\ \A r \in Sidecars : r # victim[t] => sidecar'[r] = sidecar[r]
          /\ \A r \in Sidecars : sidecar'[r] = "absent" <=> sidecar[r] = "absent"
      BY <1>8 DEF Terminate, Kill, Responsive, SidecarAlive, application, supervisor
    <2>2. QED
      BY <2>1
  <1>9. ASSUME NEW s \in Sidecars, Obey(s) PROVE ProcessInv'
    <2>1. /\ UNCHANGED <<app, launch, process, watch, victim, master>>
          /\ control' \in {control, 0}
          /\ sidecar' = [sidecar EXCEPT ![s] = "leaving"] /\ sidecar[s] = "running"
      BY <1>9 DEF Obey, application, supervisor
    <2>2. process # s
      <3> SUFFICES ASSUME process = s PROVE FALSE
        OBVIOUS
      <3>1. master[s] = launch /\ app \in {"starting", "up"} /\ control # launch
        OBVIOUS
      <3>2. QED
        BY <1>9, <3>1 DEF Obey, Requested, ParentDead
    <2>3. QED
      BY <2>1, <2>2
  <1>10. ASSUME NEW s \in Sidecars,
                \/ Claim(s) \/ EnsureDaemon(s) \/ ChildExit(s) \/ ListenerTimeout(s) \/ EndedExits(s)
                \/ Leave(s) \/ SidecarDies(s) \/ SidecarHangs(s)
         PROVE  ProcessInv'
    <2>1. UNCHANGED <<app, launch, process, watch, victim, master, control>>
      BY <1>10 DEF Claim, EnsureDaemon, ChildExit, ListenerTimeout, EndedExits, Leave, SidecarDies,
                   SidecarHangs, application, supervisor
    <2>2. \A r \in Sidecars : \/ sidecar'[r] = sidecar[r]
                              \/ sidecar'[r] \notin {"absent", "leaving"} /\ sidecar[r] # "absent"
      BY <1>10 DEF Claim, EnsureDaemon, ChildExit, ListenerTimeout, EndedExits, Leave, SidecarDies,
                   SidecarHangs, SidecarAlive, Responsive
    <2>3. QED
      BY <2>1, <2>2
  <1>11. ASSUME UNCHANGED vars \/ \E d \in Daemons : DaemonListens(d) \/ DaemonDies(d) \/ DaemonMutes(d)
         PROVE  ProcessInv'
    <2>1. UNCHANGED <<app, launch, process, watch, victim, master, control, sidecar>>
      BY <1>11 DEF vars, DaemonListens, DaemonDies, DaemonMutes, application, supervisor
    <2>2. QED
      BY <2>1
  <1>12. QED
    BY <1>3, <1>4, <1>5, <1>6, <1>7, <1>8, <1>9, <1>10, <1>11
       DEF Next, AppStep, WatchdogStep, SidecarStep

-----------------------------------------------------------------------------
(* The supply of daemon numbers.  Every daemon that was launched, every     *)
(* sidecar that may launch one now and the sidecar the supervisor may spawn *)
(* now is paid for by a launch of the application or by a fault.            *)

UsedDaemons == {d \in Daemons : daemon[d] # "absent"}

\* A sidecar that launches a daemon without another fault: it boots, its restart timer
\* runs, or its daemon is mute or dead.
MayLaunch(s) ==
    /\ s \notin hung
    /\ \/ sidecar[s] \in {"born", "booting"}
       \/ sidecar[s] = "running" /\ s \in backoff
       \/ sidecar[s] = "running" /\ child[s] # 0 /\ daemon[child[s]] \in {"mute", "gone"}

Candidates == {s \in Sidecars : MayLaunch(s)}

\* The supervisor spawns a sidecar without another fault.
MaySpawn ==
    \/ app = "down"
    \/ app \in {"starting", "up"} /\ (process = 0 \/ Exited \/ Stale(process))

Due == IF MaySpawn THEN 1 ELSE 0

SupplyInv == Cardinality(UsedDaemons) + Cardinality(Candidates) + Due <= launch + faults

OwnInv ==
    \A s \in Sidecars :
        /\ child[s] # 0 => daemon[child[s]] # "absent" /\ parent[child[s]] = s
        /\ ended[s] # 0 => daemon[ended[s]] # "absent" /\ parent[ended[s]] = s

ExitInv ==
    \A s \in Sidecars :
        /\ sidecar[s] \in {"absent", "born", "booting"} => exits[s] = 0
        /\ exits[s] > MaxRestarts => child[s] = 0 /\ s \notin backoff

WaitInv ==
    /\ \A s \in hung : sidecar[s] # "absent"
    /\ watch \in {"replacing", "spawning"} => process = 0

FullInv == IInv /\ TypeOK /\ SupplyInv /\ OwnInv /\ ExitInv /\ WaitInv

-----------------------------------------------------------------------------
(* Counting.                                                               *)

\* Taking a member out of a finite set, or adding one, changes its count by one.
LEMMA CountOf ==
    ASSUME NEW T, IsFiniteSet(T), NEW S, S \subseteq T
    PROVE  /\ IsFiniteSet(S) /\ Cardinality(S) \in Nat /\ Cardinality(S) <= Cardinality(T)
           /\ \A x \in S : /\ Cardinality(S \ {x}) = Cardinality(S) - 1
                           /\ Cardinality(S) > 0
           /\ \A x : /\ IsFiniteSet(S \cup {x})
                     /\ Cardinality(S \cup {x}) \in Nat
                     /\ Cardinality(S \cup {x}) <= Cardinality(S) + 1
  <1>1. IsFiniteSet(S) /\ Cardinality(S) \in Nat /\ Cardinality(S) <= Cardinality(T)
    BY FS_Subset, FS_CardinalityType
  <1>2. ASSUME NEW x \in S
        PROVE  Cardinality(S \ {x}) = Cardinality(S) - 1 /\ Cardinality(S) > 0
    <2>1. IsFiniteSet(S \ {x}) /\ Cardinality(S \ {x}) = Cardinality(S) - 1
      BY <1>1, FS_RemoveElement
    <2>2. Cardinality(S \ {x}) \in Nat
      BY <2>1, FS_CardinalityType
    <2>3. QED
      BY <1>1, <2>1, <2>2
  <1>3. ASSUME NEW x
        PROVE  /\ IsFiniteSet(S \cup {x}) /\ Cardinality(S \cup {x}) \in Nat
               /\ Cardinality(S \cup {x}) <= Cardinality(S) + 1
    <2>1. IsFiniteSet(S \cup {x})
          /\ Cardinality(S \cup {x}) = IF x \in S THEN Cardinality(S) ELSE Cardinality(S) + 1
      BY <1>1, FS_AddElement
    <2>2. QED
      BY <1>1, <2>1
  <1>4. QED
    BY <1>1, <1>2, <1>3

\* There is a daemon number for each launch and each fault.
LEMMA DaemonNumbers ==
    /\ IsFiniteSet(Daemons) /\ Daemons \subseteq Nat \ {0}
    /\ Cardinality(Daemons) = MaxLaunches + MaxFaults
  <1> DEFINE N == MaxLaunches + MaxFaults
  <1>1. N \in Nat
    BY BudgetAssumption
  <1>2. Daemons = 1 .. N
    BY DEF Daemons
  <1> HIDE DEF N
  <1>3. /\ IsFiniteSet(1 .. N)
        /\ Cardinality(1 .. N) = IF 1 > N THEN 0 ELSE N - 1 + 1
    BY <1>1, FS_Interval
  <1>4. QED
    BY <1>1, <1>2, <1>3 DEF N

\* The sets that are counted, now and after a step.
LEMMA Counted ==
    /\ UsedDaemons \subseteq Daemons /\ UsedDaemons' \subseteq Daemons
    /\ Candidates \subseteq Sidecars /\ Candidates' \subseteq Sidecars
    /\ IsFiniteSet(Daemons) /\ IsFiniteSet(Sidecars)
    /\ Due \in {0, 1} /\ Due' \in {0, 1}
  BY SidecarNumbers, DaemonNumbers DEF UsedDaemons, Candidates, Due

\* The counts of the supply are numbers within the bounds.
LEMMA CountNumbers ==
    ASSUME FullInv
    PROVE  /\ Cardinality(UsedDaemons) \in Nat /\ Cardinality(Candidates) \in Nat
           /\ launch \in Nat /\ faults \in Nat
           /\ launch <= MaxLaunches /\ faults <= MaxFaults
           /\ MaxLaunches \in Nat /\ MaxFaults \in Nat
  BY BudgetAssumption, Counted, CountOf DEF FullInv, TypeOK

\* A sidecar that may launch a daemon finds a number for it.
LEMMA DaemonLeft ==
    ASSUME FullInv, NEW s \in Candidates
    PROVE  NextDaemon \in Daemons /\ daemon[NextDaemon] = "absent"
  <1>1. Cardinality(Candidates) > 0
    BY Counted, CountOf
  <1>2. Cardinality(UsedDaemons) < Cardinality(Daemons)
    <2>1. Cardinality(UsedDaemons) + Cardinality(Candidates) + Due <= launch + faults
      BY DEF FullInv, SupplyInv
    <2>2. Due \in Nat
      BY DEF Due
    <2>3. Cardinality(Daemons) = MaxLaunches + MaxFaults
      BY DaemonNumbers
    <2>4. Cardinality(UsedDaemons) < launch + faults
      BY <1>1, <2>1, <2>2, CountNumbers
    <2>5. launch + faults <= MaxLaunches + MaxFaults
      BY CountNumbers
    <2>6. QED
      BY <2>3, <2>4, <2>5, CountNumbers
  <1>3. PICK d \in Daemons : d \notin UsedDaemons
    <2>1. Cardinality(UsedDaemons) # Cardinality(Daemons)
      <3>1. Cardinality(UsedDaemons) \in Nat
        BY CountNumbers
      <3>2. QED
        BY <1>2, <3>1
    <2>2. UsedDaemons # Daemons
      BY <2>1
    <2>3. QED
      BY <2>2, Counted
  <1>4. {e \in Daemons : daemon[e] = "absent"} # {}
    BY <1>3 DEF UsedDaemons
  <1>5. NextDaemon \in {e \in Daemons : daemon[e] = "absent"}
    <2>1. {e \in Daemons : daemon[e] = "absent"} \subseteq Nat
      BY DaemonNumbers
    <2>2. QED
      BY <2>1, <1>4, SmallestIsMember DEF NextDaemon
  <1>6. QED
    BY <1>5

\* What a step may do with what is paid for: nothing, ...
LEMMA SpendsNothing ==
    ASSUME FullInv, UsedDaemons' \subseteq UsedDaemons, Candidates' \subseteq Candidates,
           MaySpawn' => MaySpawn, launch' \in Nat, faults' \in Nat,
           launch' + faults' >= launch + faults
    PROVE  SupplyInv'
  <1>1. Cardinality(UsedDaemons') <= Cardinality(UsedDaemons) /\ Cardinality(UsedDaemons') \in Nat
    BY Counted, CountOf
  <1>2. Cardinality(Candidates') <= Cardinality(Candidates) /\ Cardinality(Candidates') \in Nat
    BY Counted, CountOf
  <1>3. Due' <= Due
    BY DEF Due
  <1>4. QED
    BY <1>1, <1>2, <1>3, Counted, CountNumbers DEF FullInv, SupplyInv

\* ... make a sidecar a candidate or a spawn due, for a launch or a fault, ...
LEMMA PaysForOne ==
    ASSUME FullInv, UsedDaemons' \subseteq UsedDaemons, NEW c,
           \/ Candidates' \subseteq Candidates
           \/ Candidates' \subseteq Candidates \cup {c} /\ (MaySpawn' => MaySpawn),
           launch' \in Nat, faults' \in Nat, launch' + faults' >= launch + faults + 1
    PROVE  SupplyInv'
  <1>1. Cardinality(UsedDaemons') <= Cardinality(UsedDaemons) /\ Cardinality(UsedDaemons') \in Nat
    BY Counted, CountOf
  <1>2. Cardinality(Candidates') \in Nat
    BY Counted, CountOf
  <1>3. Cardinality(Candidates') + Due' <= Cardinality(Candidates) + Due + 1
    <2>1. CASE Candidates' \subseteq Candidates
      <3>1. Cardinality(Candidates') <= Cardinality(Candidates)
        BY <2>1, Counted, CountOf
      <3>2. QED
        BY <1>2, <3>1, Counted, CountNumbers
    <2>2. CASE Candidates' \subseteq Candidates \cup {c} /\ (MaySpawn' => MaySpawn)
      <3>1. IsFiniteSet(Candidates \cup {c})
            /\ Cardinality(Candidates \cup {c}) \in Nat
            /\ Cardinality(Candidates \cup {c}) <= Cardinality(Candidates) + 1
        BY Counted, CountOf
      <3>2. Cardinality(Candidates') <= Cardinality(Candidates \cup {c})
        BY <2>2, <3>1, CountOf
      <3>3. Due' <= Due
        BY <2>2 DEF Due
      <3>4. QED
        BY <1>2, <3>1, <3>2, <3>3, Counted, CountNumbers
    <2>3. QED
      BY <2>1, <2>2
  <1>4. QED
    BY <1>1, <1>2, <1>3, Counted, CountNumbers DEF FullInv, SupplyInv

\* ... turn a candidate into a daemon or into a spawn that is due, ...
LEMMA CandidateUsed ==
    ASSUME FullInv, NEW c \in Candidates, Candidates' \subseteq Candidates \ {c}, NEW d,
           \/ UsedDaemons' \subseteq UsedDaemons
           \/ UsedDaemons' \subseteq UsedDaemons \cup {d} /\ (MaySpawn' => MaySpawn),
           launch' \in Nat, faults' \in Nat, launch' + faults' >= launch + faults
    PROVE  SupplyInv'
  <1>1. Cardinality(Candidates') <= Cardinality(Candidates) - 1 /\ Cardinality(Candidates') \in Nat
    <2>1. Cardinality(Candidates \ {c}) = Cardinality(Candidates) - 1
          /\ IsFiniteSet(Candidates \ {c})
      BY Counted, CountOf
    <2>2. QED
      BY <2>1, CountOf
  <1>2. Cardinality(UsedDaemons') \in Nat
    BY Counted, CountOf
  <1>3. Cardinality(UsedDaemons') + Due' <= Cardinality(UsedDaemons) + Due + 1
    <2>1. CASE UsedDaemons' \subseteq UsedDaemons
      <3>1. Cardinality(UsedDaemons') <= Cardinality(UsedDaemons)
        BY <2>1, Counted, CountOf
      <3>2. QED
        BY <1>2, <3>1, Counted, CountNumbers
    <2>2. CASE UsedDaemons' \subseteq UsedDaemons \cup {d} /\ (MaySpawn' => MaySpawn)
      <3>1. IsFiniteSet(UsedDaemons \cup {d})
            /\ Cardinality(UsedDaemons \cup {d}) \in Nat
            /\ Cardinality(UsedDaemons \cup {d}) <= Cardinality(UsedDaemons) + 1
        BY Counted, CountOf
      <3>2. Cardinality(UsedDaemons') <= Cardinality(UsedDaemons \cup {d})
        BY <2>2, <3>1, CountOf
      <3>3. Due' <= Due
        BY <2>2 DEF Due
      <3>4. QED
        BY <1>2, <3>1, <3>2, <3>3, Counted, CountNumbers
    <2>3. QED
      BY <2>1, <2>2
  <1>4. QED
    BY <1>1, <1>2, <1>3, Counted, CountNumbers DEF FullInv, SupplyInv

\* ... or turn a spawn that is due into a candidate.
LEMMA SpawnUsed ==
    ASSUME FullInv, UsedDaemons' \subseteq UsedDaemons, NEW c,
           Candidates' \subseteq Candidates \cup {c}, MaySpawn, ~MaySpawn',
           UNCHANGED <<launch, faults>>
    PROVE  SupplyInv'
  <1>1. Cardinality(UsedDaemons') <= Cardinality(UsedDaemons) /\ Cardinality(UsedDaemons') \in Nat
    BY Counted, CountOf
  <1>2. Cardinality(Candidates') <= Cardinality(Candidates) + 1 /\ Cardinality(Candidates') \in Nat
    <2>1. IsFiniteSet(Candidates \cup {c})
          /\ Cardinality(Candidates \cup {c}) \in Nat
          /\ Cardinality(Candidates \cup {c}) <= Cardinality(Candidates) + 1
      BY Counted, CountOf
    <2>2. Cardinality(Candidates') <= Cardinality(Candidates \cup {c})
          /\ Cardinality(Candidates') \in Nat
      BY <2>1, CountOf
    <2>3. QED
      BY <2>1, <2>2, CountNumbers
  <1>3. Due = 1 /\ Due' = 0
    BY DEF Due
  <1>4. QED
    BY <1>1, <1>2, <1>3, CountNumbers DEF FullInv, SupplyInv

\* What launching a daemon writes (ensureDaemon).
LEMMA LaunchFacts ==
    ASSUME FullInv, NEW s \in Sidecars, EnsureDaemon(s)
    PROVE  /\ s \in Candidates /\ child[s] = 0 /\ ended[s] = 0
           /\ \/ /\ NextDaemon \in Daemons /\ daemon[NextDaemon] = "absent"
                 /\ daemon' = [daemon EXCEPT ![NextDaemon] = "starting"]
                 /\ parent' = [parent EXCEPT ![NextDaemon] = s]
                 /\ record' = NextDaemon
                 /\ child' = [child EXCEPT ![s] = NextDaemon]
                 /\ sidecar' = [sidecar EXCEPT ![s] = "running"]
                 /\ backoff' = backoff \ {s}
                 /\ UNCHANGED <<ended, exits, attention, lock, faults>>
              \/ /\ backoff' = backoff \ {s} /\ attention' = attention \cup {s}
                 /\ \/ faults < MaxFaults /\ faults' = faults + 1
                    \/ faults' = faults
                 /\ \/ /\ sidecar[s] = "booting" /\ sidecar' = [sidecar EXCEPT ![s] = "left"]
                       /\ lock' \in {lock, 0}
                    \/ sidecar[s] = "running" /\ UNCHANGED <<sidecar, lock>>
                 /\ UNCHANGED <<child, ended, exits, daemon, parent, record>>
           /\ UNCHANGED <<app, launch, process, restarts, failure, watch, victim, master, hung,
                          control>>
  <1>1. s \notin hung /\ (sidecar[s] = "booting" \/ (sidecar[s] = "running" /\ s \in backoff))
    BY DEF EnsureDaemon, Responsive
  <1>2. s \in Candidates
    BY <1>1 DEF Candidates, MayLaunch
  <1>3. child[s] = 0 /\ ended[s] = 0
    BY <1>1 DEF FullInv, IInv, DaemonInv, UnbornOwnsNothing, OneAtATime
  <1>4. NextDaemon \in Daemons /\ daemon[NextDaemon] = "absent"
    BY <1>2, DaemonLeft
  <1>5. UNCHANGED <<app, launch, process, restarts, failure, watch, victim, master, hung, control>>
    BY DEF EnsureDaemon, application, supervisor
  <1>6. QED
    BY <1>1, <1>2, <1>3, <1>4, <1>5 DEF EnsureDaemon, daemons

\* The daemons a sidecar accounts for are its own.
LEMMA OwnKeeps == FullInv /\ [Next]_vars => OwnInv'
  <1> SUFFICES ASSUME FullInv, [Next]_vars PROVE OwnInv'
    OBVIOUS
  <1> USE DEF OwnInv, FullInv, TypeOK
  <1>1. ASSUME UNCHANGED <<child, ended, parent>>,
               \A d \in Daemons : daemon[d] # "absent" => daemon'[d] # "absent"
        PROVE  OwnInv'
    BY <1>1
  <1>2. ASSUME NEW s \in Sidecars, EnsureDaemon(s) PROVE OwnInv'
    <2>1. CASE UNCHANGED <<child, ended, parent, daemon>>
      BY <2>1, <1>1
    <2>2. ASSUME NEW n \in Daemons, daemon[n] = "absent",
                 daemon' = [daemon EXCEPT ![n] = "starting"],
                 parent' = [parent EXCEPT ![n] = s],
                 child' = [child EXCEPT ![s] = n], ended[s] = 0, ended' = ended
          PROVE  OwnInv'
      <3>1. /\ \A d \in Daemons : d # n => daemon'[d] = daemon[d] /\ parent'[d] = parent[d]
            /\ daemon'[n] = "starting" /\ parent'[n] = s
            /\ child'[s] = n /\ \A r \in Sidecars : r # s => child'[r] = child[r]
        BY <2>2
      <3>2. \A r \in Sidecars : child[r] # n /\ ended[r] # n
        BY <2>2, DaemonNumbers
      <3>3. QED
        BY <2>2, <3>1, <3>2
    <2>3. QED
      BY <1>2, <2>1, <2>2, LaunchFacts
  <1>3. ASSUME NEW s \in Sidecars, ChildExit(s) PROVE OwnInv'
    BY <1>3 DEF ChildExit
  <1>4. ASSUME NEW s \in Sidecars, ListenerTimeout(s) PROVE OwnInv'
    BY <1>4 DEF ListenerTimeout, daemons
  <1>5. ASSUME NEW s \in Sidecars, EndedExits(s) PROVE OwnInv'
    BY <1>5 DEF EndedExits
  <1>6. ASSUME NEW s \in Sidecars, Leave(s) PROVE OwnInv'
    BY <1>6, <1>1 DEF Leave
  <1>7. ASSUME NEW t \in {"app", "watchdog"}, Kill(t) PROVE OwnInv'
    BY <1>7, <1>1 DEF Kill, own
  <1>8. ASSUME NEW d \in Daemons, DaemonListens(d) \/ DaemonDies(d) \/ DaemonMutes(d)
        PROVE  OwnInv'
    BY <1>8, <1>1 DEF DaemonListens, DaemonDies, DaemonMutes, own
  <1>9. CASE UNCHANGED <<own, daemons>>
    BY <1>9, <1>1 DEF own, daemons
  <1>10. QED
    BY <1>2, <1>3, <1>4, <1>5, <1>6, <1>7, <1>8, <1>9
       DEF Next, AppStep, WatchdogStep, SidecarStep, Start, StartRefused, Started, StartFails,
           ShutdownDone, Shutdown, Relaunch, AppDies, Notice, Respawn, SpawnReplacement, Replaced,
           ReplacementFails, Discarded, WatchdogStops, Terminate, Claim, Obey, SidecarDies,
           SidecarHangs, vars

\* restartCount passes MaxRestarts once, and the sidecar launches no daemon after it.
LEMMA ExitKeeps == FullInv /\ [Next]_vars => ExitInv' /\ exits' \in [Sidecars -> 0 .. (MaxRestarts + 1)]
  <1> SUFFICES ASSUME FullInv, [Next]_vars
               PROVE  ExitInv' /\ exits' \in [Sidecars -> 0 .. (MaxRestarts + 1)]
    OBVIOUS
  <1> DEFINE Goal == ExitInv' /\ exits' \in [Sidecars -> 0 .. (MaxRestarts + 1)]
  <1>0. ExitInv /\ exits \in [Sidecars -> 0 .. (MaxRestarts + 1)] /\ MaxRestarts \in Nat
        /\ sidecar \in [Sidecars -> SidecarState] /\ Shape
    BY BudgetAssumption DEF FullInv, TypeOK, IInv, Shape
  <1>1. ASSUME UNCHANGED <<exits, child>>, backoff' \subseteq backoff,
               \A s \in Sidecars : sidecar'[s] \in {"absent", "born", "booting"} =>
                                       sidecar[s] \in {"absent", "born", "booting"}
        PROVE  Goal
    BY <1>0, <1>1 DEF ExitInv
  <1>2. ASSUME Spawn, UNCHANGED own PROVE Goal
    <2>1. NextSidecar \in Sidecars /\ sidecar[NextSidecar] = "absent"
      BY SidecarLeft DEF FullInv, IInv
    <2>2. \A s \in Sidecars : sidecar'[s] \in {"absent", "born", "booting"} =>
                                  sidecar[s] \in {"absent", "born", "booting"}
      BY <1>0, <1>2, <2>1 DEF Spawn
    <2>3. QED
      BY <1>2, <1>1, <2>2 DEF own
  <1>3. ASSUME NEW s \in Sidecars, EnsureDaemon(s) PROVE Goal
    <2>1. /\ s \in backoff \/ sidecar[s] = "booting"
          /\ exits' = exits /\ backoff' \subseteq backoff
      BY <1>3 DEF EnsureDaemon
    <2>2. exits[s] <= MaxRestarts
      BY <1>0, <2>1 DEF ExitInv
    <2>3. \A r \in Sidecars : r # s => child'[r] = child[r] /\ sidecar'[r] = sidecar[r]
      BY <1>0, <1>3, LaunchFacts DEF Shape
    <2>4. sidecar'[s] \in {"running", "left"}
      BY <1>0, <1>3, LaunchFacts
    <2>5. QED
      BY <1>0, <2>1, <2>2, <2>3, <2>4 DEF ExitInv
  <1>4. ASSUME NEW s \in Sidecars, ChildExit(s) PROVE Goal
    <2>1. /\ sidecar[s] = "running" /\ child[s] # 0 /\ UNCHANGED sidecar
          /\ child' = [child EXCEPT ![s] = 0] /\ exits' = [exits EXCEPT ![s] = @ + 1]
          /\ \/ exits'[s] > MaxRestarts /\ backoff' = backoff
             \/ ~(exits'[s] > MaxRestarts) /\ backoff' = backoff \cup {s}
          /\ s \notin backoff
      BY <1>4 DEF ChildExit, FullInv, IInv, DaemonInv, OneAtATime
    <2>2. exits[s] <= MaxRestarts /\ exits[s] \in Nat
      BY <1>0, <2>1 DEF ExitInv
    <2>3. /\ exits'[s] = exits[s] + 1 /\ exits' \in [Sidecars -> 0 .. (MaxRestarts + 1)]
          /\ \A r \in Sidecars : r # s => exits'[r] = exits[r]
      BY <1>0, <2>1, <2>2
    <2>4. child'[s] = 0 /\ \A r \in Sidecars : r # s => child'[r] = child[r]
      BY <1>0, <2>1 DEF Shape
    <2>5. QED
      BY <1>0, <2>1, <2>2, <2>3, <2>4 DEF ExitInv
  <1>5. ASSUME NEW s \in Sidecars, ListenerTimeout(s) PROVE Goal
    <2>1. /\ UNCHANGED <<sidecar, exits, backoff>>
          /\ child' = [child EXCEPT ![s] = 0]
      BY <1>5 DEF ListenerTimeout
    <2>2. QED
      BY <1>0, <2>1 DEF ExitInv, Shape
  <1>6. ASSUME NEW s \in Sidecars, Claim(s) \/ EndedExits(s) \/ Obey(s) \/ Leave(s)
                                   \/ SidecarDies(s) \/ SidecarHangs(s)
        PROVE  Goal
    <2>1. UNCHANGED <<exits, child>> /\ backoff' \subseteq backoff
      BY <1>6 DEF Claim, EndedExits, Obey, Leave, SidecarDies, SidecarHangs, own
    <2>2. \A r \in Sidecars : sidecar'[r] \in {"absent", "born", "booting"} =>
                                  sidecar[r] \in {"absent", "born", "booting"}
      BY <1>0, <1>6 DEF Claim, EndedExits, Obey, Leave, SidecarDies, SidecarHangs
    <2>3. QED
      BY <2>1, <2>2, <1>1
  <1>7. ASSUME NEW t \in {"app", "watchdog"}, Terminate(t) \/ Kill(t) PROVE Goal
    <2>1. UNCHANGED own
      BY <1>7 DEF Terminate, Kill
    <2>2. \A r \in Sidecars : sidecar'[r] \in {"absent", "born", "booting"} =>
                                  sidecar[r] \in {"absent", "born", "booting"}
      BY <1>0, <1>7 DEF Terminate, Kill
    <2>3. QED
      BY <2>1, <2>2, <1>1 DEF own
  <1>8. ASSUME NEW d \in Daemons, DaemonListens(d) \/ DaemonDies(d) \/ DaemonMutes(d)
        PROVE  Goal
    BY <1>8, <1>1 DEF DaemonListens, DaemonDies, DaemonMutes, own
  <1>9. CASE UNCHANGED <<own, sidecar>>
    BY <1>9, <1>1 DEF own
  <1>10. ASSUME Start \/ SpawnReplacement PROVE Goal
    BY <1>10, <1>2, <1>9 DEF Start, SpawnReplacement
  <1>11. ASSUME \/ StartRefused \/ Started \/ StartFails \/ ShutdownDone \/ Shutdown \/ Relaunch
                \/ AppDies \/ Notice \/ Respawn \/ Replaced \/ ReplacementFails \/ Discarded
                \/ WatchdogStops \/ UNCHANGED vars
         PROVE  Goal
    BY <1>11, <1>9
       DEF StartRefused, Started, StartFails, ShutdownDone, Shutdown, Relaunch, AppDies, Notice,
           Respawn, Replaced, ReplacementFails, Discarded, WatchdogStops, vars
  <1> HIDE DEF Goal
  <1>12. Goal
    BY <1>3, <1>4, <1>5, <1>6, <1>7, <1>8, <1>10, <1>11
       DEF Next, AppStep, WatchdogStep, SidecarStep
  <1>13. QED
    BY <1>12 DEF Goal

\* Only a sidecar that was spawned hangs, and while the watchdog replaces a sidecar the
\* supervisor has none.
LEMMA WaitKeeps == FullInv /\ [Next]_vars => WaitInv'
  <1> SUFFICES ASSUME FullInv, [Next]_vars PROVE WaitInv'
    OBVIOUS
  <1> DEFINE Born == \A s \in hung : sidecar[s] # "absent"
             Waits == watch \in {"replacing", "spawning"} => process = 0
  <1>0. /\ Born /\ Waits /\ hung \subseteq Sidecars /\ (app = "down" => watch = "none")
        /\ sidecar \in [Sidecars -> SidecarState]
    BY DEF FullInv, WaitInv, TypeOK, IInv, Shape, SpawnInv
  <1>1. Born'
    <2>1. ASSUME hung' = hung, \A s \in Sidecars : sidecar[s] # "absent" => sidecar'[s] # "absent"
          PROVE  Born'
      BY <1>0, <2>1
    <2>2. ASSUME Spawn, UNCHANGED hung PROVE Born'
      <3>1. NextSidecar \in Sidecars /\ sidecar[NextSidecar] = "absent"
        BY SidecarLeft DEF FullInv, IInv
      <3>2. QED
        BY <1>0, <2>1, <2>2, <3>1 DEF Spawn
    <2>3. ASSUME Start \/ SpawnReplacement PROVE Born'
      <3>1. hung' = hung /\ (Spawn \/ UNCHANGED sidecar)
        BY <2>3 DEF Start, SpawnReplacement
      <3>2. QED
        BY <2>1, <2>2, <3>1
    <2>4. ASSUME NEW t \in {"app", "watchdog"}, Terminate(t) \/ Kill(t) PROVE Born'
      BY <1>0, <2>1, <2>4 DEF Terminate, Kill
    <2>5. ASSUME NEW s \in Sidecars, Claim(s) \/ EnsureDaemon(s) \/ Obey(s) \/ Leave(s) \/ SidecarDies(s)
          PROVE  Born'
      BY <1>0, <2>1, <2>5 DEF Claim, EnsureDaemon, Obey, Leave, SidecarDies
    <2>6. ASSUME NEW s \in Sidecars, SidecarHangs(s) PROVE Born'
      BY <1>0, <2>6 DEF SidecarHangs, Responsive, SidecarAlive
    <2>7. CASE UNCHANGED <<hung, sidecar>>
      BY <2>1, <2>7
    <2> HIDE DEF Born
    <2>8. ASSUME \/ StartRefused \/ Started \/ StartFails \/ ShutdownDone \/ Shutdown \/ Relaunch
                 \/ AppDies \/ Notice \/ Respawn \/ Replaced \/ ReplacementFails \/ Discarded
                 \/ WatchdogStops \/ UNCHANGED vars
          PROVE  Born'
      BY <2>8, <2>7
         DEF StartRefused, Started, StartFails, ShutdownDone, Shutdown, Relaunch, AppDies, Notice,
             Respawn, Replaced, ReplacementFails, Discarded, WatchdogStops, vars
    <2>9. ASSUME NEW s \in Sidecars, ChildExit(s) \/ ListenerTimeout(s) \/ EndedExits(s)
          PROVE  Born'
      BY <2>9, <2>7 DEF ChildExit, ListenerTimeout, EndedExits
    <2>10. ASSUME NEW d \in Daemons, DaemonListens(d) \/ DaemonDies(d) \/ DaemonMutes(d)
           PROVE  Born'
      BY <2>10, <2>7 DEF DaemonListens, DaemonDies, DaemonMutes
    <2>11. QED
      BY <2>3, <2>4, <2>5, <2>6, <2>8, <2>9, <2>10 DEF Next, AppStep, WatchdogStep, SidecarStep
  <1>2. Waits'
    <2>1. ASSUME \/ Start \/ StartRefused \/ Started \/ StartFails \/ ShutdownDone \/ Shutdown
                 \/ Relaunch \/ AppDies
          PROVE  Waits'
      BY <1>0, <2>1 DEF Start, StartRefused, Started, StartFails, ShutdownDone, Shutdown, Relaunch,
                        AppDies, supervisor
    <2>2. ASSUME \/ Notice \/ Respawn \/ SpawnReplacement \/ Replaced \/ ReplacementFails
                 \/ Discarded \/ WatchdogStops
          PROVE  Waits'
      BY <1>0, <2>2 DEF Notice, Respawn, SpawnReplacement, Replaced, ReplacementFails, Discarded,
                        WatchdogStops, supervisor
    <2>3. CASE UNCHANGED application
      BY <1>0, <2>3 DEF application, supervisor
    <2> HIDE DEF Waits
    <2>4. QED
      BY <2>1, <2>2, <2>3 DEF Next, AppStep, WatchdogStep, SidecarStep, Terminate, Kill, Claim,
         EnsureDaemon, ChildExit, ListenerTimeout, EndedExits, Obey, Leave, SidecarDies,
         SidecarHangs, DaemonListens, DaemonDies, DaemonMutes, vars
  <1>3. QED
    BY <1>1, <1>2 DEF WaitInv

\* The types the other lemmas leave: the phases of the application and of its watchdog,
\* the locks and files, and the sets of sidecars.
LEMMA TypesKeep == FullInv /\ [Next]_vars => TypeOK'
  <1> SUFFICES ASSUME FullInv, [Next]_vars PROVE TypeOK'
    OBVIOUS
  <1> DEFINE AppTypes ==
                 /\ app \in {"down", "starting", "up", "stopping", "off", "dead"}
                 /\ process \in Sidecars \cup {0}
                 /\ failure \in {"none", "replacing", "failed", "exhausted"}
                 /\ watch \in {"none", "watching", "replacing", "spawning", "awaiting", "discarding"}
             OwnTypes ==
                 /\ hung \in SUBSET Sidecars /\ backoff \in SUBSET Sidecars
                 /\ attention \in SUBSET Sidecars
                 /\ child \in [Sidecars -> Daemons \cup {0}]
                 /\ ended \in [Sidecars -> Daemons \cup {0}]
                 /\ record \in Daemons \cup {0}
                 /\ lock \in Sidecars \cup {0} /\ faults \in 0 .. MaxFaults
  <1>0. AppTypes /\ OwnTypes /\ MaxFaults \in Nat /\ control \in 0 .. launch
    BY BudgetAssumption DEF FullInv, TypeOK, IInv, ProcessInv
  <1>1. Shape' /\ ProcessInv'
    BY ShapeKeeps, ProcessKeeps DEF FullInv
  <1>2. exits' \in [Sidecars -> 0 .. (MaxRestarts + 1)]
    BY ExitKeeps
  <1>3. AppTypes'
    <2>1. NextSidecar \in Sidecars
      BY SidecarLeft DEF FullInv, IInv
    <2>2. ASSUME \/ Start \/ StartRefused \/ Started \/ StartFails \/ ShutdownDone \/ Shutdown
                 \/ Relaunch \/ AppDies
          PROVE  AppTypes'
      BY <1>0, <2>1, <2>2 DEF Start, Spawn, StartRefused, Started, StartFails, ShutdownDone,
         Shutdown, Relaunch, AppDies, supervisor
    <2>3. ASSUME \/ Notice \/ Respawn \/ SpawnReplacement \/ Replaced \/ ReplacementFails
                 \/ Discarded \/ WatchdogStops
          PROVE  AppTypes'
      BY <1>0, <2>1, <2>3 DEF Notice, Respawn, SpawnReplacement, Spawn, Replaced,
         ReplacementFails, Discarded, WatchdogStops, supervisor
    <2>4. CASE UNCHANGED application
      BY <1>0, <2>4 DEF application, supervisor
    <2> HIDE DEF AppTypes
    <2>5. QED
      BY <2>2, <2>3, <2>4 DEF Next, AppStep, WatchdogStep, SidecarStep, Terminate, Kill, Claim,
         EnsureDaemon, ChildExit, ListenerTimeout, EndedExits, Obey, Leave, SidecarDies,
         SidecarHangs, DaemonListens, DaemonDies, DaemonMutes, vars
  <1>4. OwnTypes'
    <2>1. ASSUME UNCHANGED <<hung, own, daemons>>, lock' \in {lock, 0}, faults' \in 0 .. MaxFaults
          PROVE  OwnTypes'
      BY <1>0, <2>1 DEF own, daemons
    <2>2. Fault => faults' \in 0 .. MaxFaults
      BY <1>0 DEF Fault
    <2>3. ASSUME NEW s \in Sidecars, EnsureDaemon(s) PROVE OwnTypes'
      <3>1. /\ backoff' = backoff \ {s} /\ ended' = ended /\ hung' = hung
            /\ attention' \in {attention, attention \cup {s}}
            /\ faults' \in {faults, faults + 1} /\ (faults' = faults + 1 => faults < MaxFaults)
            /\ lock' \in {lock, 0}
            /\ child' = child \/ (NextDaemon \in Daemons /\ child' = [child EXCEPT ![s] = NextDaemon])
            /\ record' = record \/ (NextDaemon \in Daemons /\ record' = NextDaemon)
        <4>1. faults \in Nat
          BY <1>0
        <4>2. QED
          BY <2>3, <4>1, LaunchFacts
      <3>2. faults' \in 0 .. MaxFaults
        BY <1>0, <3>1
      <3>3. child' \in [Sidecars -> Daemons \cup {0}]
        BY <1>0, <3>1
      <3>4. QED
        BY <1>0, <3>1, <3>2, <3>3
    <2>4. ASSUME NEW s \in Sidecars, Claim(s) PROVE OwnTypes'
      BY <1>0, <2>4 DEF Claim, own, daemons
    <2>5. ASSUME NEW s \in Sidecars, ChildExit(s) PROVE OwnTypes'
      BY <1>0, <2>5 DEF ChildExit
    <2>6. ASSUME NEW s \in Sidecars, ListenerTimeout(s) PROVE OwnTypes'
      BY <1>0, <2>6 DEF ListenerTimeout, daemons
    <2>7. ASSUME NEW s \in Sidecars, EndedExits(s) PROVE OwnTypes'
      BY <1>0, <2>7 DEF EndedExits
    <2>8. ASSUME NEW s \in Sidecars, Leave(s) PROVE OwnTypes'
      BY <1>0, <2>8 DEF Leave
    <2>9. ASSUME NEW s \in Sidecars, SidecarHangs(s) PROVE OwnTypes'
      BY <1>0, <2>2, <2>9 DEF SidecarHangs, own, daemons
    <2>10. ASSUME NEW d \in Daemons, DaemonListens(d) \/ DaemonDies(d) \/ DaemonMutes(d)
           PROVE  OwnTypes'
      BY <1>0, <2>2, <2>10 DEF DaemonListens, DaemonDies, DaemonMutes, own
    <2>11. ASSUME NEW s \in Sidecars, Obey(s) \/ SidecarDies(s) PROVE OwnTypes'
      BY <1>0, <2>1, <2>2, <2>11 DEF Obey, SidecarDies
    <2>12. ASSUME NEW t \in {"app", "watchdog"}, Terminate(t) \/ Kill(t) PROVE OwnTypes'
      BY <1>0, <2>12 DEF Terminate, Kill, own, daemons
    <2>13. ASSUME \/ Start \/ SpawnReplacement \/ AppDies \/ UNCHANGED vars PROVE OwnTypes'
      BY <1>0, <2>1, <2>2, <2>13 DEF Start, SpawnReplacement, AppDies, vars
    <2>14. CASE UNCHANGED <<hung, own, daemons, lock, faults>>
      BY <1>0, <2>1, <2>14
    <2> HIDE DEF OwnTypes
    <2>15. ASSUME \/ StartRefused \/ Started \/ StartFails \/ ShutdownDone \/ Shutdown \/ Relaunch
                  \/ Notice \/ Respawn \/ Replaced \/ ReplacementFails \/ Discarded \/ WatchdogStops
           PROVE  OwnTypes'
      BY <2>15, <2>14
         DEF StartRefused, Started, StartFails, ShutdownDone, Shutdown, Relaunch, Notice, Respawn,
             Replaced, ReplacementFails, Discarded, WatchdogStops
    <2>16. QED
      BY <2>3, <2>4, <2>5, <2>6, <2>7, <2>8, <2>9, <2>10, <2>11, <2>12, <2>13, <2>15
         DEF Next, AppStep, WatchdogStep, SidecarStep
  <1>5. control' \in 0 .. MaxLaunches
    <2>1. launch' \in 1 .. MaxLaunches /\ control' \in 0 .. launch' /\ MaxLaunches \in Nat
      BY <1>1, BudgetAssumption DEF Shape, ProcessInv
    <2>2. QED
      BY <2>1
  <1>6. victim' \in [{"app", "watchdog"} -> Sidecars \cup {0}]
    BY <1>1 DEF Shape
  <1>7. QED
    BY <1>1, <1>2, <1>3, <1>4, <1>5, <1>6 DEF TypeOK, Shape, SidecarState, DaemonState

-----------------------------------------------------------------------------
(* What every step pays.                                                   *)

\* The facts of the invariant that the payments rest on.
LEMMA SupplyFacts ==
    ASSUME FullInv
    PROVE  /\ launch \in Nat /\ faults \in Nat
           /\ sidecar \in [Sidecars -> SidecarState] /\ daemon \in [Daemons -> DaemonState]
           /\ child \in [Sidecars -> Daemons \cup {0}] /\ ended \in [Sidecars -> Daemons \cup {0}]
           /\ process \in Sidecars \cup {0} /\ 0 \notin Sidecars
           /\ \A t \in {"app", "watchdog"} : victim[t] \in Sidecars \cup {0}
           /\ process # 0 => /\ sidecar[process] # "leaving"
                             /\ \A t \in {"app", "watchdog"} : victim[t] # process
           /\ watch \in {"spawning", "awaiting"} => app = "up"
  BY SidecarNumbers, CountNumbers
     DEF FullInv, TypeOK, IInv, Shape, ProcessInv, SidecarState, DaemonState

\* _spawn_sidecar: the spawn that was due is made.
LEMMA SpawnPaid ==
    ASSUME FullInv, Spawn, MaySpawn, app' # "down",
           UNCHANGED <<launch, faults, hung, own, daemons>>
    PROVE  SupplyInv'
  <1> DEFINE n == NextSidecar
  <1>1. n \in Sidecars /\ sidecar[n] = "absent" /\ n # 0
    BY SidecarLeft, SidecarNumbers DEF FullInv, IInv
  <1>2. /\ process' = n /\ sidecar'[n] = "born" /\ n \notin hung /\ ended[n] = 0
        /\ \A s \in Sidecars : s # n => sidecar'[s] = sidecar[s]
    BY <1>1 DEF Spawn, FullInv, TypeOK, IInv, DaemonInv, UnbornOwnsNothing, WaitInv
  <1> HIDE DEF n
  <1>3. ~MaySpawn'
    BY <1>1, <1>2 DEF MaySpawn, Exited, Stale, SidecarAlive, own
  <1>4. Candidates' \subseteq Candidates \cup {n} /\ UsedDaemons' = UsedDaemons
    BY <1>2 DEF Candidates, MayLaunch, UsedDaemons, own, daemons
  <1>5. QED
    BY <1>3, <1>4, SpawnUsed

\* A step of the application or of its watchdog alone.
LEMMA SidecarsAlone ==
    ASSUME FullInv, UNCHANGED <<sidecar, hung, own, daemons>>
    PROVE  Candidates' = Candidates /\ UsedDaemons' = UsedDaemons
  BY DEF Candidates, MayLaunch, UsedDaemons, own, daemons

\* A step that touches no process spends nothing.
LEMMA QuietStep ==
    ASSUME FullInv, UNCHANGED <<sidecar, hung, own, daemons, launch, faults>>,
           MaySpawn' => MaySpawn
    PROVE  SupplyInv'
  <1>1. launch' \in Nat /\ faults' \in Nat /\ launch' + faults' >= launch + faults
    BY SupplyFacts
  <1>2. QED
    BY <1>1, SidecarsAlone, SpendsNothing

\* The application: every spawn of a sidecar is paid by a launch or a fault.
LEMMA AppPays ==
    ASSUME FullInv,
           \/ Start \/ StartRefused \/ Started \/ StartFails \/ ShutdownDone \/ Shutdown
           \/ Relaunch \/ AppDies
    PROVE  SupplyInv'
  <1>1. CASE Start
    <2>1. MaySpawn
      BY <1>1 DEF Start, MaySpawn
    <2>2. QED
      BY <1>1, <2>1, SpawnPaid DEF Start
  <1>2. ASSUME StartRefused \/ StartFails \/ ShutdownDone \/ Shutdown PROVE SupplyInv'
    <2>1. UNCHANGED <<sidecar, hung, own, daemons, launch, faults>> /\ app' \in {"off", "stopping"}
      BY <1>2 DEF StartRefused, StartFails, ShutdownDone, Shutdown
    <2>2. ~MaySpawn'
      BY <2>1 DEF MaySpawn
    <2>3. QED
      BY <2>1, <2>2, QuietStep
  <1>3. CASE Started
    <2>1. UNCHANGED <<sidecar, hung, own, daemons, launch, faults, process>>
          /\ app = "starting" /\ app' = "up"
      BY <1>3 DEF Started, supervisor
    <2>2. MaySpawn' => MaySpawn
      BY <2>1 DEF MaySpawn, Exited, Stale, SidecarAlive, own
    <2>3. QED
      BY <2>1, <2>2, QuietStep
  <1>4. ASSUME Relaunch \/ AppDies PROVE SupplyInv'
    <2>1. /\ UNCHANGED <<sidecar, hung, own, daemons>>
          /\ \/ launch' = launch + 1 /\ faults' = faults
             \/ launch' = launch /\ faults' = faults + 1
      BY <1>4 DEF Relaunch, AppDies, Fault
    <2>2. launch' \in Nat /\ faults' \in Nat /\ launch' + faults' >= launch + faults + 1
      BY <2>1, SupplyFacts
    <2>3. Candidates' \subseteq Candidates /\ UsedDaemons' \subseteq UsedDaemons
      BY <2>1, SidecarsAlone
    <2>4. QED
      BY <2>2, <2>3, PaysForOne
  <1>5. QED
    BY <1>1, <1>2, <1>3, <1>4

\* The watchdog: it only replaces what a fault took.
LEMMA WatchdogPays ==
    ASSUME FullInv,
           \/ Notice \/ Respawn \/ SpawnReplacement \/ Replaced \/ ReplacementFails
           \/ Discarded \/ WatchdogStops
    PROVE  SupplyInv'
  <1>1. CASE Notice
    <2>1. MaySpawn /\ UNCHANGED <<sidecar, hung, own, daemons, launch, faults>>
      BY <1>1 DEF Notice, MaySpawn
    <2>2. QED
      BY <2>1, QuietStep
  <1>2. CASE SpawnReplacement
    <2>1. MaySpawn /\ app' # "down" /\ UNCHANGED <<launch, faults, hung, own, daemons>>
      BY <1>2, SupplyFacts DEF SpawnReplacement, MaySpawn, FullInv, WaitInv
    <2>2. CASE Spawn
      BY <2>1, <2>2, SpawnPaid
    <2>3. CASE UNCHANGED sidecar
      BY <2>1, <2>3, QuietStep
    <2>4. QED
      BY <1>2, <2>2, <2>3 DEF SpawnReplacement
  <1>3. CASE ReplacementFails
    <2>1. UNCHANGED <<sidecar, hung, own, daemons, launch, faults>>
      BY <1>3 DEF ReplacementFails
    <2>2. app = "up" /\ (Exited \/ process \in hung)
      BY <1>3, SupplyFacts DEF ReplacementFails
    <2>3. MaySpawn
      BY <2>2 DEF MaySpawn, Exited, Stale
    <2>4. QED
      BY <2>1, <2>3, QuietStep
  <1>4. ASSUME Respawn \/ Replaced \/ Discarded \/ WatchdogStops PROVE SupplyInv'
    <2>1. UNCHANGED <<sidecar, hung, own, daemons, launch, faults, app, process>>
      BY <1>4 DEF Respawn, Replaced, Discarded, WatchdogStops, supervisor
    <2>2. MaySpawn' => MaySpawn
      BY <2>1 DEF MaySpawn, Exited, Stale, SidecarAlive, own
    <2>3. QED
      BY <2>1, <2>2, QuietStep
  <1>5. QED
    BY <1>1, <1>2, <1>3, <1>4

\* The supervisor stops a sidecar that is not the one it relies on.
LEMMA StopPays ==
    ASSUME FullInv, NEW t \in {"app", "watchdog"}, Terminate(t) \/ Kill(t)
    PROVE  SupplyInv'
  <1> DEFINE s == victim[t]
  <1>1. /\ s \in Sidecars /\ s # process
        /\ sidecar'[s] \in {"gone", "leaving", "killed"}
        /\ \A r \in Sidecars : r # s => sidecar'[r] = sidecar[r]
        /\ UNCHANGED <<app, process, launch, faults, hung, own>>
    BY SupplyFacts DEF Terminate, Kill, Responsive, SidecarAlive, application, supervisor
  <1>2. \A d \in Daemons : /\ daemon'[d] # "absent" <=> daemon[d] # "absent"
                           /\ daemon'[d] # daemon[d] => parent[d] = s
    BY SupplyFacts DEF Terminate, Kill, daemons, DaemonAlive
  <1> HIDE DEF s
  <1>3. UsedDaemons' = UsedDaemons
    BY <1>2 DEF UsedDaemons
  <1>4. Candidates' \subseteq Candidates
    <2> SUFFICES ASSUME NEW r \in Sidecars, MayLaunch(r)' PROVE MayLaunch(r)
      BY DEF Candidates
    <2>1. r # s /\ sidecar'[r] = sidecar[r] /\ hung' = hung /\ backoff' = backoff /\ child' = child
      BY <1>1 DEF MayLaunch, own
    <2>2. child[r] # 0 => daemon'[child[r]] = daemon[child[r]]
      <3> SUFFICES ASSUME child[r] # 0 PROVE daemon'[child[r]] = daemon[child[r]]
        OBVIOUS
      <3>1. child[r] \in Daemons /\ parent[child[r]] = r
        BY SupplyFacts DEF FullInv, OwnInv
      <3>2. QED
        BY <1>2, <2>1, <3>1
    <2>3. QED
      BY <2>1, <2>2 DEF MayLaunch
  <1>5. MaySpawn' => MaySpawn
    BY <1>1, SupplyFacts DEF MaySpawn, Exited, Stale, SidecarAlive, own
  <1>6. launch' \in Nat /\ faults' \in Nat /\ launch' + faults' >= launch + faults
    BY <1>1, SupplyFacts
  <1>7. QED
    BY <1>3, <1>4, <1>5, <1>6, SpendsNothing

\* The steps of a sidecar that launches nothing: what it stops being pays for what it loses.
LEMMA SidecarPays ==
    ASSUME FullInv, NEW s \in Sidecars,
           \/ Claim(s) \/ ChildExit(s) \/ ListenerTimeout(s) \/ EndedExits(s) \/ Obey(s) \/ Leave(s)
    PROVE  SupplyInv'
  <1>0. /\ UNCHANGED <<app, process, launch, hung, faults>>
        /\ launch' \in Nat /\ faults' \in Nat /\ launch' + faults' >= launch + faults
    BY SupplyFacts
       DEF Claim, ChildExit, ListenerTimeout, EndedExits, Obey, Leave, application, supervisor
  <1>1. CASE Claim(s)
    <2>1. /\ sidecar[s] = "born" /\ s \notin hung /\ UNCHANGED <<own, daemons>>
          /\ sidecar'[s] \in {"booting", "gone"}
          /\ \A r \in Sidecars : r # s => sidecar'[r] = sidecar[r]
      BY <1>1, SupplyFacts DEF Claim
    <2>2. UsedDaemons' = UsedDaemons /\ s \in Candidates
      BY <2>1 DEF UsedDaemons, daemons, Candidates, MayLaunch
    <2>3. Candidates' \subseteq Candidates
      BY <1>0, <2>1 DEF Candidates, MayLaunch, own, daemons
    <2>4. CASE sidecar'[s] = "booting"
      <3>1. MaySpawn' => MaySpawn
        BY <1>0, <2>1, <2>4, SupplyFacts DEF MaySpawn, Exited, Stale, SidecarAlive, own
      <3>2. QED
        BY <1>0, <2>2, <2>3, <3>1, SpendsNothing
    <2>5. CASE sidecar'[s] = "gone"
      <3>1. s \notin Candidates'
        BY <2>5 DEF Candidates, MayLaunch
      <3>2. QED
        BY <1>0, <2>2, <2>3, <3>1, CandidateUsed
    <2>6. QED
      BY <2>1, <2>4, <2>5
  <1>2. CASE ChildExit(s)
    <2>1. /\ sidecar[s] = "running" /\ s \notin hung /\ child[s] # 0 /\ ~DaemonAlive(child[s])
          /\ child' = [child EXCEPT ![s] = 0] /\ backoff' \subseteq backoff \cup {s}
          /\ UNCHANGED <<sidecar, ended, daemon>>
      BY <1>2 DEF ChildExit, Responsive
    <2>2. child[s] \in Daemons /\ daemon[child[s]] = "gone"
      BY <2>1, SupplyFacts DEF FullInv, OwnInv, DaemonAlive
    <2>3. s \in Candidates
      BY <2>1, <2>2 DEF Candidates, MayLaunch
    <2>4. \A r \in Sidecars : r # s => child'[r] = child[r]
      BY <2>1, SupplyFacts
    <2>5. Candidates' \subseteq Candidates /\ UsedDaemons' = UsedDaemons
      BY <1>0, <2>1, <2>3, <2>4 DEF Candidates, MayLaunch, UsedDaemons
    <2>6. MaySpawn' => MaySpawn
      BY <1>0, <2>1 DEF MaySpawn, Exited, Stale, SidecarAlive
    <2>7. QED
      BY <1>0, <2>5, <2>6, SpendsNothing
  <1>3. CASE ListenerTimeout(s)
    <2>1. /\ sidecar[s] = "running" /\ s \notin hung /\ child[s] # 0 /\ daemon[child[s]] = "mute"
          /\ child' = [child EXCEPT ![s] = 0] /\ s \notin backoff
          /\ UNCHANGED <<sidecar, backoff, daemon>>
      BY <1>3 DEF ListenerTimeout, Responsive, daemons, FullInv, IInv, DaemonInv, OneAtATime
    <2>2. s \in Candidates
      BY <2>1 DEF Candidates, MayLaunch
    <2>3. child'[s] = 0 /\ \A r \in Sidecars : r # s => child'[r] = child[r]
      BY <2>1, SupplyFacts
    <2>4. Candidates' \subseteq Candidates \ {s} /\ UsedDaemons' = UsedDaemons
      BY <1>0, <2>1, <2>3 DEF Candidates, MayLaunch, UsedDaemons
    <2>5. QED
      BY <1>0, <2>2, <2>4, CandidateUsed
  <1>4. CASE EndedExits(s)
    <2>1. /\ ended[s] # 0 /\ UNCHANGED <<sidecar, child, backoff>>
          /\ daemon' = [daemon EXCEPT ![ended[s]] = "gone"]
          /\ ended' = [ended EXCEPT ![s] = 0]
      BY <1>4 DEF EndedExits
    <2>2. ended[s] \in Daemons /\ daemon[ended[s]] # "absent" /\ parent[ended[s]] = s
      BY <2>1, SupplyFacts DEF FullInv, OwnInv
    <2>3. child[s] = 0
      BY <2>1 DEF FullInv, IInv, DaemonInv, OneAtATime
    <2>4. \A d \in Daemons : d # ended[s] => daemon'[d] = daemon[d]
      BY <2>1, SupplyFacts
    <2>5. UsedDaemons' \subseteq UsedDaemons
      BY <2>2, <2>4 DEF UsedDaemons
    <2>6. \A r \in Sidecars : child[r] # 0 => daemon'[child[r]] = daemon[child[r]]
      <3> SUFFICES ASSUME NEW r \in Sidecars, child[r] # 0
                   PROVE  daemon'[child[r]] = daemon[child[r]]
        OBVIOUS
      <3>1. child[r] \in Daemons /\ parent[child[r]] = r
        BY SupplyFacts DEF FullInv, OwnInv
      <3>2. child[r] # ended[s]
        BY <2>2, <2>3, <3>1
      <3>3. QED
        BY <2>4, <3>1, <3>2
    <2>7. Candidates' \subseteq Candidates
      BY <1>0, <2>1, <2>6 DEF Candidates, MayLaunch
    <2>8. MaySpawn' => MaySpawn
      <3>1. process # 0 /\ ended'[process] # 0 => ended[process] # 0
        BY <2>1, SupplyFacts
      <3>2. QED
        BY <1>0, <2>1, <3>1, SupplyFacts DEF MaySpawn, Exited, Stale, SidecarAlive
    <2>9. QED
      BY <1>0, <2>5, <2>7, <2>8, SpendsNothing
  <1>5. CASE Obey(s)
    <2>1. /\ sidecar[s] = "running" /\ UNCHANGED <<own, daemons>>
          /\ sidecar'[s] = "leaving" /\ \A r \in Sidecars : r # s => sidecar'[r] = sidecar[r]
      BY <1>5, SupplyFacts DEF Obey
    <2>2. Candidates' \subseteq Candidates /\ UsedDaemons' = UsedDaemons
      BY <1>0, <2>1 DEF Candidates, MayLaunch, UsedDaemons, own, daemons
    <2>3. MaySpawn' => MaySpawn
      BY <1>0, <2>1, SupplyFacts DEF MaySpawn, Exited, Stale, SidecarAlive, own
    <2>4. QED
      BY <1>0, <2>2, <2>3, SpendsNothing
  <1>6. CASE Leave(s)
    <2>1. /\ sidecar[s] = "leaving" /\ UNCHANGED <<child, ended>> /\ backoff' = backoff \ {s}
          /\ sidecar'[s] = "left" /\ (\A r \in Sidecars : r # s => sidecar'[r] = sidecar[r])
          /\ \A d \in Daemons : daemon'[d] = IF d = child[s] THEN "gone" ELSE daemon[d]
      BY <1>6, SupplyFacts DEF Leave
    <2>2. UsedDaemons' \subseteq UsedDaemons
      <3> SUFFICES ASSUME NEW d \in Daemons, daemon'[d] # "absent" PROVE daemon[d] # "absent"
        BY DEF UsedDaemons
      <3>1. CASE d = child[s]
        <4>1. child[s] # 0
          BY <3>1, DaemonNumbers
        <4>2. QED
          BY <3>1, <4>1 DEF FullInv, OwnInv
      <3>2. CASE d # child[s]
        BY <2>1, <3>2
      <3>3. QED
        BY <3>1, <3>2
    <2>3. Candidates' \subseteq Candidates
      <3> SUFFICES ASSUME NEW r \in Sidecars, MayLaunch(r)' PROVE MayLaunch(r)
        BY DEF Candidates
      <3>1. r # s /\ sidecar'[r] = sidecar[r] /\ child'[r] = child[r] /\ (r \in backoff' => r \in backoff)
        BY <2>1 DEF MayLaunch
      <3>2. child[r] # 0 => daemon'[child[r]] = daemon[child[r]]
        <4> SUFFICES ASSUME child[r] # 0 PROVE daemon'[child[r]] = daemon[child[r]]
          OBVIOUS
        <4>1. child[r] \in Daemons /\ parent[child[r]] = r
          BY SupplyFacts DEF FullInv, OwnInv
        <4>2. child[s] # 0 => parent[child[s]] = s
          BY DEF FullInv, OwnInv
        <4>3. child[r] # child[s]
          BY <3>1, <4>1, <4>2
        <4>4. QED
          BY <2>1, <4>1, <4>3
      <3>3. QED
        BY <1>0, <3>1, <3>2 DEF MayLaunch
    <2>4. process # s
      BY <2>1, SupplyFacts
    <2>5. MaySpawn' => MaySpawn
      BY <1>0, <2>1, <2>4, SupplyFacts DEF MaySpawn, Exited, Stale, SidecarAlive
    <2>6. QED
      BY <1>0, <2>2, <2>3, <2>5, SpendsNothing
  <1>7. QED
    BY <1>1, <1>2, <1>3, <1>4, <1>5, <1>6

\* ensureDaemon: a candidate becomes a daemon, or a sidecar that gives up.
LEMMA LaunchPays ==
    ASSUME FullInv, NEW s \in Sidecars, EnsureDaemon(s)
    PROVE  SupplyInv'
  <1>1. /\ s \in Candidates /\ child[s] = 0 /\ ended[s] = 0
        /\ UNCHANGED <<app, process, launch, hung>> /\ backoff' = backoff \ {s} /\ ended' = ended
        /\ sidecar[s] \in {"booting", "running"}
    BY LaunchFacts DEF EnsureDaemon
  <1>2. ASSUME NEW n \in Daemons, daemon[n] = "absent",
               daemon' = [daemon EXCEPT ![n] = "starting"],
               child' = [child EXCEPT ![s] = n],
               sidecar' = [sidecar EXCEPT ![s] = "running"], faults' = faults
        PROVE  SupplyInv'
    <2>1. /\ daemon'[n] = "starting" /\ (\A d \in Daemons : d # n => daemon'[d] = daemon[d])
          /\ child'[s] = n /\ sidecar'[s] = "running"
          /\ \A r \in Sidecars : r # s => child'[r] = child[r] /\ sidecar'[r] = sidecar[r]
      BY <1>2, SupplyFacts
    <2>2. UsedDaemons' \subseteq UsedDaemons \cup {n}
      BY <2>1 DEF UsedDaemons
    <2>3. s \notin Candidates'
      BY <1>1, <2>1 DEF Candidates, MayLaunch
    <2>4. Candidates' \subseteq Candidates
      <3> SUFFICES ASSUME NEW r \in Sidecars, r # s, MayLaunch(r)' PROVE MayLaunch(r)
        BY <2>3 DEF Candidates
      <3>1. child[r] # 0 => daemon'[child[r]] = daemon[child[r]]
        <4>1. child[r] # 0 => child[r] \in Daemons /\ daemon[child[r]] # "absent"
          BY SupplyFacts DEF FullInv, OwnInv
        <4>2. QED
          BY <1>2, <2>1, <4>1
      <3>2. QED
        BY <1>1, <2>1, <3>1 DEF MayLaunch
    <2>5. MaySpawn' => MaySpawn
      BY <1>1, <2>1, SupplyFacts DEF MaySpawn, Exited, Stale, SidecarAlive
    <2>6. launch' \in Nat /\ faults' \in Nat /\ launch' + faults' >= launch + faults
      BY <1>1, <1>2, SupplyFacts
    <2>7. QED
      BY <1>1, <2>2, <2>3, <2>4, <2>5, <2>6, CandidateUsed
  <1>3. ASSUME UNCHANGED <<child, daemon>>, faults' \in {faults, faults + 1},
               \/ sidecar[s] = "booting" /\ sidecar' = [sidecar EXCEPT ![s] = "left"]
               \/ sidecar[s] = "running" /\ UNCHANGED sidecar
        PROVE  SupplyInv'
    <2>1. /\ sidecar'[s] \in {"left", "running"}
          /\ \A r \in Sidecars : r # s => sidecar'[r] = sidecar[r]
      BY <1>3, SupplyFacts
    <2>2. Candidates' \subseteq Candidates \ {s}
      BY <1>1, <1>3, <2>1 DEF Candidates, MayLaunch
    <2>3. UsedDaemons' \subseteq UsedDaemons
      BY <1>3 DEF UsedDaemons
    <2>4. launch' \in Nat /\ faults' \in Nat /\ launch' + faults' >= launch + faults
      BY <1>1, <1>3, SupplyFacts
    <2>5. QED
      BY <1>1, <2>2, <2>3, <2>4, CandidateUsed
  <1>4. QED
    BY <1>2, <1>3, LaunchFacts

\* A fault pays for one sidecar that may launch a daemon, or one spawn.
LEMMA FaultPays ==
    ASSUME FullInv,
           \/ \E s \in Sidecars : SidecarDies(s) \/ SidecarHangs(s)
           \/ \E d \in Daemons : DaemonDies(d) \/ DaemonMutes(d)
    PROVE  SupplyInv'
  <1>0. /\ UNCHANGED <<app, process, launch, own>> /\ faults' = faults + 1
        /\ launch' \in Nat /\ faults' \in Nat /\ launch' + faults' >= launch + faults + 1
    BY SupplyFacts DEF SidecarDies, SidecarHangs, DaemonDies, DaemonMutes, Fault, application, supervisor
  <1>1. ASSUME NEW s \in Sidecars, SidecarDies(s) \/ SidecarHangs(s) PROVE SupplyInv'
    <2>1. /\ UNCHANGED daemons /\ hung \subseteq hung'
          /\ \A r \in Sidecars : sidecar'[r] # sidecar[r] => sidecar'[r] = "gone"
      BY <1>1, SupplyFacts DEF SidecarDies, SidecarHangs
    <2>2. Candidates' \subseteq Candidates /\ UsedDaemons' = UsedDaemons
      BY <1>0, <2>1 DEF Candidates, MayLaunch, UsedDaemons, own, daemons
    <2>3. QED
      BY <1>0, <2>2, PaysForOne
  <1>2. ASSUME NEW d \in Daemons, DaemonDies(d) \/ DaemonMutes(d) PROVE SupplyInv'
    <2>1. /\ UNCHANGED <<sidecar, hung>> /\ daemon[d] # "absent"
          /\ \A e \in Daemons : e # d => daemon'[e] = daemon[e]
      BY <1>2, SupplyFacts DEF DaemonDies, DaemonMutes, DaemonAlive
    <2>2. UsedDaemons' \subseteq UsedDaemons
      BY <2>1 DEF UsedDaemons
    <2>3. Candidates' \subseteq Candidates \cup {parent[d]}
      <3> SUFFICES ASSUME NEW r \in Sidecars, MayLaunch(r)', r # parent[d] PROVE MayLaunch(r)
        BY DEF Candidates
      <3>1. child[r] # 0 => child[r] \in Daemons /\ parent[child[r]] = r
        BY SupplyFacts DEF FullInv, OwnInv
      <3>2. child[r] # 0 => daemon'[child[r]] = daemon[child[r]]
        BY <2>1, <3>1
      <3>3. QED
        BY <1>0, <2>1, <3>2 DEF MayLaunch, own
    <2>4. MaySpawn' => MaySpawn
      BY <1>0, <2>1 DEF MaySpawn, Exited, Stale, SidecarAlive, own
    <2>5. QED
      BY <1>0, <2>2, <2>3, <2>4, PaysForOne
  <1>3. QED
    BY <1>1, <1>2

\* Every step keeps the supply.
LEMMA SupplyKeeps == FullInv /\ [Next]_vars => SupplyInv'
  <1> SUFFICES ASSUME FullInv, [Next]_vars PROVE SupplyInv'
    OBVIOUS
  <1>1. ASSUME NEW d \in Daemons, DaemonListens(d) PROVE SupplyInv'
    <2>1. /\ daemon[d] = "starting" /\ daemon' = [daemon EXCEPT ![d] = "listening"]
          /\ UNCHANGED <<app, process, launch, faults, sidecar, hung, own>>
      BY <1>1 DEF DaemonListens, application, supervisor
    <2>2. UsedDaemons' \subseteq UsedDaemons
      BY <2>1, SupplyFacts DEF UsedDaemons
    <2>3. Candidates' \subseteq Candidates
      <3> SUFFICES ASSUME NEW r \in Sidecars, MayLaunch(r)' PROVE MayLaunch(r)
        BY DEF Candidates
      <3>1. child[r] # 0 /\ daemon'[child[r]] \in {"mute", "gone"} => daemon[child[r]] \in {"mute", "gone"}
        BY <2>1, SupplyFacts
      <3>2. QED
        BY <2>1, <3>1 DEF MayLaunch, own
    <2>4. MaySpawn' => MaySpawn
      BY <2>1 DEF MaySpawn, Exited, Stale, SidecarAlive, own
    <2>5. launch' \in Nat /\ faults' \in Nat /\ launch' + faults' >= launch + faults
      BY <2>1, SupplyFacts
    <2>6. QED
      BY <2>2, <2>3, <2>4, <2>5, SpendsNothing
  <1>2. CASE UNCHANGED vars
    <2>1. UNCHANGED <<sidecar, hung, own, daemons, launch, faults, app, process>>
      BY <1>2 DEF vars, application, supervisor
    <2>2. MaySpawn' => MaySpawn
      BY <2>1 DEF MaySpawn, Exited, Stale, SidecarAlive, own
    <2>3. QED
      BY <2>1, <2>2, QuietStep
  <1>3. QED
    BY <1>1, <1>2, AppPays, WatchdogPays, StopPays, SidecarPays, LaunchPays, FaultPays
       DEF Next, AppStep, WatchdogStep, SidecarStep

\* Before the first launch nothing is due but the first sidecar.
LEMMA InitIsPaid == Init => FullInv
  <1> SUFFICES ASSUME Init PROVE FullInv
    OBVIOUS
  <1>1. IInv
    BY InitHolds
  <1>2. TypeOK
    BY BudgetAssumption DEF Init, TypeOK
  <1>3. UsedDaemons = {} /\ Candidates = {}
    BY DEF Init, UsedDaemons, Candidates, MayLaunch
  <1>4. SupplyInv
    BY <1>3, FS_EmptySet DEF SupplyInv, Due, Init
  <1>5. OwnInv /\ ExitInv /\ WaitInv
    BY BudgetAssumption DEF Init, OwnInv, ExitInv, WaitInv
  <1>6. QED
    BY <1>1, <1>2, <1>4, <1>5 DEF FullInv

-----------------------------------------------------------------------------
(* The theorems.                                                           *)

\* The invariant of the safety theorems.
LEMMA BridgeInvariant == Spec => []IInv
  <1>1. IInv /\ [Next]_vars => IInv'
    BY ShapeKeeps, LockKeeps, SpawnKeeps, DaemonKeeps, ProcessKeeps DEF IInv
  <1>2. QED
    BY InitHolds, <1>1, PTL DEF Spec

\* At most one sidecar owns the bridge, through replacements, crashes and
\* launches (claimSupervisorLock, _remove_stale_owner_lock).
THEOREM BridgeHasOneOwner == Spec => []OneOwner
  <1>1. IInv => OneOwner
    BY DEF IInv, LockInv, OneOwner, Owning
  <1>2. QED
    BY BridgeInvariant, <1>1, PTL

\* No launch spawns more sidecars than its restart budget allows
\* (_recover_sidecar).
THEOREM LaunchesKeepTheBudget == Spec => []SpawnsWithinBudget
  <1>1. IInv => SpawnsWithinBudget
    BY DEF IInv, SpawnInv
  <1>2. QED
    BY BridgeInvariant, <1>1, PTL

\* A sidecar that leaves or is killed takes its daemon with it, but for the one it
\* was stopping (shutdown in wtscli_lifecycle_sidecar.mjs, _stop_process).
THEOREM NoDaemonIsLeft == Spec => []LeavesNoDaemon
  <1>1. IInv => LeavesNoDaemon
    BY DEF IInv, DaemonInv
  <1>2. QED
    BY BridgeInvariant, <1>1, PTL

\* The sidecar of a running supervisor is never told to leave by a request or a
\* termination meant for another (controlRequestsShutdown, _recover_sidecar).
THEOREM SidecarsAreNotShotAstray == Spec => []NoStrayShutdown
  <1>1. IInv => NoStrayShutdown
    BY DEF IInv, ProcessInv, NoStrayShutdown
  <1>2. QED
    BY BridgeInvariant, <1>1, PTL

\* The invariant of the types.
LEMMA SupplyInvariant == Spec => []FullInv
  <1>1. FullInv /\ [Next]_vars => FullInv'
    <2> SUFFICES ASSUME FullInv, [Next]_vars PROVE FullInv'
      OBVIOUS
    <2>1. IInv'
      BY ShapeKeeps, LockKeeps, SpawnKeeps, DaemonKeeps, ProcessKeeps DEF IInv, FullInv
    <2>2. QED
      BY <2>1, TypesKeep, SupplyKeeps, OwnKeeps, ExitKeeps, WaitKeeps DEF FullInv
  <1>2. QED
    BY InitIsPaid, <1>1, PTL DEF Spec

\* The states, numbers and files of the bridge stay within their types: a sidecar and
\* a daemon always find a number, restartCount passes MaxRestarts by one at most
\* (handleChildExit), and owner lock, ownership record and control file name what
\* exists (_spawn_sidecar, ensureDaemon).
THEOREM BridgeTypes == Spec => []TypeOK
  <1>1. FullInv => TypeOK
    BY DEF FullInv
  <1>2. QED
    BY SupplyInvariant, <1>1, PTL

\* ensureDaemon never launches daemons in a row by itself: after the first of a launch
\* each one replaces a daemon, or serves a sidecar, that a fault took.
THEOREM DaemonsArePaidFor == Spec => [](Cardinality({d \in Daemons : daemon[d] # "absent"}) <= launch + faults)
  <1> DEFINE Paid == Cardinality(UsedDaemons) <= launch + faults
  <1>1. FullInv => Paid
    <2> SUFFICES ASSUME FullInv PROVE Paid
      OBVIOUS
    <2>1. Cardinality(UsedDaemons) + Cardinality(Candidates) + Due <= launch + faults /\ Due \in Nat
      BY DEF FullInv, SupplyInv, Due
    <2>2. QED
      BY <2>1, CountNumbers
  <1>2. Paid => Cardinality({d \in Daemons : daemon[d] # "absent"}) <= launch + faults
    BY DEF UsedDaemons
  <1> HIDE DEF Paid
  <1>3. QED
    BY SupplyInvariant, <1>1, <1>2, PTL
=============================================================================
