------------------------ MODULE WorkbenchTurnProofs ------------------------
(***************************************************************************)
(* Proofs about WorkbenchTurn for any idempotency keys of any scopes and   *)
(* any number of concurrent handlers, requests and faults.                 *)
(*                                                                         *)
(* The invariant says of a handler that has not lost its lease that the    *)
(* operation of its key is its own (Authority), of the transcript what the *)
(* operations and the handlers may conclude from it (Asked, Answers), and  *)
(* of the start keys that each was approved before it made its one run     *)
(* (Started).                                                              *)
(***************************************************************************)
EXTENDS WorkbenchTurn, FiniteSetTheorems, SequenceTheorems, WellFoundedInduction, TLAPS

\* Handlers have tokens of their own, and nobody holds one that was not given.
Identity ==
    /\ \A c \in Clients : At(c, "idle") => req[c] = Idle
    /\ \A c \in Clients : ~At(c, "idle") => Key(c) \in Keys /\ req[c].token \in 1 .. requests
    /\ \A c, d \in Clients :
          c # d /\ ~At(c, "idle") /\ ~At(d, "idle") => req[c].token # req[d].token
    /\ \A t \in stalled : t <= requests
    /\ \A k \in Keys : ops[k].owner <= requests /\ (ops[k].status = "running" => ops[k].owner # 0)

Working(c) == ~At(c, "idle") /\ ~At(c, "claim") /\ Key(c) \in Turns

\* A handler of a turn that has not lost its lease owns the operation.
Authority ==
    \A c \in Clients : Working(c) /\ req[c].token \notin stalled => Owns(c) /\ Key(c) \notin expired

\* Nobody can begin to ask, or is about to, after an answer was asked for.
Asked ==
    /\ AskedOnce
    /\ \A k \in Turns : ~Answered(k) /\ (ops[k].status = "none" \/ k \in expired) => asks[k] = 0
    /\ \A c \in Clients :
          /\ Key(c) \in Turns /\ req[c].token \notin stalled
          /\ At(c, "agent") \/ (At(c, "check") /\ ~Answered(Key(c)))
          => asks[Key(c)] = 0

Answers ==
    /\ CompletedIsAnswered
    /\ \A c \in Clients : At(c, "complete") => Answered(Key(c)) \/ Readonly
    /\ \A c \in Clients : At(c, "point") => req[c].target # 0

\* A run of the store that a confirmation under the key started.
Names(run, k) == run \in DOMAIN runs /\ runs[run].key = <<0, k>>

\* A start key makes a run only after a form was approved under it, and what a
\* confirmation makes the conversation point at is the run of its key.
Started ==
    /\ OneRunPerConfirmation
    /\ \A i \in DOMAIN runs : runs[i].key[1] = 0 => approved[runs[i].key[2]] # 0
    /\ \A c \in Clients : At(c, "approve") => req[c].held # 0
    /\ \A c \in Clients : At(c, "start") => approved[Key(c)] # 0
    /\ \A c \in Clients : At(c, "probe") => req[c].target # 0
    /\ \A c \in Clients : At(c, "recheck") \/ At(c, "probe") => Kind[Key(c)] = "recheck"
    /\ \A c \in Clients : At(c, "view") => Kind[Key(c)] = "view"
    /\ \A c \in Clients :
          At(c, "confirmed") \/ (At(c, "point") /\ Kind[Key(c)] \notin {"recheck", "view"})
          => Names(req[c].target, Key(c))

IInv == TypeOK /\ Identity /\ Authority /\ Asked /\ Answers /\ Started

-----------------------------------------------------------------------------
(* The transcript.                                                         *)

\* The last of finitely many positions.
LEMMA LargestExists ==
    ASSUME NEW n \in Nat, NEW S, S \subseteq 1 .. n, S # {}
    PROVE  \E x \in S : \A y \in S : y <= x
  <1> DEFINE R == {ss \in Nat \X Nat : ss[1] < ss[2]}
             T == {n - x : x \in S}
  <1>1. IsWellFoundedOn(R, Nat)
    BY NatLessThanWellFounded DEF OpToRel
  <1>2. \A i, j \in Nat : i < j => <<i, j>> \in R
    OBVIOUS
  <1>3. T \subseteq Nat /\ T # {}
    <2>1. \A x \in S : x \in 1 .. n
      OBVIOUS
    <2>2. \A x \in 1 .. n : n - x \in Nat
      OBVIOUS
    <2>3. PICK x \in S : TRUE
      OBVIOUS
    <2>4. n - x \in T
      BY <2>3
    <2>5. QED
      BY <2>1, <2>2, <2>4
  <1> HIDE DEF R
  <1>4. PICK m \in T : \A y \in T : ~(<<y, m>> \in R)
    BY <1>1, <1>3, WFMin
  <1>5. PICK x \in S : m = n - x
    BY <1>4
  <1>6. \A y \in S : n - y \in T
    OBVIOUS
  <1> HIDE DEF T
  <1>7. \A y \in S : ~(n - y < n - x)
    BY <1>2, <1>3, <1>4, <1>5, <1>6
  <1>8. \A y \in S : y \in Nat /\ x \in Nat
    OBVIOUS
  <1>9. QED
    BY <1>7, <1>8

\* _latest_requirement_form_payload finds a form of the transcript.
LEMMA FormTypes == TypeOK => LatestForm \in Nat /\ NewForm \in Nat
  <1> SUFFICES ASSUME TypeOK PROVE LatestForm \in Nat /\ NewForm \in Nat
    OBVIOUS
  <1>1. events \in Seq(Event) /\ Len(events) \in Nat /\ DOMAIN events = 1 .. Len(events)
    BY DEF TypeOK
  <1>2. \A i \in DOMAIN events : events[i].form \in Nat
    <2>1. \A e \in Event : e.form \in Nat
      BY DEF Event
    <2>2. \A i \in DOMAIN events : events[i] \in Event
      BY <1>1
    <2>3. QED
      BY <2>1, <2>2
  <1>3. LatestForm \in Nat
    <2>1. CASE FormEvents = {}
      BY <2>1 DEF LatestForm
    <2>2. CASE FormEvents # {}
      <3>1. FormEvents \subseteq DOMAIN events
        BY DEF FormEvents
      <3>2. \E i \in FormEvents : \A j \in FormEvents : j <= i
        BY <1>1, <2>2, <3>1, LargestExists
      <3>3. (CHOOSE i \in FormEvents : \A j \in FormEvents : j <= i) \in FormEvents
        BY <3>2
      <3>4. QED
        BY <1>2, <2>2, <3>1, <3>3 DEF LatestForm
    <2>3. QED
      BY <2>1, <2>2
  <1>4. QED
    BY <1>3 DEF NewForm

Types ==
    {"user", "assistant", "error", "form", "amended", "confirmed", "submission", "status"}

\* What an event of the transcript has said, it goes on saying.
LEMMA PostEffect ==
    ASSUME TypeOK, NEW c \in Clients, NEW form \in Nat, NEW run \in Nat,
           NEW type \in Types,
           Post(c, type, form, run)
    PROVE  /\ events' \in Seq(Event)
           /\ \A t, k : Has(t, k) => Has(t, k)'
           /\ \E i \in DOMAIN events' : events'[i].type = type /\ events'[i].key = Key(c)
           /\ (\E i \in DOMAIN events : events[i].type = "confirmed")
                 => \E i \in DOMAIN events' : events'[i].type = "confirmed"
           /\ \A i \in DOMAIN events' :
                 \/ i \in DOMAIN events /\ events'[i] = events[i]
                 \/ events'[i].type = type /\ events'[i].key = Key(c) /\ events'[i].run = run
  <1> DEFINE e == [type |-> type, key |-> req[c].key, form |-> form, run |-> run]
  <1>1. e \in Event
    BY DEF TypeOK, Request, Event, Types
  <1>2. CASE Has(type, req[c].key)
    BY <1>2 DEF Post, Has, TypeOK, Key
  <1>3. CASE ~Has(type, req[c].key)
    <2>1. events' = Append(events, e)
      BY <1>3 DEF Post
    <2>2. e.type = type /\ e.key = Key(c) /\ e.run = run
      BY DEF Key
    <2> HIDE DEF e
    <2>3. /\ events' \in Seq(Event) /\ Len(events') = Len(events) + 1
          /\ \A i \in 1 .. Len(events) : events'[i] = events[i]
          /\ events'[Len(events) + 1] = e
          /\ DOMAIN events = 1 .. Len(events) /\ DOMAIN events' = 1 .. (Len(events) + 1)
          /\ Len(events) \in Nat
      BY <1>1, <2>1 DEF TypeOK
    <2>4. \A i \in DOMAIN events : i \in DOMAIN events' /\ events'[i] = events[i]
      BY <2>3
    <2>5. Len(events) + 1 \in DOMAIN events'
      BY <2>3
    <2>6. QED
      BY <2>2, <2>3, <2>4, <2>5 DEF Has
  <1>4. QED
    BY <1>2, <1>3

-----------------------------------------------------------------------------
(* The handlers.                                                           *)

\* A handler goes on with its request.
Moved(c, at, held, target) ==
    req' = [req EXCEPT ![c] = [at |-> at, key |-> Key(c), token |-> req[c].token,
                               held |-> held, target |-> target]]

\* The updates of a row the handlers make.
LEMMA RowUpdates ==
    ASSUME TypeOK, NEW c \in Clients, NEW at, NEW held, NEW target
    PROVE  LET r == req[c]
           IN /\ req' = [req EXCEPT ![c].at = at] => Moved(c, at, r.held, r.target)
              /\ req' = [req EXCEPT ![c].at = at, ![c].held = held] => Moved(c, at, held, r.target)
              /\ req' = [req EXCEPT ![c].at = at, ![c].target = target] => Moved(c, at, r.held, target)
              /\ req' = [req EXCEPT ![c].at = at, ![c].held = held, ![c].target = target]
                    => Moved(c, at, held, target)
  <1> DEFINE r == req[c]  T == Tokens \cup {0}  K == Keys \cup {""}  L == Labels  N == Nat
             Row(h, t) == [at |-> at, key |-> r.key, token |-> r.token, held |-> h, target |-> t]
  <1>1. Request = [at : L, key : K, token : T, held : N, target : N]
    BY DEF Request
  <1>2. r \in Request /\ req \in [Clients -> Request]
    BY DEF TypeOK
  <1> HIDE DEF T, K, L, N
  <1>3. /\ [r EXCEPT !.at = at] = Row(r.held, r.target)
        /\ [r EXCEPT !.at = at, !.held = held] = Row(held, r.target)
        /\ [r EXCEPT !.at = at, !.target = target] = Row(r.held, target)
        /\ [r EXCEPT !.at = at, !.held = held, !.target = target] = Row(held, target)
    <2> HIDE DEF r
    <2>1. [r EXCEPT !.at = at] = Row(r.held, r.target)
      BY <1>1, <1>2
    <2>2. [[r EXCEPT !.at = at] EXCEPT !.held = held] = [Row(r.held, r.target) EXCEPT !.held = held]
      BY <2>1
    <2>3. [[r EXCEPT !.at = at] EXCEPT !.target = target] = [Row(r.held, r.target) EXCEPT !.target = target]
      BY <2>1
    <2>4. [r EXCEPT !.at = at, !.held = held] = Row(held, r.target)
      BY <2>2
    <2>5. [r EXCEPT !.at = at, !.target = target] = Row(r.held, target)
      BY <2>3
    <2>6. [[r EXCEPT !.at = at, !.held = held] EXCEPT !.target = target]
            = [Row(held, r.target) EXCEPT !.target = target]
      BY <2>4
    <2>7. [r EXCEPT !.at = at, !.held = held, !.target = target] = Row(held, target)
      BY <2>6
    <2>8. QED
      BY <2>1, <2>4, <2>5, <2>7
  <1>4. /\ [req EXCEPT ![c].at = at] = [req EXCEPT ![c] = [r EXCEPT !.at = at]]
        /\ [req EXCEPT ![c].at = at, ![c].held = held] = [req EXCEPT ![c] = [r EXCEPT !.at = at, !.held = held]]
        /\ [req EXCEPT ![c].at = at, ![c].target = target]
              = [req EXCEPT ![c] = [r EXCEPT !.at = at, !.target = target]]
        /\ [req EXCEPT ![c].at = at, ![c].held = held, ![c].target = target]
              = [req EXCEPT ![c] = [r EXCEPT !.at = at, !.held = held, !.target = target]]
    BY <1>2
  <1> HIDE DEF Row
  <1>5. /\ [req EXCEPT ![c].at = at] = [req EXCEPT ![c] = Row(r.held, r.target)]
        /\ [req EXCEPT ![c].at = at, ![c].held = held] = [req EXCEPT ![c] = Row(held, r.target)]
        /\ [req EXCEPT ![c].at = at, ![c].target = target] = [req EXCEPT ![c] = Row(r.held, target)]
        /\ [req EXCEPT ![c].at = at, ![c].held = held, ![c].target = target]
              = [req EXCEPT ![c] = Row(held, target)]
    BY <1>3, <1>4
  <1>6. \A h, t : Row(h, t) = [at |-> at, key |-> req[c].key, token |-> req[c].token,
                              held |-> h, target |-> t]
    BY DEF Row
  <1>7. \A h, t : req' = [req EXCEPT ![c] = Row(h, t)] => Moved(c, at, h, t)
    BY <1>6 DEF Moved, Key
  <1>8. QED
    BY <1>5, <1>7

LEMMA GotoMoves ==
    ASSUME TypeOK, NEW c \in Clients, NEW at \in Labels, Goto(c, at)
    PROVE  Moved(c, at, req[c].held, req[c].target)
  BY RowUpdates DEF Goto

LEMMA HeldMoves ==
    ASSUME TypeOK, NEW c \in Clients, NEW at, NEW held,
           req' = [req EXCEPT ![c].at = at, ![c].held = held]
    PROVE  Moved(c, at, held, req[c].target)
  BY RowUpdates

LEMMA TargetMoves ==
    ASSUME TypeOK, NEW c \in Clients, NEW at, NEW target,
           req' = [req EXCEPT ![c].at = at, ![c].target = target]
    PROVE  Moved(c, at, req[c].held, target)
  BY RowUpdates

LEMMA BothMove ==
    ASSUME TypeOK, NEW c \in Clients, NEW at, NEW held, NEW target,
           req' = [req EXCEPT ![c].at = at, ![c].held = held, ![c].target = target]
    PROVE  Moved(c, at, held, target)
  BY RowUpdates

\* What the step of a handler does to its row.
Moves(c, at, held, target) ==
    /\ Moved(c, at, held, target)
    /\ at \in Labels \ {"idle", "claim", "admit", "recheck", "view"}
    /\ held \in Nat /\ target \in 0 .. Len(runs')
    /\ at = "check" => Claim(c)
    /\ at = "agent" => Check(c) /\ ~Answered(Key(c))
    /\ at = "complete" => Readonly \/ Answered(Key(c)) \/ Answer(c)
    /\ at \in {"point", "probe"} => target # 0
    /\ at = "approve" => held # 0
    /\ at = "start" => Approve(c)
    /\ at = "probe" => Recheck(c)
    /\ at = "point" =>
          Recheck(c) \/ View(c) \/ Probe(c) \/ (StartRun(c) /\ runs'[target].key = <<0, Key(c)>>)
    /\ at = "confirmed" => Point(c) /\ target = req[c].target

MovesOn(c) == \E at, held, target : Moves(c, at, held, target)

\* A step that only changes the label.
LEMMA GotoMovesOn ==
    ASSUME TypeOK, NEW c \in Clients, NEW at \in Labels, Goto(c, at), runs' = runs,
           at \notin {"idle", "claim", "admit", "recheck", "view", "point", "probe", "approve"},
           at = "check" => Claim(c),
           at = "agent" => Check(c) /\ ~Answered(Key(c)),
           at = "complete" => Readonly \/ Answered(Key(c)) \/ Answer(c),
           at = "start" => Approve(c),
           at = "confirmed" => Point(c)
    PROVE  MovesOn(c)
  <1>1. req[c] \in Request /\ req[c].target <= Len(runs) /\ Len(runs) \in Nat
    BY DEF TypeOK
  <1>2. req[c].held \in Nat /\ req[c].target \in Nat
    BY <1>1 DEF Request
  <1>3. Moved(c, at, req[c].held, req[c].target)
    BY GotoMoves
  <1>4. Moves(c, at, req[c].held, req[c].target)
    BY <1>1, <1>2, <1>3 DEF Moves
  <1>5. QED
    BY <1>4 DEF MovesOn

\* A step that also changes what the handler holds.
LEMMA RowMovesOn ==
    ASSUME TypeOK, NEW c \in Clients,
           NEW at \in Labels \ {"idle", "claim", "admit", "recheck", "view", "check", "agent", "complete",
                               "start", "confirmed"},
           NEW held \in Nat, NEW target \in 0 .. Len(runs'),
           at \in {"point", "probe"} => target # 0, at = "approve" => held # 0,
           at = "probe" => Recheck(c),
           at = "point" =>
              Recheck(c) \/ View(c) \/ Probe(c) \/ (StartRun(c) /\ runs'[target].key = <<0, Key(c)>>),
           Moved(c, at, held, target)
    PROVE  MovesOn(c)
  <1>1. Moves(c, at, held, target)
    BY DEF Moves
  <1>2. QED
    BY <1>1 DEF MovesOn

\* accept_run returns the one run of the start key, old or new.
LEMMA AcceptEffect ==
    ASSUME TypeOK, NEW c \in Clients, NEW startKey \in StartKeys, NEW form \in Nat,
           Accept(c, startKey, form)
    PROVE  /\ runs' \in Seq(Run) /\ Len(runs) <= Len(runs')
           /\ \/ runs' = runs
              \/ /\ runs' = Append(runs, [form |-> form, key |-> startKey])
                 /\ \A i \in DOMAIN runs : runs[i].key # startKey
           /\ \E held \in Nat, target \in 1 .. Len(runs') :
                 Moved(c, "point", held, target) /\ runs'[target].key = startKey
  <1> DEFINE new == [form |-> form, key |-> startKey]
             made == {i \in DOMAIN runs : runs[i].key = startKey}
             target == IF Accepted(startKey) = 0 THEN Len(runs) + 1 ELSE Accepted(startKey)
  <1>1. runs \in Seq(Run) /\ Len(runs) \in Nat /\ DOMAIN runs = 1 .. Len(runs)
    BY DEF TypeOK
  <1>2. new \in Run
    BY DEF Run
  <1>3. /\ runs' = IF Accepted(startKey) = 0 THEN Append(runs, new) ELSE runs
        /\ req' = [req EXCEPT ![c].at = "point", ![c].target = target]
    BY DEF Accept
  <1>4. \/ Accepted(startKey) = 0 /\ made = {}
        \/ Accepted(startKey) \in made
    <2>1. CASE made = {}
      BY <2>1 DEF Accepted
    <2>2. CASE made # {}
      <3>1. (CHOOSE i \in made : TRUE) \in made
        BY <2>2
      <3>2. QED
        BY <2>2, <3>1 DEF Accepted
    <2>3. QED
      BY <2>1, <2>2
  <1>5. req[c] \in Request
    BY DEF TypeOK
  <1>6. req[c].held \in Nat
    BY <1>5 DEF Request
  <1>7. Moved(c, "point", req[c].held, target)
    <2> HIDE DEF target
    <2>1. QED
      BY <1>3, TargetMoves
  <1>8. CASE Accepted(startKey) = 0
    <2>1. made = {}
      BY <1>1, <1>4, <1>8
    <2>2. runs' = Append(runs, new)
      BY <1>3, <1>8
    <2> HIDE DEF new
    <2>3. runs' \in Seq(Run) /\ Len(runs') = Len(runs) + 1
      BY <1>1, <1>2, <2>2
    <2>4. target = Len(runs) + 1
      BY <1>8
    <2>5. target \in 1 .. Len(runs') /\ runs'[target] = new
      BY <1>1, <1>2, <2>2, <2>3, <2>4
    <2> HIDE DEF target
    <2>6. Moved(c, "point", req[c].held, target) /\ runs'[target].key = startKey
      BY <1>7, <2>5 DEF new
    <2>7. \A i \in DOMAIN runs : runs[i].key # startKey
      BY <2>1
    <2>8. Len(runs) <= Len(runs')
      BY <1>1, <2>3
    <2>9. QED
      BY <1>6, <2>2, <2>3, <2>5, <2>6, <2>7, <2>8 DEF new
  <1>9. CASE Accepted(startKey) # 0
    <2>1. Accepted(startKey) \in 1 .. Len(runs)
      BY <1>1, <1>4, <1>9
    <2>2. runs' = runs /\ target = Accepted(startKey)
      BY <1>3, <1>9
    <2>3. target \in 1 .. Len(runs') /\ runs'[target].key = startKey
      BY <1>1, <1>4, <1>9, <2>1, <2>2
    <2> HIDE DEF target
    <2>4. QED
      BY <1>1, <1>6, <1>7, <2>2, <2>3
  <1>10. QED
    BY <1>8, <1>9

\* Every step of a handler returns or goes on with its request.
LEMMA HandlerMoves ==
    ASSUME IInv, NEW c \in Clients, Step(c) \/ Cancelled(c)
    PROVE  Return(c) \/ MovesOn(c)
  <1> USE DEF Labels
  <1>1. TypeOK
    BY DEF IInv
  <1>2. req[c] \in Request /\ req[c].target <= Len(runs) /\ Len(runs) \in Nat /\ runtime \in 0 .. Len(runs)
        /\ Len(events) \in Nat
    BY <1>1 DEF TypeOK
  <1>3. req[c].held \in Nat /\ req[c].target \in 0 .. Len(runs)
    <2>1. req[c].held \in Nat /\ req[c].target \in Nat
      BY <1>2 DEF Request
    <2>2. QED
      BY <1>2, <2>1
  <1>4. LatestForm \in Nat
    BY <1>1, FormTypes
  <1>5. CASE Claim(c)
    BY <1>1, <1>5, GotoMovesOn DEF Claim, plane
  <1>6. CASE Replay(c) \/ Complete(c) \/ Release(c)
    BY <1>6 DEF Replay, Complete, Release
  <1>7. CASE Check(c)
    <2>1. runs' = runs
      BY <1>7 DEF Check, plane
    <2>2. CASE Answered(Key(c))
      BY <1>1, <1>7, <2>1, <2>2, GotoMovesOn DEF Check
    <2>3. CASE ~Answered(Key(c))
      BY <1>1, <1>7, <2>1, <2>3, GotoMovesOn DEF Check
    <2>4. QED
      BY <2>2, <2>3
  <1>8. CASE Agent(c)
    <2>1. PICK output \in {"answer", "extract", "edit", "confirm"} : Goto(c, output)
      BY <1>8 DEF Agent
    <2>2. QED
      BY <1>1, <1>8, <2>1, GotoMovesOn DEF Agent, plane
  <1>9. CASE Cancelled(c)
    BY <1>1, <1>9, GotoMovesOn DEF Cancelled, plane
  <1>10. CASE Admit(c)
    <2>1. runs' = runs /\ (Return(c) \/ \E at \in {"confirm", "amending"} : Goto(c, at))
      BY <1>10 DEF Admit, plane
    <2>2. QED
      BY <1>1, <2>1, GotoMovesOn
  <1>11. CASE Extract(c)
    <2>1. runs' = runs /\ \E at \in {"submit", "extracting"} : Goto(c, at)
      BY <1>11 DEF Extract, plane
    <2>2. QED
      BY <1>1, <2>1, GotoMovesOn
  <1>12. CASE Edit(c)
    <2>1. runs' = runs /\ \E at \in {"answer", "release", "submit", "failing", "amending"} : Goto(c, at)
      BY <1>12 DEF Edit, plane
    <2>2. QED
      BY <1>1, <2>1, GotoMovesOn
  <1>13. CASE AppendForm(c)
    <2>1. runs' = runs /\ (Return(c) \/ \E at \in {"answer", "confirm"} : Goto(c, at))
      BY <1>13 DEF AppendForm, plane
    <2>2. QED
      BY <1>1, <2>1, GotoMovesOn
  <1>14. CASE AmendFails(c)
    <2>1. runs' = runs /\ (Return(c) \/ \E at \in {"failing", "release"} : Goto(c, at))
      BY <1>14 DEF AmendFails, Raise, plane
    <2>2. QED
      BY <1>1, <2>1, GotoMovesOn
  <1>15. CASE Fail(c)
    BY <1>1, <1>15, GotoMovesOn DEF Fail, plane
  <1>16. CASE Submit(c)
    <2>1. runs' = runs /\ (Goto(c, "answer") \/ Goto(c, "release"))
      BY <1>16 DEF Submit, plane
    <2>2. QED
      BY <1>1, <2>1, GotoMovesOn
  <1>17. CASE Answer(c)
    <2>1. runs' = runs /\ (Return(c) \/ Goto(c, "complete"))
      BY <1>17 DEF Answer, plane, Finish
    <2>2. QED
      BY <1>1, <1>17, <2>1, GotoMovesOn
  <1>18. CASE Confirm(c)
    <2>1. runs' = runs
      BY <1>18 DEF Confirm, plane
    <2>2. CASE Readonly
      <3>1. Return(c) \/ Goto(c, "complete")
        BY <1>18, <2>2 DEF Confirm, Finish
      <3>2. QED
        BY <1>1, <2>1, <2>2, <3>1, GotoMovesOn
    <2>3. CASE ~Readonly /\ LatestForm = 0
      <3>1. Goto(c, "failing")
        BY <1>18, <2>3 DEF Confirm
      <3>2. QED
        BY <1>1, <2>1, <3>1, GotoMovesOn
    <2>4. CASE ~Readonly /\ LatestForm # 0
      <3>1. req' = [req EXCEPT ![c].at = "approve", ![c].held = LatestForm]
        BY <1>18, <2>4 DEF Confirm
      <3>2. Moved(c, "approve", LatestForm, req[c].target)
        BY <1>1, <3>1, HeldMoves
      <3>3. QED
        BY <1>1, <1>3, <1>4, <2>1, <2>4, <3>2, RowMovesOn
    <2>5. QED
      BY <2>2, <2>3, <2>4
  <1>19. CASE Approve(c)
    BY <1>1, <1>19, GotoMovesOn DEF Approve
  <1>20. CASE StartFails(c)
    <2>1. runs' = runs
      BY <1>20 DEF StartFails, plane
    <2>2. \/ Return(c) \/ Goto(c, "release")
          \/ req' = [req EXCEPT ![c].at = "failing", ![c].held = 0]
      BY <1>20 DEF StartFails, Raise
    <2>3. CASE req' = [req EXCEPT ![c].at = "failing", ![c].held = 0]
      <3>1. Moved(c, "failing", 0, req[c].target)
        BY <1>1, <2>3, HeldMoves
      <3>2. QED
        BY <1>1, <1>3, <2>1, <3>1, RowMovesOn
    <2>4. QED
      BY <1>1, <2>1, <2>2, <2>3, GotoMovesOn
  <1>21. CASE StartRun(c)
    <2>1. Key(c) \in Keys /\ approved[Key(c)] \in Nat
      BY <1>21 DEF IInv, Identity, StartRun, At, TypeOK
    <2>2. <<0, Key(c)>> \in StartKeys
      BY <2>1 DEF StartKeys
    <2>3. Accept(c, <<0, Key(c)>>, approved[Key(c)])
      BY <1>21 DEF StartRun
    <2>4. PICK held \in Nat, target \in 1 .. Len(runs') :
             Moved(c, "point", held, target) /\ runs'[target].key = <<0, Key(c)>>
      BY <1>1, <2>1, <2>2, <2>3, AcceptEffect
    <2>5. QED
      BY <1>1, <1>21, <2>4, RowMovesOn
  <1>22. CASE Point(c)
    <2>1. runs' = runs /\ (Return(c) \/ Goto(c, "status") \/ Goto(c, "confirmed"))
      BY <1>22 DEF Point, plane
    <2>2. QED
      BY <1>1, <1>22, <2>1, GotoMovesOn
  <1>23. CASE Confirmed(c)
    <2>1. runs' = runs /\ req' = [req EXCEPT ![c].at = "answer", ![c].held = 0, ![c].target = 0]
      BY <1>23 DEF Confirmed, plane
    <2>2. Moved(c, "answer", 0, 0)
      BY <1>1, <2>1, BothMove
    <2>3. QED
      BY <1>1, <1>2, <1>3, <2>1, <2>2, RowMovesOn
  <1>24. CASE Recheck(c) \/ View(c)
    <2>1. runs' = runs
      BY <1>24 DEF Recheck, View, plane
    <2>2. \/ Return(c)
          \/ /\ runtime # 0
             /\ \E at \in {"probe", "point"} :
                   /\ req' = [req EXCEPT ![c].at = at, ![c].target = runtime]
                   /\ at = "probe" => Recheck(c)
      <3>1. CASE Recheck(c)
        <4>1. CASE Return(c)
          BY <4>1
        <4>2. CASE ~Return(c)
          <5>1. runtime # 0
            BY <3>1, <4>2 DEF Recheck
          <5>2. PICK at \in {"probe", "point"} : req' = [req EXCEPT ![c].target = runtime, ![c].at = at]
            BY <3>1, <4>2 DEF Recheck
          <5>3. req' = [req EXCEPT ![c].at = at, ![c].target = runtime]
            BY <1>1, <5>2 DEF TypeOK
          <5>4. QED
            BY <3>1, <5>1, <5>3
        <4>3. QED
          BY <4>1, <4>2
      <3>2. CASE View(c)
        <4>1. Return(c) \/ (runtime # 0 /\ req' = [req EXCEPT ![c].at = "point", ![c].target = runtime])
          BY <3>2 DEF View
        <4>2. QED
          BY <4>1
      <3>3. QED
        BY <1>24, <3>1, <3>2
    <2>3. CASE Return(c)
      BY <2>3
    <2>4. CASE ~Return(c)
      <3>1. PICK at \in {"probe", "point"} :
               /\ req' = [req EXCEPT ![c].at = at, ![c].target = runtime]
               /\ at = "probe" => Recheck(c)
        BY <2>2, <2>4
      <3>2. Moved(c, at, req[c].held, runtime)
        BY <1>1, <3>1, TargetMoves
      <3>3. runtime \in 0 .. Len(runs') /\ runtime # 0
        BY <1>2, <2>1, <2>2, <2>4
      <3>4. QED
        BY <1>1, <1>3, <1>24, <3>1, <3>2, <3>3, RowMovesOn
    <2>5. QED
      BY <2>3, <2>4
  <1>25. CASE Probe(c)
    <2>1. CASE Goto(c, "status") /\ UNCHANGED runs
      BY <1>1, <2>1, GotoMovesOn
    <2>2. CASE Accept(c, <<req[c].target, Key(c)>>, runs[req[c].target].form)
      <3>1. Key(c) \in Keys /\ req[c].target # 0
        BY <1>25 DEF IInv, Identity, Started, Probe, At
      <3>2. req[c].target \in 1 .. Len(runs)
        BY <1>2, <1>3, <3>1
      <3>3. runs[req[c].target] \in Run
        BY <1>1, <3>2 DEF TypeOK
      <3>4. runs[req[c].target].form \in Nat
        BY <3>3 DEF Run
      <3>5. <<req[c].target, Key(c)>> \in StartKeys
        BY <3>1, <3>2 DEF StartKeys
      <3>6. PICK held \in Nat, target \in 1 .. Len(runs') : Moved(c, "point", held, target)
        BY <1>1, <2>2, <3>4, <3>5, AcceptEffect
      <3>7. QED
        BY <1>1, <1>25, <3>6, RowMovesOn
    <2>3. QED
      BY <1>25, <2>1, <2>2 DEF Probe
  <1>26. CASE Status(c)
    BY <1>26 DEF Status
  <1>27. QED
    BY <1>5, <1>6, <1>7, <1>8, <1>9, <1>10, <1>11, <1>12, <1>13, <1>14, <1>15, <1>16, <1>17, <1>18,
       <1>19, <1>20, <1>21, <1>22, <1>23, <1>24, <1>25, <1>26 DEF Step

\* The transcript and the confirmation only grow.
Monotone ==
    /\ \A t, k : Has(t, k) => Has(t, k)'
    /\ Readonly => Readonly'

\* What a step of a handler leaves alone, or posts.
Rests == UNCHANGED <<events, runtime, plane>>
Posts(c) ==
    /\ UNCHANGED <<ops, expired, runtime, plane, asks>>
    /\ \E type \in Types, form, run \in Nat :
          /\ Post(c, type, form, run)
          /\ type = "confirmed" => At(c, "confirmed") /\ run = req[c].target

LEMMA RestsMonotone == Rests => Monotone /\ events' = events /\ runtime' = runtime /\ plane' = plane
  BY DEF Rests, Monotone, Has, Readonly

LEMMA PostsMonotone ==
    ASSUME TypeOK, NEW c \in Clients, Posts(c)
    PROVE  /\ Monotone /\ events' \in Seq(Event)
           /\ \A i \in DOMAIN events' :
                 \/ i \in DOMAIN events /\ events'[i] = events[i]
                 \/ events'[i].type = "confirmed" =>
                       At(c, "confirmed") /\ events'[i].key = Key(c) /\ events'[i].run = req[c].target
  <1>1. PICK type \in Types, form \in Nat, run \in Nat :
           /\ Post(c, type, form, run)
           /\ type = "confirmed" => At(c, "confirmed") /\ run = req[c].target
    BY DEF Posts
  <1>2. type \in Types
    OBVIOUS
  <1>3. /\ events' \in Seq(Event)
        /\ \A t, k : Has(t, k) => Has(t, k)'
        /\ (\E i \in DOMAIN events : events[i].type = "confirmed")
              => \E i \in DOMAIN events' : events'[i].type = "confirmed"
        /\ \A i \in DOMAIN events' :
              \/ i \in DOMAIN events /\ events'[i] = events[i]
              \/ events'[i].type = type /\ events'[i].key = Key(c) /\ events'[i].run = run
    BY <1>1, <1>2, PostEffect
  <1>4. runtime' = runtime
    BY DEF Posts
  <1>5. Readonly => Readonly'
    BY <1>3, <1>4 DEF Readonly
  <1>6. QED
    BY <1>1, <1>3, <1>5 DEF Monotone

\* Which steps of a handler write what.
LEMMA HandlerWrites ==
    ASSUME IInv, NEW c \in Clients, Step(c) \/ Cancelled(c)
    PROVE  /\ ~At(c, "idle") /\ UNCHANGED <<stalled, requests, faults>>
           /\ \/ Rests /\ UNCHANGED <<ops, expired, asks>>
              \/ Posts(c)
              \/ Rests /\ (Claim(c) \/ Agent(c) \/ Complete(c) \/ Release(c))
              \/ Approve(c) \/ StartRun(c) \/ Probe(c) \/ Point(c)
  <1> USE DEF store, plane
  <1>1. TypeOK
    BY DEF IInv
  <1>2. /\ req[c].held \in Nat /\ req[c].target \in Nat /\ NewForm \in Nat /\ runtime \in Nat
    <2>1. req[c] \in Request /\ runtime \in 0 .. Len(runs) /\ Len(runs) \in Nat
      BY <1>1 DEF TypeOK
    <2>2. req[c].held \in Nat /\ req[c].target \in Nat
      BY <2>1 DEF Request
    <2>3. QED
      BY <1>1, <2>1, <2>2, FormTypes
  <1>3. \A type \in Types, form, run \in Nat :
           /\ Post(c, type, form, run) /\ UNCHANGED <<ops, expired, runtime, plane, asks>>
           /\ type = "confirmed" => At(c, "confirmed") /\ run = req[c].target
           => Posts(c)
    BY DEF Posts
  <1>4. /\ 0 \in Nat
        /\ \A t \in {"user", "assistant", "error", "form", "amended", "submission", "status"} :
              t \in Types /\ t # "confirmed"
        /\ "confirmed" \in Types
    BY DEF Types
  <1>5. CASE Claim(c)
    BY <1>5 DEF Claim, At, Rests
  <1>6. CASE Replay(c) \/ Admit(c) \/ Extract(c) \/ Edit(c)
    BY <1>6 DEF Replay, Admit, Extract, Edit, At, Rests
  <1>7. CASE AmendFails(c) \/ Confirm(c) \/ StartFails(c) \/ Recheck(c) \/ View(c) \/ Cancelled(c)
    BY <1>7 DEF AmendFails, Confirm, StartFails, Recheck, View, Cancelled, At, Rests
  <1>8. CASE Check(c)
    <2>1. ~At(c, "idle") /\ UNCHANGED <<ops, expired, runtime, plane, stalled, asks, requests, faults>>
      BY <1>8 DEF Check, At
    <2>2. events' = events \/ Post(c, "user", 0, 0)
      BY <1>8 DEF Check
    <2>3. QED
      BY <1>3, <1>4, <2>1, <2>2 DEF Rests
  <1>9. CASE Agent(c)
    BY <1>9 DEF Agent, At, Rests
  <1>10. CASE Complete(c)
    BY <1>10 DEF Complete, At, Rests
  <1>11. CASE Release(c)
    BY <1>11 DEF Release, At, Rests
  <1>12. CASE AppendForm(c)
    <2>1. ~At(c, "idle") /\ UNCHANGED <<ops, expired, runtime, plane, stalled, asks, requests, faults>>
          /\ (Post(c, "form", NewForm, 0) \/ Post(c, "amended", NewForm, 0))
      BY <1>12 DEF AppendForm, At
    <2>2. QED
      BY <1>2, <1>3, <1>4, <2>1
  <1>13. CASE Fail(c) \/ Answer(c)
    <2>1. ~At(c, "idle") /\ UNCHANGED <<ops, expired, runtime, plane, stalled, asks, requests, faults>>
          /\ (Post(c, "error", 0, 0) \/ Post(c, "assistant", 0, 0))
      BY <1>13 DEF Fail, Answer, At
    <2>2. QED
      BY <1>3, <1>4, <2>1
  <1>14. CASE Submit(c)
    <2>1. ~At(c, "idle") /\ UNCHANGED <<ops, expired, runtime, plane, stalled, asks, requests, faults>>
          /\ (Post(c, "submission", 0, runtime) \/ events' = events)
      BY <1>14 DEF Submit, At
    <2>2. QED
      BY <1>2, <1>3, <1>4, <2>1 DEF Rests
  <1>15. CASE Confirmed(c)
    <2>1. ~At(c, "idle") /\ UNCHANGED <<ops, expired, runtime, plane, stalled, asks, requests, faults>>
          /\ Post(c, "confirmed", req[c].held, req[c].target) /\ At(c, "confirmed")
      BY <1>15 DEF Confirmed, At
    <2>2. QED
      BY <1>2, <1>3, <1>4, <2>1
  <1>16. CASE Status(c)
    <2>1. ~At(c, "idle") /\ UNCHANGED <<ops, expired, runtime, plane, stalled, asks, requests, faults>>
          /\ Post(c, "status", 0, req[c].target)
      BY <1>16 DEF Status, At
    <2>2. QED
      BY <1>2, <1>3, <1>4, <2>1
  <1>17. CASE Approve(c) \/ StartRun(c) \/ Probe(c) \/ Point(c)
    BY <1>17 DEF Approve, StartRun, Probe, Point, At
  <1>18. QED
    BY <1>5, <1>6, <1>7, <1>8, <1>9, <1>10, <1>11, <1>12, <1>13, <1>14, <1>15, <1>16, <1>17 DEF Step

\* What a step of a handler leaves of the requests.
LEMMA MoveEffect ==
    ASSUME TypeOK, NEW c \in Clients, Return(c) \/ MovesOn(c),
           Len(runs) <= Len(runs'), Len(runs') \in Nat
    PROVE  /\ req' \in [Clients -> Request] /\ \A d \in Clients : req'[d].target <= Len(runs')
           /\ \A d \in Clients : d # c => req'[d] = req[d]
           /\ \/ req'[c] = Idle
              \/ /\ req'[c].at \notin {"idle", "claim"}
                 /\ req'[c].key = Key(c) /\ req'[c].token = req[c].token
  <1>1. req \in [Clients -> Request] /\ \A d \in Clients : req[d].target <= Len(runs) /\ Len(runs) \in Nat
    BY DEF TypeOK
  <1>2. \A d \in Clients : req[d].target \in Nat
    BY <1>1 DEF Request
  <1>3. \A d \in Clients : req[d].target <= Len(runs')
    BY <1>1, <1>2
  <1>4. ASSUME NEW row \in Request, req' = [req EXCEPT ![c] = row], row.target <= Len(runs')
        PROVE  /\ req' \in [Clients -> Request] /\ \A d \in Clients : req'[d].target <= Len(runs')
               /\ req'[c] = row /\ \A d \in Clients : d # c => req'[d] = req[d]
    BY <1>1, <1>3, <1>4
  <1>5. CASE Return(c)
    <2>1. Idle \in Request /\ Idle.target = 0
      BY DEF Idle, Request, Labels
    <2>2. req' = [req EXCEPT ![c] = Idle] /\ Idle.target <= Len(runs')
      BY <1>5, <2>1 DEF Return
    <2>3. /\ req' \in [Clients -> Request] /\ \A d \in Clients : req'[d].target <= Len(runs')
          /\ req'[c] = Idle /\ \A d \in Clients : d # c => req'[d] = req[d]
      BY <1>1, <1>3, <2>1, <2>2
    <2>4. QED
      BY <2>3
  <1>6. CASE MovesOn(c)
    <2>1. PICK at, held, target : Moves(c, at, held, target)
      BY <1>6 DEF MovesOn
    <2> DEFINE row == [at |-> at, key |-> Key(c), token |-> req[c].token,
                       held |-> held, target |-> target]
    <2>2. Key(c) \in Keys \cup {""} /\ req[c].token \in Tokens \cup {0}
      <3>1. req[c] \in Request
        BY <1>1
      <3> DEFINE T == Tokens \cup {0}  K == Keys \cup {""}
      <3>2. Request = [at : Labels, key : K, token : T, held : Nat, target : Nat]
        BY DEF Request
      <3> HIDE DEF T, K
      <3>3. req[c].key \in K /\ req[c].token \in T
        BY <3>1, <3>2
      <3>4. QED
        BY <3>3 DEF Key, K, T
    <2>3. row \in Request
      <3> DEFINE T == Tokens \cup {0}  K == Keys \cup {""}
      <3>1. Request = [at : Labels, key : K, token : T, held : Nat, target : Nat]
        BY DEF Request
      <3>2. at \in Labels /\ held \in Nat /\ target \in Nat
        BY <2>1 DEF Moves
      <3>3. Key(c) \in K /\ req[c].token \in T
        BY <2>2
      <3> HIDE DEF T, K
      <3>4. QED
        BY <3>1, <3>2, <3>3
    <2>4. row.target <= Len(runs') /\ row.at \notin {"idle", "claim"} /\ row.key = Key(c) /\ row.token = req[c].token
      BY <2>1 DEF Moves
    <2>5. req' = [req EXCEPT ![c] = row]
      BY <2>1 DEF Moves, Moved
    <2> HIDE DEF row
    <2>6. QED
      BY <1>4, <2>3, <2>4, <2>5
  <1>7. QED
    BY <1>5, <1>6

\* The runs a step of a handler leaves.
LEMMA HandlerRuns ==
    ASSUME IInv, NEW c \in Clients, Step(c) \/ Cancelled(c)
    PROVE  /\ runs' \in Seq(Run) /\ Len(runs') \in Nat /\ Len(runs) <= Len(runs')
           /\ Monotone /\ events' \in Seq(Event) /\ runtime' \in 0 .. Len(runs')
  <1>1. /\ TypeOK /\ runs \in Seq(Run) /\ Len(runs) \in Nat /\ Len(runs) <= Len(runs)
        /\ events \in Seq(Event) /\ runtime \in 0 .. Len(runs)
    BY DEF IInv, TypeOK
  <1>2. CASE Rests
    BY <1>1, <1>2, RestsMonotone DEF plane
  <1>3. CASE Posts(c)
    BY <1>1, <1>3, PostsMonotone DEF Posts, plane
  <1>4. CASE Approve(c)
    <2>1. UNCHANGED <<events, runtime, runs>>
      BY <1>4 DEF Approve, store
    <2>2. Monotone
      BY <2>1 DEF Monotone, Has, Readonly
    <2>3. QED
      BY <1>1, <2>1, <2>2
  <1>5. ASSUME Len(runs) <= Len(runs'), runs' \in Seq(Run), UNCHANGED <<events, runtime>>
        PROVE  /\ Len(runs') \in Nat /\ events' \in Seq(Event) /\ runtime' \in 0 .. Len(runs')
               /\ Monotone
    <2>1. Monotone
      BY <1>5 DEF Monotone, Has, Readonly
    <2>2. Len(runs') \in Nat
      BY <1>5
    <2>3. QED
      BY <1>1, <1>5, <2>1, <2>2
  <1>6. CASE StartRun(c)
    <2>1. Key(c) \in Keys /\ approved[Key(c)] \in Nat
      BY <1>6 DEF IInv, Identity, StartRun, At, TypeOK
    <2>2. <<0, Key(c)>> \in StartKeys
      BY <2>1 DEF StartKeys
    <2>3. Accept(c, <<0, Key(c)>>, approved[Key(c)]) /\ UNCHANGED <<events, runtime>>
      BY <1>6 DEF StartRun, store
    <2>4. runs' \in Seq(Run) /\ Len(runs) <= Len(runs')
      BY <1>1, <2>1, <2>2, <2>3, AcceptEffect
    <2>5. QED
      BY <1>5, <2>3, <2>4
  <1>7. CASE Probe(c)
    <2>1. UNCHANGED <<events, runtime>>
      BY <1>7 DEF Probe, store
    <2>2. Key(c) \in Keys /\ req[c].target # 0
      BY <1>7 DEF IInv, Identity, Started, Probe, At
    <2>3. req[c].target \in Nat /\ req[c].target <= Len(runs)
      <3>1. req[c] \in Request /\ req[c].target <= Len(runs)
        BY <1>1 DEF TypeOK
      <3>2. QED
        BY <3>1 DEF Request
    <2>4. req[c].target \in 1 .. Len(runs)
      BY <1>1, <2>2, <2>3
    <2>5. runs[req[c].target] \in Run
      BY <1>1, <2>4
    <2>6. runs[req[c].target].form \in Nat
      BY <2>5 DEF Run
    <2>7. <<req[c].target, Key(c)>> \in StartKeys
      BY <2>2, <2>3 DEF StartKeys
    <2>8. runs' \in Seq(Run) /\ Len(runs) <= Len(runs')
      <3>1. CASE UNCHANGED runs
        BY <1>1, <3>1
      <3>2. CASE Accept(c, <<req[c].target, Key(c)>>, runs[req[c].target].form)
        BY <1>1, <2>6, <2>7, <3>2, AcceptEffect
      <3>3. QED
        BY <1>7, <3>1, <3>2 DEF Probe
    <2>9. QED
      BY <1>5, <2>1, <2>8
  <1>8. CASE Point(c)
    <2>1. UNCHANGED <<events, runs>> /\ runtime' = req[c].target /\ req[c].target # 0
      BY <1>8 DEF Point, plane, IInv, Answers
    <2>2. req[c].target \in Nat /\ req[c].target <= Len(runs)
      <3>1. req[c] \in Request /\ req[c].target <= Len(runs)
        BY <1>1 DEF TypeOK
      <3>2. QED
        BY <3>1 DEF Request
    <2>3. Monotone
      BY <2>1 DEF Monotone, Has, Readonly
    <2>4. QED
      BY <1>1, <2>1, <2>2, <2>3
  <1>9. QED
    BY <1>2, <1>3, <1>4, <1>6, <1>7, <1>8, HandlerWrites

\* The rows of the operations, and the answers asked for, keep their types.
LEMMA HandlerTypes ==
    ASSUME IInv, NEW c \in Clients, Step(c) \/ Cancelled(c)
    PROVE  TypeOK'
  <1>1. /\ ops \in [Keys -> Operation] /\ expired \in SUBSET Keys /\ asks \in [Turns -> Nat]
        /\ approved \in [Keys -> Nat] /\ req[c] \in Request
        /\ stalled \in SUBSET Tokens /\ requests \in 0 .. MaxRequests /\ faults \in 0 .. MaxFaults
    BY DEF IInv, TypeOK
  <1>2. ops' \in [Keys -> Operation] /\ expired' \in SUBSET Keys
    <2>1. CASE UNCHANGED <<ops, expired>>
      BY <1>1, <2>1
    <2>2. CASE Claim(c)
      <3> DEFINE row == [owner |-> req[c].token, status |-> "running"]
      <3>1. row.owner # 0 /\ row \in Operation
        <4>1. req[c].token \in 1 .. requests
          BY <2>2 DEF Claim, At, IInv, Identity
        <4>2. req[c].token \in Tokens \cup {0}
          BY <1>1 DEF Request
        <4>3. QED
          BY <1>1, <4>1, <4>2 DEF Operation
      <3>2. ops' = [ops EXCEPT ![Key(c)] = row] /\ expired' = expired \ {Key(c)}
        BY <2>2 DEF Claim
      <3> HIDE DEF row
      <3>3. QED
        BY <1>1, <3>1, <3>2
    <2>3. CASE Complete(c)
      <3>1. \A k \in Keys : [ops[k] EXCEPT !.status = "completed"] \in Operation
        BY <1>1 DEF Operation
      <3>2. ops' = IF Owns(c) THEN [ops EXCEPT ![Key(c)] = [ops[Key(c)] EXCEPT !.status = "completed"]] ELSE ops
        BY <2>3 DEF Complete
      <3>3. Key(c) \in Keys
        BY <2>3 DEF Complete, At, IInv, Identity
      <3>4. ops' \in [Keys -> Operation]
        BY <1>1, <3>1, <3>2, <3>3
      <3>5. QED
        BY <1>1, <2>3, <3>4 DEF Complete
    <2>4. CASE Release(c)
      <3>1. NoOp \in Operation
        BY DEF NoOp, Operation
      <3>2. ops' = IF Op(c).owner = req[c].token THEN [ops EXCEPT ![Key(c)] = NoOp] ELSE ops
        BY <2>4 DEF Release
      <3>3. QED
        BY <1>1, <2>4, <3>1, <3>2 DEF Release
    <2>5. CASE Agent(c) \/ Approve(c) \/ StartRun(c) \/ Probe(c) \/ Point(c) \/ Posts(c)
      BY <1>1, <2>5 DEF Agent, Approve, StartRun, Probe, Point, Posts, store
    <2>6. QED
      BY <2>1, <2>2, <2>3, <2>4, <2>5, HandlerWrites
  <1>3. asks' \in [Turns -> Nat]
    <2>1. CASE UNCHANGED asks
      BY <1>1, <2>1
    <2>2. CASE Agent(c)
      <3>1. asks' = asks \/ asks' = [asks EXCEPT ![Key(c)] = asks[Key(c)] + 1]
        BY <2>2 DEF Agent
      <3>2. Key(c) \in Turns => asks[Key(c)] + 1 \in Nat
        BY <1>1
      <3>3. QED
        BY <1>1, <3>1, <3>2
    <2>3. CASE Release(c)
      BY <1>1, <2>3 DEF Release, Excuse
    <2>4. QED
      BY <2>1, <2>2, <2>3, HandlerWrites DEF Posts, Claim, Complete, Approve, StartRun, Probe, Point
  <1>4. approved' \in [Keys -> Nat]
    <2>1. CASE UNCHANGED approved
      BY <1>1, <2>1
    <2>2. CASE Approve(c)
      <3>1. req[c].held \in Nat
        BY <1>1 DEF Request
      <3>2. QED
        BY <1>1, <2>2, <3>1 DEF Approve
    <2>3. QED
      BY <2>1, <2>2, HandlerWrites DEF Posts, Rests, StartRun, Probe, Point, plane
  <1>5. stalled' \in SUBSET Tokens /\ requests' \in 0 .. MaxRequests /\ faults' \in 0 .. MaxFaults
    BY <1>1, HandlerWrites
  <1>6. req' \in [Clients -> Request] /\ \A d \in Clients : req'[d].target <= Len(runs')
    BY HandlerRuns, HandlerMoves, MoveEffect DEF IInv
  <1>7. QED
    BY <1>2, <1>3, <1>4, <1>5, <1>6, HandlerRuns DEF TypeOK

-----------------------------------------------------------------------------
(* A new request, a lapse and a crash.                                     *)

LEMMA SameTranscript ==
    ASSUME UNCHANGED <<events, runtime>>
    PROVE  (\A k : Answered(k)' = Answered(k)) /\ Readonly' = Readonly
  BY DEF Answered, Has, Readonly

\* The row of a new request.
LEMMA BeginRow ==
    ASSUME TypeOK, NEW c \in Clients, NEW k \in Keys, Begin(c, k)
    PROVE  /\ req' \in [Clients -> Request] /\ \A d \in Clients : d # c => req'[d] = req[d]
           /\ req'[c].key = k /\ req'[c].token = requests + 1 /\ req'[c].target = 0
           /\ req'[c].at \in {"claim", "admit", "recheck", "view"}
           /\ k \in Turns => req'[c].at = "claim"
           /\ req'[c].at \in {"recheck", "view"} => Kind[k] = req'[c].at
  <1> DEFINE at == CASE Kind[k] = "turn" -> "claim"
                     [] Kind[k] \in {"edit", "confirm", "amend"} -> "admit"
                     [] OTHER -> Kind[k]
             row == [Idle EXCEPT !.key = k, !.token = requests + 1, !.at = at]
  <1>1. Kind[k] \in {"turn", "edit", "confirm", "amend", "recheck", "view"}
    BY RequestAssumption
  <1>2. at \in {"claim", "admit", "recheck", "view"} /\ (Kind[k] = "turn" => at = "claim")
        /\ (at \in {"recheck", "view"} => Kind[k] = at)
    BY <1>1
  <1>3. req' = [req EXCEPT ![c] = row] /\ requests < MaxRequests
    BY DEF Begin
  <1>4. req \in [Clients -> Request] /\ requests \in 0 .. MaxRequests /\ MaxRequests \in Nat
    BY RequestAssumption DEF TypeOK
  <1>5. requests + 1 \in Tokens
    BY <1>3, <1>4 DEF Tokens
  <1> HIDE DEF at
  <1>6. row = [at |-> at, key |-> k, token |-> requests + 1, held |-> 0, target |-> 0]
    <2> DEFINE free == "idle"  none == ""
               r == [Idle EXCEPT !.key = k]
               q == [r EXCEPT !.token = requests + 1]
    <2>1. Idle = [at |-> free, key |-> none, token |-> 0, held |-> 0, target |-> 0]
      BY DEF Idle
    <2> HIDE DEF free, none
    <2>2. r = [at |-> free, key |-> k, token |-> 0, held |-> 0, target |-> 0]
      BY <2>1
    <2>3. row = [q EXCEPT !.at = at]
      OBVIOUS
    <2> HIDE DEF r
    <2>4. q = [at |-> free, key |-> k, token |-> requests + 1, held |-> 0, target |-> 0]
      BY <2>2
    <2> HIDE DEF q, row
    <2>5. QED
      BY <2>3, <2>4
  <1> HIDE DEF row
  <1>7. row \in Request
    <2>1. at \in Labels
      BY <1>2 DEF Labels
    <2>2. QED
      BY <1>5, <1>6, <2>1 DEF Request
  <1>8. /\ row.at = at /\ row.key = k /\ row.token = requests + 1 /\ row.target = 0
    BY <1>6
  <1>9. req' \in [Clients -> Request] /\ req'[c] = row /\ \A d \in Clients : d # c => req'[d] = req[d]
    BY <1>3, <1>4, <1>7
  <1>10. QED
    BY <1>2, <1>8, <1>9 DEF Turns

LEMMA BeginKeeps ==
    ASSUME IInv, NEW c \in Clients, NEW k \in Keys, Begin(c, k)
    PROVE  IInv'
  <1>1. TypeOK
    BY DEF IInv
  <1>2. /\ req' \in [Clients -> Request] /\ \A d \in Clients : d # c => req'[d] = req[d]
        /\ req'[c].key = k /\ req'[c].token = requests + 1 /\ req'[c].target = 0
        /\ req'[c].at \in {"claim", "admit", "recheck", "view"}
        /\ k \in Turns => req'[c].at = "claim"
        /\ req'[c].at \in {"recheck", "view"} => Kind[k] = req'[c].at
    BY <1>1, BeginRow
  <1>3. /\ UNCHANGED <<ops, expired, events, runtime, runs, approved, stalled, asks, faults>>
        /\ requests' = requests + 1 /\ requests < MaxRequests
    BY DEF Begin, store, plane
  <1>4. (\A j : Answered(j)' = Answered(j)) /\ Readonly' = Readonly
    BY <1>3, SameTranscript
  <1>5. requests \in 0 .. MaxRequests /\ requests \in Nat /\ MaxRequests \in Nat /\ Len(runs) \in Nat
    BY <1>1, RequestAssumption DEF TypeOK
  <1>6. TypeOK'
    <2>1. requests' \in 0 .. MaxRequests
      BY <1>3, <1>5
    <2>2. \A d \in Clients : req'[d].target <= Len(runs')
      <3>1. \A d \in Clients : req[d].target <= Len(runs)
        BY <1>1 DEF TypeOK
      <3>2. 0 <= Len(runs')
        BY <1>3, <1>5
      <3>3. QED
        BY <1>2, <1>3, <3>1, <3>2
    <2>3. QED
      BY <1>1, <1>2, <1>3, <2>1, <2>2 DEF TypeOK
  <1>7. Identity'
    <2> USE DEF Identity, At, Key
    <2>1. Identity /\ \A d \in Clients : req[d].token \in Nat
      <3>1. \A d \in Clients : req[d] \in Request
        BY <1>1 DEF TypeOK
      <3>2. \A d \in Clients : req[d].token \in Tokens \cup {0}
        BY <3>1 DEF Request
      <3>3. QED
        BY <3>2, RequestAssumption DEF IInv, Tokens
    <2>2. \A d \in Clients : At(d, "idle")' => req'[d] = Idle
      BY <1>2, <2>1
    <2>3. \A d \in Clients : ~At(d, "idle")' => Key(d)' \in Keys /\ req'[d].token \in 1 .. requests'
      <3>1. CASE TRUE
        <4> SUFFICES ASSUME NEW d \in Clients, ~At(d, "idle")'
                     PROVE  Key(d)' \in Keys /\ req'[d].token \in 1 .. requests'
          OBVIOUS
        <4>1. CASE d = c
          BY <1>2, <1>3, <1>5, <4>1
        <4>2. CASE d # c
          <5>1. req[d].at # "idle" /\ req'[d] = req[d]
            BY <1>2, <4>2
          <5>2. req[d].key \in Keys /\ req[d].token \in 1 .. requests
            BY <2>1, <5>1
          <5>3. QED
            BY <1>3, <1>5, <5>1, <5>2
        <4>3. QED
          BY <4>1, <4>2
      <3>2. QED
        BY <3>1
    <2>4. \A d, e \in Clients :
             d # e /\ ~At(d, "idle")' /\ ~At(e, "idle")' => req'[d].token # req'[e].token
      <3>1. \A d \in Clients : d # c /\ ~At(d, "idle")' => req'[d] = req[d] /\ req[d].token <= requests
        BY <1>2, <1>5, <2>1
      <3>2. \A d \in Clients : d # c /\ ~At(d, "idle")' => req'[d].token # requests + 1
        BY <1>5, <2>1, <3>1
      <3>3. QED
        BY <1>2, <2>1, <3>1, <3>2
    <2>5. \A t \in stalled' : t <= requests'
      <3>1. \A t \in stalled : t \in Nat
        BY <1>1, RequestAssumption DEF TypeOK, Tokens
      <3>2. QED
        BY <1>3, <1>5, <2>1, <3>1
    <2>6. \A j \in Keys : ops'[j].owner <= requests' /\ (ops'[j].status = "running" => ops'[j].owner # 0)
      <3>1. \A j \in Keys : ops[j].owner \in Nat
        <4>1. \A j \in Keys : ops[j] \in Operation
          BY <1>1 DEF TypeOK
        <4>2. QED
          BY <4>1, RequestAssumption DEF Operation, Tokens
      <3>2. QED
        BY <1>3, <1>5, <2>1, <3>1
    <2>7. QED
      BY <2>2, <2>3, <2>4, <2>5, <2>6
  <1>8. Authority'
    <2>1. \A d \in Clients : Working(d)' => d # c
      BY <1>2 DEF Working, At, Key
    <2>2. QED
      BY <1>2, <1>3, <2>1 DEF IInv, Authority, Working, At, Key, Owns, Op
  <1>9. Asked'
    BY <1>2, <1>3, <1>4 DEF IInv, Asked, AskedOnce, At, Key
  <1>10. Answers'
    BY <1>2, <1>3, <1>4 DEF IInv, Answers, CompletedIsAnswered, At, Key
  <1>11. Started'
    BY <1>2, <1>3 DEF IInv, Started, OneRunPerConfirmation, Names, At, Key
  <1>12. QED
    BY <1>6, <1>7, <1>8, <1>9, <1>10, <1>11 DEF IInv

\* A handler whose lease lapses is a stalled one from then on.
LEMMA LapseKeeps ==
    ASSUME IInv, NEW k \in Keys, Lapse(k)
    PROVE  IInv'
  <1>1. /\ TypeOK /\ UNCHANGED <<ops, events, runtime, runs, approved, req, requests>>
        /\ expired' = expired \cup {k} /\ stalled' = {t \in stalled \cup {ops[k].owner} : Alive(t)}
        /\ asks' = [j \in Turns |-> IF j = k /\ ~Answered(k) THEN 0 ELSE asks[j]]
        /\ ops[k].status = "running"
        /\ faults' <= MaxFaults /\ (faults' = faults \/ faults' = faults + 1)
    BY DEF Lapse, plane, IInv, Excuse
  <1>2. (\A j : Answered(j)' = Answered(j)) /\ Readonly' = Readonly
    BY <1>1, SameTranscript
  <1>3. \A d \in Clients : ~(req[d].token \in stalled') => req[d].token \notin stalled /\ req[d].token # ops[k].owner
    BY <1>1 DEF Alive
  <1>4. ops[k].owner \in Tokens
    <2>1. ops[k] \in Operation
      BY <1>1 DEF TypeOK
    <2>2. ops[k].owner \in Tokens \cup {0}
      BY <2>1 DEF Operation
    <2>3. QED
      BY <1>1, <2>2 DEF IInv, Identity
  <1>5. TypeOK'
    <2>1. faults' \in 0 .. MaxFaults
      BY <1>1, RequestAssumption DEF TypeOK
    <2>2. expired' \in SUBSET Keys /\ stalled' \in SUBSET Tokens /\ asks' \in [Turns -> Nat]
      BY <1>1, <1>4 DEF TypeOK
    <2>3. QED
      BY <1>1, <2>1, <2>2 DEF TypeOK
  <1>6. Identity'
    BY <1>1 DEF IInv, Identity, At, Key
  <1>7. Authority'
    <2> SUFFICES ASSUME NEW c \in Clients, Working(c)', req'[c].token \notin stalled'
                 PROVE  (Owns(c) /\ Key(c) \notin expired)'
      BY DEF Authority
    <2>1. Working(c) /\ req[c].token \notin stalled /\ req[c].token # ops[k].owner
      BY <1>1, <1>3 DEF Working, At, Key
    <2>2. Owns(c) /\ Key(c) \notin expired
      BY <2>1 DEF IInv, Authority
    <2>3. Key(c) # k
      BY <2>1, <2>2 DEF Owns, Op
    <2>4. QED
      BY <1>1, <2>2, <2>3 DEF Owns, Op, Key
  <1>8. Asked'
    <2>1. Asked /\ asks \in [Turns -> Nat]
      BY <1>1 DEF IInv, TypeOK
    <2>2. AskedOnce'
      BY <1>1, <2>1 DEF Asked, AskedOnce
    <2>3. \A j \in Turns : ~Answered(j)' /\ (ops'[j].status = "none" \/ j \in expired') => asks'[j] = 0
      BY <1>1, <1>2, <2>1 DEF Asked
    <2>4. \A c \in Clients :
             /\ Key(c)' \in Turns /\ req'[c].token \notin stalled'
             /\ At(c, "agent")' \/ (At(c, "check")' /\ ~Answered(Key(c))')
             => asks'[Key(c)'] = 0
      <3> SUFFICES ASSUME NEW c \in Clients, Key(c)' \in Turns, req'[c].token \notin stalled',
                          At(c, "agent")' \/ (At(c, "check")' /\ ~Answered(Key(c))')
                   PROVE  asks'[Key(c)'] = 0
        OBVIOUS
      <3>1. Key(c)' = Key(c) /\ At(c, "agent")' = At(c, "agent") /\ At(c, "check")' = At(c, "check")
            /\ req[c].token \notin stalled /\ Answered(Key(c))' = Answered(Key(c))
        BY <1>1, <1>2, <1>3 DEF Key, At, Answered, Has
      <3>2. asks[Key(c)] = 0
        BY <2>1, <3>1 DEF Asked
      <3>3. QED
        BY <1>1, <3>1, <3>2
    <2>5. QED
      BY <2>2, <2>3, <2>4 DEF Asked
  <1>9. Answers'
    BY <1>1, <1>2 DEF IInv, Answers, CompletedIsAnswered, At, Key
  <1>10. Started'
    BY <1>1 DEF IInv, Started, OneRunPerConfirmation, Names, At, Key
  <1>11. QED
    BY <1>5, <1>6, <1>7, <1>8, <1>9, <1>10 DEF IInv

\* The server starts again with no handler and no lease lost.
LEMMA CrashKeeps ==
    ASSUME IInv, Crash
    PROVE  IInv'
  <1>1. /\ TypeOK /\ UNCHANGED <<ops, expired, events, runtime, runs, approved, requests>>
        /\ req' = [c \in Clients |-> Idle] /\ stalled' = {}
        /\ asks' = [k \in Turns |-> IF Answered(k) THEN asks[k] ELSE 0]
        /\ faults < MaxFaults /\ faults' = faults + 1
    BY DEF Crash, store, plane, IInv
  <1>2. (\A j : Answered(j)' = Answered(j)) /\ Readonly' = Readonly
    BY <1>1, SameTranscript
  <1>3. \A c \in Clients : req'[c] = Idle /\ req'[c].at = "idle" /\ req'[c].target = 0 /\ req'[c].key = ""
    BY <1>1 DEF Idle
  <1>4. TypeOK'
    <2>1. faults' \in 0 .. MaxFaults
      BY <1>1, RequestAssumption DEF TypeOK
    <2>2. Idle \in Request
      BY DEF Idle, Request, Labels
    <2>3. req' \in [Clients -> Request] /\ \A c \in Clients : req'[c].target <= Len(runs')
      <3>1. 0 <= Len(runs')
        BY <1>1 DEF TypeOK
      <3>2. QED
        BY <1>1, <1>3, <2>2, <3>1
    <2>4. stalled' \in SUBSET Tokens /\ asks' \in [Turns -> Nat]
      BY <1>1 DEF TypeOK
    <2>5. QED
      BY <1>1, <2>1, <2>3, <2>4 DEF TypeOK
  <1>5. Identity'
    <2>1. \A c \in Clients : At(c, "idle")' /\ req'[c] = Idle
      BY <1>3 DEF At
    <2>2. (\A t \in stalled' : t <= requests')
          /\ \A k \in Keys : ops'[k].owner <= requests' /\ (ops'[k].status = "running" => ops'[k].owner # 0)
      BY <1>1 DEF IInv, Identity
    <2>3. \A c \in Clients : ~At(c, "idle")' => FALSE
      BY <2>1
    <2>4. QED
      BY <2>1, <2>2, <2>3 DEF Identity
  <1>6. Authority'
    BY <1>3 DEF Authority, Working, At
  <1>7. Asked'
    <2>1. AskedOnce
      BY DEF IInv, Asked
    <2>2. \A k \in Turns : asks'[k] = 0 \/ (Answered(k) /\ asks'[k] = asks[k])
      BY <1>1
    <2>3. AskedOnce'
      BY <2>1, <2>2 DEF AskedOnce
    <2>4. \A c \in Clients : ~At(c, "agent")' /\ ~At(c, "check")'
      BY <1>3 DEF At
    <2>5. \A k \in Turns : ~Answered(k)' => asks'[k] = 0
      BY <1>2, <2>2
    <2>6. QED
      BY <2>3, <2>4, <2>5 DEF Asked
  <1>8. Answers'
    BY <1>1, <1>2, <1>3 DEF IInv, Answers, CompletedIsAnswered, At
  <1>9. Started'
    BY <1>1, <1>3 DEF IInv, Started, OneRunPerConfirmation, At
  <1>10. QED
    BY <1>4, <1>5, <1>6, <1>7, <1>8, <1>9 DEF IInv

-----------------------------------------------------------------------------
(* A step of a handler.                                                    *)

LEMMA IdleRow == Idle.at = "idle"
  BY DEF Idle

LEMMA HandlerRow ==
    ASSUME IInv, NEW c \in Clients, Step(c) \/ Cancelled(c)
    PROVE  /\ ~At(c, "idle") /\ UNCHANGED <<stalled, requests>> /\ Monotone
           /\ \A d \in Clients : d # c => req'[d] = req[d]
           /\ \/ req'[c] = Idle
              \/ /\ req'[c].at \notin {"idle", "claim"}
                 /\ req'[c].key = Key(c) /\ req'[c].token = req[c].token
           /\ req'[c].at = "check" => Claim(c)
           /\ req'[c].at = "agent" => Check(c) /\ ~Answered(Key(c))
           /\ req'[c].at = "complete" => Readonly \/ Answered(Key(c)) \/ Answer(c)
           /\ req'[c].at \in {"point", "probe"} => req'[c].target # 0
           /\ req'[c].at = "approve" => req'[c].held # 0
           /\ req'[c].at = "start" => Approve(c)
           /\ req'[c].at \notin {"admit", "recheck", "view"}
           /\ req'[c].at = "probe" => Recheck(c)
           /\ req'[c].at = "point" =>
                 \/ Recheck(c) \/ View(c) \/ Probe(c)
                 \/ StartRun(c) /\ runs'[req'[c].target].key = <<0, Key(c)>>
           /\ req'[c].at = "confirmed" => Point(c) /\ req'[c].target = req[c].target
  <1>1. TypeOK
    BY DEF IInv
  <1>2. ~At(c, "idle") /\ UNCHANGED <<stalled, requests>> /\ Monotone
    BY HandlerWrites, HandlerRuns
  <1>3. /\ \A d \in Clients : d # c => req'[d] = req[d]
        /\ \/ req'[c] = Idle
           \/ /\ req'[c].at \notin {"idle", "claim"}
              /\ req'[c].key = Key(c) /\ req'[c].token = req[c].token
    BY <1>1, HandlerRuns, HandlerMoves, MoveEffect
  <1>4. req \in [Clients -> Request]
    BY <1>1 DEF TypeOK
  <1>5. CASE Return(c)
    <2>1. req'[c] = Idle
      BY <1>4, <1>5 DEF Return
    <2>2. req'[c].at = "idle"
      BY <2>1, IdleRow
    <2>3. /\ req'[c].at # "check" /\ req'[c].at # "agent" /\ req'[c].at # "complete"
          /\ req'[c].at \notin {"point", "probe"} /\ req'[c].at # "approve" /\ req'[c].at # "start"
          /\ req'[c].at \notin {"admit", "recheck", "view"} /\ req'[c].at # "confirmed"
      BY <2>2
    <2>4. QED
      BY <1>2, <1>3, <2>3
  <1>6. CASE MovesOn(c)
    <2>1. PICK at, held, target : Moves(c, at, held, target)
      BY <1>6 DEF MovesOn
    <2> DEFINE row == [at |-> at, key |-> Key(c), token |-> req[c].token,
                       held |-> held, target |-> target]
    <2>2. row.at = at /\ row.held = held /\ row.target = target
      OBVIOUS
    <2>3. req' = [req EXCEPT ![c] = row]
      BY <2>1 DEF Moves, Moved
    <2> HIDE DEF row
    <2>4. req'[c] = row
      BY <1>4, <2>3
    <2>5. req'[c].at = at /\ req'[c].held = held /\ req'[c].target = target
      BY <2>2, <2>4
    <2>6. QED
      BY <1>2, <1>3, <2>1, <2>5 DEF Moves
  <1>7. QED
    BY <1>5, <1>6, HandlerMoves

\* A request that waits for its turn claims it or returns its transcript.
LEMMA FromClaim ==
    ASSUME NEW c \in Clients, Step(c) \/ Cancelled(c), At(c, "claim")
    PROVE  Claim(c) \/ Return(c)
  <1>1. ~(Check(c) \/ Agent(c) \/ Complete(c) \/ Release(c) \/ Cancelled(c))
    BY DEF At, Check, Agent, Complete, Release, Cancelled
  <1>2. ~(Admit(c) \/ Extract(c) \/ Edit(c) \/ AppendForm(c) \/ AmendFails(c) \/ Fail(c) \/ Submit(c))
    BY DEF At, Admit, Extract, Edit, AppendForm, AmendFails, Fail, Submit
  <1>3. ~(Answer(c) \/ Confirm(c) \/ Approve(c) \/ StartFails(c) \/ StartRun(c) \/ Point(c) \/ Confirmed(c))
    BY DEF At, Answer, Confirm, Approve, StartFails, StartRun, Point, Confirmed
  <1>4. ~(Recheck(c) \/ Probe(c) \/ Status(c) \/ View(c))
    BY DEF At, Recheck, Probe, Status, View
  <1>5. Claim(c) \/ Replay(c)
    BY <1>1, <1>2, <1>3, <1>4 DEF Step
  <1>6. QED
    BY <1>5 DEF Replay

\* The operations a step of a handler leaves.
LEMMA HandlerOps ==
    ASSUME IInv, NEW c \in Clients, Step(c) \/ Cancelled(c)
    PROVE  \/ UNCHANGED <<ops, expired>>
           \/ /\ Claim(c) /\ Claimable(Key(c)) /\ UNCHANGED <<asks, events, runtime>>
              /\ ops' = [ops EXCEPT ![Key(c)] = [owner |-> req[c].token, status |-> "running"]]
              /\ expired' = expired \ {Key(c)}
           \/ /\ Complete(c) /\ Owns(c) /\ At(c, "complete") /\ UNCHANGED <<asks, events, runtime>> /\ req'[c] = Idle
              /\ ops' = [ops EXCEPT ![Key(c)] = [owner |-> req[c].token, status |-> "completed"]]
              /\ expired' = expired \ {Key(c)}
           \/ /\ Release(c) /\ Op(c).owner = req[c].token /\ UNCHANGED <<events, runtime>> /\ req'[c] = Idle
              /\ ops' = [ops EXCEPT ![Key(c)] = NoOp]
              /\ expired' = expired \ {Key(c)}
  <1>1. req \in [Clients -> Request] /\ ops \in [Keys -> Operation]
    BY DEF IInv, TypeOK
  <1>2. CASE Claim(c)
    BY <1>2 DEF Claim
  <1>3. CASE Complete(c)
    <2>1. req'[c] = Idle
      BY <1>1, <1>3 DEF Complete, Return
    <2>2. CASE Owns(c)
      <3>1. ops' = [ops EXCEPT ![Key(c)] = [ops[Key(c)] EXCEPT !.status = "completed"]]
        BY <1>3, <2>2 DEF Complete
      <3>2. [ops[Key(c)] EXCEPT !.status = "completed"] = [owner |-> req[c].token, status |-> "completed"]
        BY <2>2 DEF Owns, Op
      <3>3. QED
        BY <1>3, <2>1, <2>2, <3>1, <3>2 DEF Complete
    <2>3. CASE ~Owns(c)
      BY <1>3, <2>3 DEF Complete
    <2>4. QED
      BY <2>2, <2>3
  <1>4. CASE Release(c)
    <2>1. req'[c] = Idle
      BY <1>1, <1>4 DEF Release, Return
    <2>2. CASE Op(c).owner = req[c].token
      BY <1>4, <2>1, <2>2 DEF Release
    <2>3. CASE Op(c).owner # req[c].token
      BY <1>4, <2>3 DEF Release
    <2>4. QED
      BY <2>2, <2>3
  <1>5. CASE Agent(c) \/ Approve(c) \/ StartRun(c) \/ Probe(c) \/ Point(c) \/ Posts(c)
    BY <1>5 DEF Agent, Approve, StartRun, Probe, Point, Posts, store
  <1>6. QED
    BY <1>2, <1>3, <1>4, <1>5, HandlerWrites

LEMMA HandlerIdentity ==
    ASSUME IInv, NEW c \in Clients, Step(c) \/ Cancelled(c)
    PROVE  Identity'
  <1>1. Identity /\ ops \in [Keys -> Operation]
    BY DEF IInv, TypeOK
  <1>2. /\ ~At(c, "idle") /\ UNCHANGED <<stalled, requests>>
        /\ \A d \in Clients : d # c => req'[d] = req[d]
        /\ \/ req'[c] = Idle
           \/ /\ req'[c].at \notin {"idle", "claim"}
              /\ req'[c].key = Key(c) /\ req'[c].token = req[c].token
    BY HandlerRow
  <1>3. Key(c) \in Keys /\ req[c].token \in 1 .. requests
    BY <1>1, <1>2 DEF Identity
  <1>4. \A d \in Clients :
           \/ req'[d] = Idle /\ req'[d].at = "idle"
           \/ /\ req[d].at # "idle" /\ req'[d].at # "idle"
              /\ req'[d].key = req[d].key /\ req'[d].token = req[d].token
    <2>1. \A d \in Clients : req[d].at = "idle" => req[d] = Idle
      BY <1>1 DEF Identity, At
    <2>2. Idle.at = "idle"
      BY DEF Idle
    <2>3. QED
      BY <1>2, <2>1, <2>2 DEF At, Key
  <1>5. \A k \in Keys : ops'[k].owner <= requests' /\ (ops'[k].status = "running" => ops'[k].owner # 0)
    <2>1. \A k \in Keys : ops[k].owner <= requests /\ (ops[k].status = "running" => ops[k].owner # 0)
      BY <1>1 DEF Identity
    <2>2. requests \in Nat
      BY RequestAssumption DEF IInv, TypeOK
    <2>3. req[c].token <= requests /\ req[c].token # 0 /\ 0 <= requests
      BY <1>3, <2>2
    <2>4. \/ ops' = ops
          \/ \E s \in {"running", "completed"} :
                ops' = [ops EXCEPT ![Key(c)] = [owner |-> req[c].token, status |-> s]]
          \/ ops' = [ops EXCEPT ![Key(c)] = NoOp]
      BY HandlerOps
    <2>5. CASE ops' = ops
      BY <1>2, <2>1, <2>5
    <2>6. CASE \E s \in {"running", "completed"} :
                  ops' = [ops EXCEPT ![Key(c)] = [owner |-> req[c].token, status |-> s]]
      <3>1. PICK s \in {"running", "completed"} :
                    ops' = [ops EXCEPT ![Key(c)] = [owner |-> req[c].token, status |-> s]]
        BY <2>6
      <3>2. \A k \in Keys : k # Key(c) => ops'[k] = ops[k]
        BY <1>1, <3>1
      <3>3. ops'[Key(c)].owner = req[c].token
        BY <1>1, <1>3, <3>1
      <3>4. QED
        BY <1>2, <2>1, <2>3, <3>2, <3>3
    <2>7. CASE ops' = [ops EXCEPT ![Key(c)] = NoOp]
      <3>1. \A k \in Keys : k # Key(c) => ops'[k] = ops[k]
        BY <1>1, <2>7
      <3>2. ops'[Key(c)].owner = 0 /\ ops'[Key(c)].status # "running"
        BY <1>1, <1>3, <2>7 DEF NoOp
      <3>3. QED
        BY <1>2, <2>1, <2>3, <3>1, <3>2
    <2>8. QED
      BY <2>4, <2>5, <2>6, <2>7
  <1>6. \A d \in Clients : ~At(d, "idle")' => Key(d)' \in Keys /\ req'[d].token \in 1 .. requests'
    BY <1>1, <1>2, <1>4 DEF Identity, At, Key
  <1>7. \A d, e \in Clients :
           d # e /\ ~At(d, "idle")' /\ ~At(e, "idle")' => req'[d].token # req'[e].token
    BY <1>1, <1>4 DEF Identity, At
  <1>8. \A d \in Clients : At(d, "idle")' => req'[d] = Idle
    BY <1>4 DEF At
  <1>9. \A t \in stalled' : t <= requests'
    BY <1>1, <1>2 DEF Identity
  <1>10. QED
    BY <1>5, <1>6, <1>7, <1>8, <1>9 DEF Identity

\* Two handlers that work on one turn and kept their lease are one.
LEMMA SoleWorker ==
    ASSUME Identity, Authority, NEW c \in Clients, NEW d \in Clients,
           Working(c), ~At(d, "idle"), Key(c) = Key(d), req[c].token \notin stalled,
           Op(d).owner = req[d].token
    PROVE  c = d
  <1>1. Owns(c)
    BY DEF Authority
  <1>2. req[c].token = req[d].token
    BY <1>1 DEF Owns, Op
  <1>3. QED
    BY <1>2 DEF Identity, Working

LEMMA HandlerAuthority ==
    ASSUME IInv, NEW c \in Clients, Step(c) \/ Cancelled(c)
    PROVE  Authority'
  <1>1. Identity /\ Authority /\ ops \in [Keys -> Operation]
    BY DEF IInv, TypeOK
  <1>2. /\ ~At(c, "idle") /\ UNCHANGED <<stalled, requests>>
        /\ \A d \in Clients : d # c => req'[d] = req[d]
        /\ \/ req'[c] = Idle
           \/ /\ req'[c].at \notin {"idle", "claim"}
              /\ req'[c].key = Key(c) /\ req'[c].token = req[c].token
    BY HandlerRow
  <1>3. Key(c) \in Keys
    BY <1>1, <1>2 DEF Identity
  <1> SUFFICES ASSUME NEW d \in Clients, Working(d)', req'[d].token \notin stalled'
               PROVE  (Owns(d) /\ Key(d) \notin expired)'
    BY DEF Authority
  <1>4. /\ req'[d].key = Key(d) /\ req'[d].token = req[d].token /\ Key(d) \in Turns
        /\ ~At(d, "idle") /\ req[d].token \notin stalled /\ req'[d].at # "idle" /\ req'[d].at # "claim"
    <2>1. req'[d].at # "idle" /\ req'[d].at # "claim" /\ req'[d].key \in Turns
      BY DEF Working, At, Key
    <2>2. req'[d] # Idle
      BY <2>1, IdleRow
    <2>3. QED
      BY <1>2, <2>1, <2>2 DEF At, Key
  <1>5. Key(d) \in Keys
    BY <1>4 DEF Turns
  <1>6. Working(d) => Owns(d) /\ Key(d) \notin expired
    BY <1>1, <1>4 DEF Authority
  <1>7. d # c => Working(d)
    BY <1>2, <1>4 DEF Working, At
  <1>8. CASE UNCHANGED <<ops, expired>>
    <2>1. CASE d = c /\ At(c, "claim")
      <3>1. ~Return(c)
        <4>1. req \in [Clients -> Request]
          BY DEF IInv, TypeOK
        <4>2. Return(c) => req'[c] = Idle
          BY <4>1 DEF Return
        <4>3. QED
          BY <1>4, <2>1, <4>2, IdleRow
      <3>2. Claim(c)
        BY <2>1, <3>1, FromClaim
      <3>3. ops'[Key(c)] = [owner |-> req[c].token, status |-> "running"] /\ Key(c) \notin expired'
        BY <1>1, <1>3, <3>2 DEF Claim
      <3>4. QED
        BY <1>4, <2>1, <3>3 DEF Owns, Op, Key
    <2>2. CASE ~(d = c /\ At(c, "claim"))
      <3>1. Working(d)
        BY <1>4, <1>7, <2>2 DEF Working
      <3>2. QED
        BY <1>4, <1>6, <1>8, <3>1 DEF Owns, Op, Key
    <2>3. QED
      BY <2>1, <2>2
  <1>9. CASE /\ Claimable(Key(c))
             /\ ops' = [ops EXCEPT ![Key(c)] = [owner |-> req[c].token, status |-> "running"]]
             /\ expired' = expired \ {Key(c)}
    <2>1. CASE d = c
      <3>1. ops'[Key(c)] = [owner |-> req[c].token, status |-> "running"] /\ Key(c) \notin expired'
        BY <1>1, <1>3, <1>9
      <3>2. QED
        BY <1>4, <2>1, <3>1 DEF Owns, Op, Key
    <2>2. CASE d # c
      <3>1. Owns(d) /\ Key(d) \notin expired
        BY <1>6, <1>7, <2>2
      <3>2. Key(d) # Key(c)
        BY <1>9, <3>1 DEF Claimable, Owns, Op
      <3>3. ops'[Key(d)] = ops[Key(d)] /\ Key(d) \notin expired'
        BY <1>1, <1>5, <1>9, <3>1, <3>2
      <3>4. QED
        BY <1>4, <3>1, <3>3 DEF Owns, Op, Key
    <2>3. QED
      BY <2>1, <2>2
  <1>10. CASE /\ Op(c).owner = req[c].token /\ req'[c] = Idle
              /\ \E row : ops' = [ops EXCEPT ![Key(c)] = row]
              /\ expired' = expired \ {Key(c)}
    <2>1. d # c
      BY <1>4, <1>10, IdleRow
    <2>2. Owns(d) /\ Key(d) \notin expired
      BY <1>6, <1>7, <2>1
    <2>3. Key(d) # Key(c)
      BY <1>1, <1>2, <1>4, <1>7, <1>10, <2>1, SoleWorker
    <2>4. ops'[Key(d)] = ops[Key(d)] /\ Key(d) \notin expired'
      BY <1>1, <1>5, <1>10, <2>2, <2>3
    <2>5. QED
      BY <1>4, <2>2, <2>4 DEF Owns, Op, Key
  <1>11. Owns(c) => Op(c).owner = req[c].token
    BY DEF Owns
  <1>12. QED
    BY <1>8, <1>9, <1>10, <1>11, HandlerOps

\* A step of a handler excuses an answer, or asks for one that it may ask for.
LEMMA HandlerAsks ==
    ASSUME IInv, NEW c \in Clients, Step(c) \/ Cancelled(c)
    PROVE  \/ \A k \in Turns : asks'[k] = asks[k] \/ asks'[k] = 0
           \/ /\ At(c, "agent") /\ req[c].token \notin stalled /\ UNCHANGED <<ops, expired>>
              /\ asks' = [asks EXCEPT ![Key(c)] = asks[Key(c)] + 1]
  <1>1. CASE UNCHANGED asks
    BY <1>1
  <1>2. CASE Agent(c)
    BY <1>2 DEF Agent, store
  <1>3. CASE Release(c)
    BY <1>3 DEF Release, Excuse
  <1>4. QED
    BY <1>1, <1>2, <1>3, HandlerWrites DEF Posts, Claim, Complete, Approve, StartRun, Probe, Point

LEMMA HandlerAsked ==
    ASSUME IInv, NEW c \in Clients, Step(c) \/ Cancelled(c)
    PROVE  Asked'
  <1>1. /\ Asked /\ Identity /\ Authority
        /\ ops \in [Keys -> Operation] /\ asks \in [Turns -> Nat] /\ Turns \subseteq Keys
    BY DEF IInv, TypeOK, Turns
  <1>2. /\ ~At(c, "idle") /\ UNCHANGED <<stalled, requests>> /\ Monotone
        /\ \A d \in Clients : d # c => req'[d] = req[d]
        /\ \/ req'[c] = Idle
           \/ /\ req'[c].at \notin {"idle", "claim"}
              /\ req'[c].key = Key(c) /\ req'[c].token = req[c].token
        /\ req'[c].at = "check" => Claim(c)
        /\ req'[c].at = "agent" => Check(c) /\ ~Answered(Key(c))
    BY HandlerRow
  <1>3. \A k : ~Answered(k)' => ~Answered(k)
    BY <1>2 DEF Monotone, Answered
  <1>4. Key(c) \in Keys
    BY <1>1, <1>2 DEF Identity
  <1> DEFINE Lowered == \A k \in Turns : asks'[k] = asks[k] \/ asks'[k] = 0
             Raised == /\ At(c, "agent") /\ req[c].token \notin stalled /\ UNCHANGED <<ops, expired>>
                       /\ asks' = [asks EXCEPT ![Key(c)] = asks[Key(c)] + 1]
  <1>5. Lowered \/ Raised
    BY HandlerAsks
  <1>6. Raised => Working(c) \/ Key(c) \notin Turns
    BY <1>2 DEF Working, At
  <1>7. AskedOnce'
    <2>1. AskedOnce /\ (Raised /\ Key(c) \in Turns => asks[Key(c)] = 0)
      BY <1>1 DEF Asked
    <2>2. CASE Lowered
      BY <1>1, <2>1, <2>2 DEF AskedOnce
    <2>3. CASE Raised
      <3>1. \A k \in Turns : asks'[k] = asks[k] \/ (k = Key(c) /\ asks'[k] = asks[k] + 1)
        BY <1>1, <2>3
      <3>2. QED
        BY <1>1, <2>1, <2>3, <3>1 DEF AskedOnce
    <2>4. QED
      BY <1>5, <2>2, <2>3
  <1>8. \A k \in Turns : ~Answered(k)' /\ (ops'[k].status = "none" \/ k \in expired') => asks'[k] = 0
    <2> SUFFICES ASSUME NEW k \in Turns, ~Answered(k)', ops'[k].status = "none" \/ k \in expired'
                 PROVE  asks'[k] = 0
      OBVIOUS
    <2>1. k \in Keys /\ ~Answered(k)
      BY <1>1, <1>3
    <2>2. ops[k].status = "none" \/ k \in expired => asks[k] = 0
      BY <1>1, <2>1 DEF Asked
    <2>3. CASE Raised
      <3>1. k # Key(c)
        <4>1. CASE Key(c) \in Turns
          <5>1. Owns(c) /\ Key(c) \notin expired
            BY <1>1, <1>6, <2>3, <4>1 DEF Authority
          <5>2. QED
            BY <2>3, <5>1 DEF Owns, Op
        <4>2. QED
          BY <4>1
      <3>2. QED
        BY <1>1, <2>2, <2>3, <3>1
    <2>4. CASE Lowered
      <3>1. CASE UNCHANGED <<ops, expired>>
        BY <2>2, <2>4, <3>1
      <3>2. CASE \E s \in {"running", "completed"} :
                    /\ ops' = [ops EXCEPT ![Key(c)] = [owner |-> req[c].token, status |-> s]]
                    /\ expired' = expired \ {Key(c)}
        <4>1. k # Key(c)
          BY <1>1, <1>4, <3>2
        <4>2. ops[k].status = "none" \/ k \in expired
          BY <1>1, <2>1, <3>2, <4>1
        <4>3. QED
          BY <2>2, <2>4, <4>2
      <3>3. CASE Release(c) /\ ops' = [ops EXCEPT ![Key(c)] = NoOp] /\ expired' = expired \ {Key(c)}
        <4>1. CASE k = Key(c)
          <5>1. asks' = [j \in Turns |-> IF j = Key(c) /\ ~Answered(Key(c)) THEN 0 ELSE asks[j]]
            BY <3>3 DEF Release, Excuse
          <5>2. QED
            BY <2>1, <4>1, <5>1
        <4>2. CASE k # Key(c)
          <5>1. ops[k].status = "none" \/ k \in expired
            BY <1>1, <2>1, <3>3, <4>2
          <5>2. QED
            BY <2>2, <2>4, <5>1
        <4>3. QED
          BY <4>1, <4>2
      <3>4. QED
        BY <3>1, <3>2, <3>3, HandlerOps
    <2>5. QED
      BY <1>5, <2>3, <2>4
  <1>9. ASSUME NEW d \in Clients, Key(d)' \in Turns, req'[d].token \notin stalled',
               At(d, "agent")' \/ (At(d, "check")' /\ ~Answered(Key(d))')
        PROVE  asks'[Key(d)'] = 0
    <2>1. req'[d].at \in {"agent", "check"} /\ req'[d] # Idle
      BY <1>9, IdleRow DEF At
    <2>2. Key(d)' = Key(d) /\ Key(d) \in Turns /\ req[d].token \notin stalled
      BY <1>2, <1>9, <2>1 DEF Key
    <2>3. asks[Key(d)] = 0
      <3>1. CASE d # c
        <4>1. At(d, "agent") \/ (At(d, "check") /\ ~Answered(Key(d)))
          BY <1>2, <1>3, <1>9, <2>2, <3>1 DEF At, Answered, Has
        <4>2. QED
          BY <1>1, <2>2, <4>1 DEF Asked
      <3>2. CASE d = c /\ req'[c].at = "agent"
        <4>1. At(c, "check") /\ ~Answered(Key(c))
          BY <1>2, <3>2 DEF Check
        <4>2. QED
          BY <1>1, <2>2, <3>2, <4>1 DEF Asked
      <3>3. CASE d = c /\ req'[c].at = "check"
        <4>1. Claim(c) /\ ~Answered(Key(c))'
          BY <1>2, <1>9, <3>3 DEF At
        <4>2. UNCHANGED events /\ Claimable(Key(c))
          BY <4>1 DEF Claim
        <4>3. ~Answered(Key(c))
          BY <2>2, <3>3, <4>1, <4>2 DEF Answered, Has
        <4>4. QED
          BY <1>1, <2>2, <3>3, <4>2, <4>3 DEF Asked, Claimable
      <3>4. QED
        BY <2>1, <3>1, <3>2, <3>3
    <2>4. CASE Lowered
      BY <2>2, <2>3, <2>4
    <2>5. CASE Raised
      <3>1. d # c
        BY <1>2, <2>1, <2>5 DEF At, Check, Claim
      <3>2. Working(d) /\ req[d].token \notin stalled
        BY <1>2, <2>1, <2>2, <3>1 DEF Working, At
      <3>3. Key(d) # Key(c)
        BY <1>1, <1>2, <2>5, <3>1, <3>2, <1>6, <2>2, SoleWorker DEF Authority, Owns, Working
      <3>4. QED
        BY <1>1, <2>2, <2>3, <2>5, <3>3
    <2>6. QED
      BY <1>5, <2>4, <2>5
  <1>10. QED
    BY <1>7, <1>8, <1>9 DEF Asked

LEMMA HandlerAnswers ==
    ASSUME IInv, NEW c \in Clients, Step(c) \/ Cancelled(c)
    PROVE  Answers'
  <1>1. /\ Answers /\ Identity /\ TypeOK /\ ops \in [Keys -> Operation] /\ Turns \subseteq Keys
    BY DEF IInv, TypeOK, Turns
  <1>2. /\ ~At(c, "idle") /\ UNCHANGED <<stalled, requests>> /\ Monotone
        /\ \A d \in Clients : d # c => req'[d] = req[d]
        /\ \/ req'[c] = Idle
           \/ /\ req'[c].at \notin {"idle", "claim"}
              /\ req'[c].key = Key(c) /\ req'[c].token = req[c].token
        /\ req'[c].at = "complete" => Readonly \/ Answered(Key(c)) \/ Answer(c)
        /\ req'[c].at \in {"point", "probe"} => req'[c].target # 0
    BY HandlerRow
  <1>3. Key(c) \in Keys
    BY <1>1, <1>2 DEF Identity
  <1>4. (\A k : Answered(k) => Answered(k)') /\ (Readonly => Readonly')
    BY <1>2 DEF Monotone, Answered
  <1>5. CompletedIsAnswered'
    <2> SUFFICES ASSUME NEW k \in Turns, ops'[k].status = "completed"
                 PROVE  (Answered(k) \/ Readonly)'
      BY DEF CompletedIsAnswered
    <2>1. k \in Keys
      BY <1>1
    <2>2. ops[k].status = "completed" => Answered(k) \/ Readonly
      BY <1>1 DEF Answers, CompletedIsAnswered
    <2>3. CASE ops[k].status = "completed"
      BY <1>4, <2>2, <2>3
    <2>4. CASE ops[k].status # "completed"
      <3>1. CASE UNCHANGED <<ops, expired>>
        BY <2>4, <3>1
      <3>2. CASE ops' = [ops EXCEPT ![Key(c)] = [owner |-> req[c].token, status |-> "running"]]
        BY <1>1, <2>1, <2>4, <3>2
      <3>3. CASE ops' = [ops EXCEPT ![Key(c)] = NoOp]
        <4>1. NoOp.status # "completed"
          BY DEF NoOp
        <4>2. QED
          BY <1>1, <2>1, <2>4, <3>3, <4>1
      <3>4. CASE At(c, "complete") /\ ops' = [ops EXCEPT ![Key(c)] = [owner |-> req[c].token, status |-> "completed"]]
        <4>1. k = Key(c)
          BY <1>1, <2>1, <2>4, <3>4
        <4>2. Answered(Key(c)) \/ Readonly
          BY <1>1, <3>4 DEF Answers
        <4>3. QED
          BY <1>4, <4>1, <4>2
      <3>5. QED
        BY <3>1, <3>2, <3>3, <3>4, HandlerOps
    <2>5. QED
      BY <2>3, <2>4
  <1>6. ASSUME NEW d \in Clients, At(d, "complete")'
        PROVE  (Answered(Key(d)) \/ Readonly)'
    <2>1. Key(d)' = Key(d)
      BY <1>2, <1>6, IdleRow DEF At, Key
    <2>2. (\E k : k = Key(d) /\ Answered(k)') => Answered(Key(d))'
      BY <2>1 DEF Answered, Has
    <2>3. CASE d # c
      <3>1. Answered(Key(d)) \/ Readonly
        BY <1>1, <1>2, <1>6, <2>3 DEF Answers, At
      <3>2. QED
        BY <1>4, <2>2, <3>1
    <2>4. CASE d = c /\ (Readonly \/ Answered(Key(c)))
      BY <1>4, <2>2, <2>4
    <2>5. CASE d = c /\ Answer(c)
      <3>1. Post(c, "assistant", 0, 0)
        BY <2>5 DEF Answer
      <3>2. \E i \in DOMAIN events' : events'[i].type = "assistant" /\ events'[i].key = Key(c)
        BY <1>1, <3>1, PostEffect DEF Types
      <3>3. QED
        BY <2>1, <2>5, <3>2 DEF Answered, Has
    <2>6. QED
      BY <1>2, <1>6, <2>3, <2>4, <2>5 DEF At
  <1>7. \A d \in Clients : At(d, "point")' => req'[d].target # 0
    BY <1>1, <1>2 DEF Answers, At
  <1>8. QED
    BY <1>5, <1>6, <1>7 DEF Answers

\* What a step of a handler does to the runs and the forms they start from.
LEMMA HandlerStarts ==
    ASSUME IInv, NEW c \in Clients, Step(c) \/ Cancelled(c)
    PROVE  /\ \A k \in Keys : approved[k] # 0 => approved'[k] = approved[k]
           /\ Approve(c) => approved'[Key(c)] # 0
           /\ \/ runs' = runs
              \/ \E form \in Nat, sk \in StartKeys :
                    /\ runs' = Append(runs, [form |-> form, key |-> sk])
                    /\ \A i \in DOMAIN runs : runs[i].key # sk
                    /\ \/ sk[1] = 0 /\ approved'[sk[2]] = form /\ form # 0
                       \/ sk[1] \in DOMAIN runs /\ form = runs[sk[1]].form
  <1>1. TypeOK /\ Identity /\ Started /\ approved \in [Keys -> Nat]
    BY DEF IInv, TypeOK
  <1>2. Key(c) \in Keys
    BY <1>1, HandlerRow DEF Identity
  <1>3. CASE UNCHANGED <<runs, approved>> /\ ~Approve(c)
    BY <1>3
  <1>4. CASE Approve(c)
    <2>1. req[c].held # 0
      BY <1>1, <1>4 DEF Started, Approve
    <2>2. runs' = runs /\ approved' = [approved EXCEPT ![Key(c)] = IF approved[Key(c)] = 0 THEN req[c].held ELSE approved[Key(c)]]
      BY <1>4 DEF Approve
    <2>3. QED
      BY <1>1, <1>2, <2>1, <2>2
  <1>5. CASE StartRun(c)
    <2>1. Accept(c, <<0, Key(c)>>, approved[Key(c)]) /\ approved' = approved /\ At(c, "start")
      BY <1>5 DEF StartRun
    <2>2. approved[Key(c)] \in Nat /\ approved[Key(c)] # 0
      BY <1>1, <1>2, <2>1 DEF Started
    <2>3. <<0, Key(c)>> \in StartKeys
      BY <1>2 DEF StartKeys
    <2>4. \/ runs' = runs
          \/ /\ runs' = Append(runs, [form |-> approved[Key(c)], key |-> <<0, Key(c)>>])
             /\ \A i \in DOMAIN runs : runs[i].key # <<0, Key(c)>>
      BY <1>1, <2>1, <2>2, <2>3, AcceptEffect
    <2>5. ~Approve(c)
      BY <2>1 DEF Approve, At
    <2>6. <<0, Key(c)>>[2] = Key(c) /\ <<0, Key(c)>>[1] = 0
      OBVIOUS
    <2>7. QED
      BY <2>1, <2>2, <2>3, <2>4, <2>5, <2>6
  <1>6. CASE Probe(c)
    <2>1. approved' = approved /\ At(c, "probe")
      BY <1>6 DEF Probe
    <2>2. ~Approve(c)
      BY <2>1 DEF Approve, At
    <2>3. CASE runs' = runs
      BY <2>1, <2>2, <2>3
    <2>4. CASE runs' # runs
      <3>1. Accept(c, <<req[c].target, Key(c)>>, runs[req[c].target].form)
        BY <1>6, <2>4 DEF Probe
      <3>2. req[c].target # 0 /\ req[c] \in Request /\ req[c].target <= Len(runs) /\ Len(runs) \in Nat
        BY <1>1, <2>1 DEF Started, TypeOK
      <3>3. req[c].target \in Nat
        BY <3>2 DEF Request
      <3>4. req[c].target \in 1 .. Len(runs)
        BY <3>2, <3>3
      <3>5. runs[req[c].target] \in Run
        BY <1>1, <3>4 DEF TypeOK
      <3>6. runs[req[c].target].form \in Nat
        BY <3>5 DEF Run
      <3>7. <<req[c].target, Key(c)>> \in StartKeys
        BY <1>2, <3>3 DEF StartKeys
      <3>8. /\ runs' = Append(runs, [form |-> runs[req[c].target].form, key |-> <<req[c].target, Key(c)>>])
            /\ \A i \in DOMAIN runs : runs[i].key # <<req[c].target, Key(c)>>
        BY <1>1, <2>4, <3>1, <3>6, <3>7, AcceptEffect
      <3>9. <<req[c].target, Key(c)>>[1] \in DOMAIN runs /\ <<req[c].target, Key(c)>>[1] = req[c].target
        BY <1>1, <3>4 DEF TypeOK
      <3>10. QED
        BY <2>1, <2>2, <3>6, <3>7, <3>8, <3>9
    <2>5. QED
      BY <2>3, <2>4
  <1>7. QED
    BY <1>3, <1>4, <1>5, <1>6, HandlerWrites DEF Rests, Posts, Point, plane

\* The runs are added to, and a run keeps its key.
LEMMA NamesKept ==
    ASSUME IInv, NEW c \in Clients, Step(c) \/ Cancelled(c), NEW run, NEW k, Names(run, k)
    PROVE  Names(run, k)'
  <1>1. runs \in Seq(Run) /\ Len(runs) \in Nat /\ DOMAIN runs = 1 .. Len(runs)
    BY DEF IInv, TypeOK
  <1>2. CASE runs' = runs
    BY <1>2 DEF Names
  <1>3. CASE runs' # runs
    <2>1. PICK form \in Nat, sk \in StartKeys : runs' = Append(runs, [form |-> form, key |-> sk])
      BY <1>3, HandlerStarts
    <2>2. run \in 1 .. Len(runs) /\ runs'[run] = runs[run] /\ DOMAIN runs' = 1 .. (Len(runs) + 1)
      BY <1>1, <2>1 DEF Names
    <2>3. QED
      BY <1>1, <2>2 DEF Names
  <1>4. QED
    BY <1>2, <1>3

\* The runs a step of a handler leaves are as the keys promise.
LEMMA RunsKept ==
    ASSUME IInv, NEW c \in Clients, Step(c) \/ Cancelled(c)
    PROVE  /\ \A i, j \in DOMAIN runs' : runs'[i].key = runs'[j].key => i = j
           /\ \A i \in DOMAIN runs' :
                 IF runs'[i].key[1] = 0
                 THEN runs'[i].form = approved'[runs'[i].key[2]] /\ approved'[runs'[i].key[2]] # 0
                 ELSE runs'[i].key[1] < i /\ runs'[i].form = runs'[runs'[i].key[1]].form
  <1>1. Started /\ runs \in Seq(Run) /\ Len(runs) \in Nat /\ DOMAIN runs = 1 .. Len(runs)
    BY DEF IInv, TypeOK
  <1>2. /\ \A k \in Keys : approved[k] # 0 => approved'[k] = approved[k]
        /\ \/ runs' = runs
           \/ \E form \in Nat, sk \in StartKeys :
                 /\ runs' = Append(runs, [form |-> form, key |-> sk])
                 /\ \A i \in DOMAIN runs : runs[i].key # sk
                 /\ \/ sk[1] = 0 /\ approved'[sk[2]] = form /\ form # 0
                    \/ sk[1] \in DOMAIN runs /\ form = runs[sk[1]].form
    BY HandlerStarts
  <1>3. \A i \in DOMAIN runs :
           /\ runs[i].key[1] \in Nat
           /\ IF runs[i].key[1] = 0
              THEN runs[i].form = approved'[runs[i].key[2]] /\ approved'[runs[i].key[2]] # 0
              ELSE runs[i].key[1] < i /\ runs[i].form = runs[runs[i].key[1]].form
    <2> SUFFICES ASSUME NEW i \in DOMAIN runs
                 PROVE  /\ runs[i].key[1] \in Nat
                        /\ IF runs[i].key[1] = 0
                           THEN runs[i].form = approved'[runs[i].key[2]] /\ approved'[runs[i].key[2]] # 0
                           ELSE runs[i].key[1] < i /\ runs[i].form = runs[runs[i].key[1]].form
      OBVIOUS
    <2>1. /\ IF runs[i].key[1] = 0 THEN runs[i].form = approved[runs[i].key[2]]
             ELSE runs[i].key[1] < i /\ runs[i].form = runs[runs[i].key[1]].form
          /\ runs[i].key[1] = 0 => approved[runs[i].key[2]] # 0
      BY <1>1 DEF Started, OneRunPerConfirmation
    <2>2. runs[i] \in Run
      BY <1>1
    <2>3. runs[i].key \in StartKeys
      BY <2>2 DEF Run
    <2>4. runs[i].key[1] \in Nat /\ runs[i].key[2] \in Keys
      BY <2>3 DEF StartKeys
    <2>5. QED
      BY <1>2, <2>1, <2>4
  <1>4. \A i, j \in DOMAIN runs : runs[i].key = runs[j].key => i = j
    BY <1>1 DEF Started, OneRunPerConfirmation
  <1>5. CASE runs' = runs
    BY <1>3, <1>4, <1>5
  <1>6. CASE runs' # runs
    <2>1. PICK form \in Nat, sk \in StartKeys :
             /\ runs' = Append(runs, [form |-> form, key |-> sk])
             /\ \A i \in DOMAIN runs : runs[i].key # sk
             /\ \/ sk[1] = 0 /\ approved'[sk[2]] = form /\ form # 0
                \/ sk[1] \in DOMAIN runs /\ form = runs[sk[1]].form
      BY <1>2, <1>6
    <2> DEFINE new == [form |-> form, key |-> sk]
    <2>2. new.form = form /\ new.key = sk /\ runs' = Append(runs, new)
      BY <2>1
    <2> HIDE DEF new
    <2>3. DOMAIN runs' = 1 .. (Len(runs) + 1) /\ runs'[Len(runs) + 1] = new
          /\ \A i \in 1 .. Len(runs) : runs'[i] = runs[i]
      BY <1>1, <2>2
    <2>4. \A i \in DOMAIN runs' :
             \/ i \in DOMAIN runs /\ runs'[i] = runs[i]
             \/ i = Len(runs) + 1 /\ runs'[i] = new
      BY <1>1, <2>3
    <2>5. \A i, j \in DOMAIN runs' : runs'[i].key = runs'[j].key => i = j
      <3> SUFFICES ASSUME NEW i \in DOMAIN runs', NEW j \in DOMAIN runs', runs'[i].key = runs'[j].key
                   PROVE  i = j
        OBVIOUS
      <3>1. CASE i \in DOMAIN runs /\ runs'[i] = runs[i]
        <4>1. j \in DOMAIN runs /\ runs'[j] = runs[j]
          BY <2>1, <2>2, <2>4, <3>1
        <4>2. QED
          BY <1>4, <3>1, <4>1
      <3>2. CASE i = Len(runs) + 1 /\ runs'[i] = new
        BY <2>1, <2>2, <2>4, <3>2
      <3>3. QED
        BY <2>4, <3>1, <3>2
    <2>6. ASSUME NEW i \in DOMAIN runs'
          PROVE  IF runs'[i].key[1] = 0
                 THEN runs'[i].form = approved'[runs'[i].key[2]] /\ approved'[runs'[i].key[2]] # 0
                 ELSE runs'[i].key[1] < i /\ runs'[i].form = runs'[runs'[i].key[1]].form
      <3>1. CASE i \in DOMAIN runs /\ runs'[i] = runs[i]
        <4>1. CASE runs[i].key[1] = 0
          BY <1>3, <3>1, <4>1
        <4>2. CASE runs[i].key[1] # 0
          <5>1. runs[i].key[1] < i /\ runs[i].form = runs[runs[i].key[1]].form /\ runs[i].key[1] \in Nat
            BY <1>3, <3>1, <4>2
          <5>2. runs[i].key[1] \in 1 .. Len(runs)
            BY <1>1, <3>1, <4>2, <5>1
          <5>3. QED
            BY <2>3, <3>1, <4>2, <5>1, <5>2
        <4>3. QED
          BY <4>1, <4>2
      <3>2. CASE i = Len(runs) + 1 /\ runs'[i] = new
        <4>1. CASE sk[1] = 0 /\ approved'[sk[2]] = form /\ form # 0
          BY <2>2, <3>2, <4>1
        <4>2. CASE sk[1] \in DOMAIN runs /\ form = runs[sk[1]].form
          <5>1. sk[1] \in 1 .. Len(runs) /\ sk[1] # 0 /\ sk[1] < i /\ runs'[sk[1]] = runs[sk[1]]
            BY <1>1, <2>3, <3>2, <4>2
          <5>2. QED
            BY <2>2, <3>2, <4>2, <5>1
        <4>3. QED
          BY <2>1, <4>1, <4>2
      <3>3. QED
        BY <2>4, <3>1, <3>2
    <2>7. QED
      BY <2>5, <2>6
  <1>7. QED
    BY <1>5, <1>6

\* A confirmed event names the run of its confirmation.
LEMMA EventsKept ==
    ASSUME IInv, NEW c \in Clients, Step(c) \/ Cancelled(c),
           NEW i \in DOMAIN events', events'[i].type = "confirmed"
    PROVE  Names(events[i].run, events[i].key)'
  <1>1. TypeOK /\ Started
    BY DEF IInv
  <1>2. \A j \in DOMAIN events : events[j].type = "confirmed" => Names(events[j].run, events[j].key)
    BY <1>1 DEF Started, OneRunPerConfirmation, Names
  <1>3. CASE i \in DOMAIN events /\ events'[i] = events[i]
    <2>1. Names(events[i].run, events[i].key)
      BY <1>2, <1>3
    <2>2. PICK run, k : run = events[i].run /\ k = events[i].key
      OBVIOUS
    <2>3. Names(run, k)'
      BY <2>1, <2>2, NamesKept
    <2>4. QED
      BY <1>3, <2>2, <2>3 DEF Names
  <1>4. CASE At(c, "confirmed") /\ events'[i].key = Key(c) /\ events'[i].run = req[c].target
    <2>1. Names(req[c].target, Key(c))
      BY <1>1, <1>4 DEF Started
    <2>2. PICK run, k : run = req[c].target /\ k = Key(c)
      OBVIOUS
    <2>3. Names(run, k)'
      BY <2>1, <2>2, NamesKept
    <2>4. QED
      BY <1>4, <2>2, <2>3 DEF Names
  <1>5. events' = events \/ Posts(c)
    BY HandlerWrites DEF Rests, Approve, StartRun, Probe, Point, store
  <1>6. QED
    BY <1>1, <1>3, <1>4, <1>5, PostsMonotone

LEMMA HandlerStarted ==
    ASSUME IInv, NEW c \in Clients, Step(c) \/ Cancelled(c)
    PROVE  Started'
  <1>1. Started /\ Identity /\ TypeOK
    BY DEF IInv
  <1>2. /\ \A d \in Clients : d # c => req'[d] = req[d]
        /\ \/ req'[c] = Idle
           \/ /\ req'[c].at \notin {"idle", "claim"}
              /\ req'[c].key = Key(c) /\ req'[c].token = req[c].token
        /\ req'[c].at \in {"point", "probe"} => req'[c].target # 0
        /\ req'[c].at = "approve" => req'[c].held # 0
        /\ req'[c].at = "start" => Approve(c)
        /\ req'[c].at \notin {"admit", "recheck", "view"}
        /\ req'[c].at = "probe" => Recheck(c)
        /\ req'[c].at = "point" =>
              \/ Recheck(c) \/ View(c) \/ Probe(c)
              \/ StartRun(c) /\ runs'[req'[c].target].key = <<0, Key(c)>>
        /\ req'[c].at = "confirmed" => Point(c) /\ req'[c].target = req[c].target
    BY HandlerRow
  <1>3. /\ \A k \in Keys : approved[k] # 0 => approved'[k] = approved[k]
        /\ Approve(c) => approved'[Key(c)] # 0
    BY HandlerStarts
  <1>4. OneRunPerConfirmation'
    BY RunsKept, EventsKept DEF OneRunPerConfirmation, Names
  <1>5. \A i \in DOMAIN runs' : runs'[i].key[1] = 0 => approved'[runs'[i].key[2]] # 0
    BY RunsKept
  <1>6. \A d \in Clients : At(d, "approve")' => req'[d].held # 0
    BY <1>1, <1>2 DEF Started, At
  <1>7. \A d \in Clients : At(d, "start")' => approved'[Key(d)'] # 0
    <2> SUFFICES ASSUME NEW d \in Clients, At(d, "start")' PROVE approved'[Key(d)'] # 0
      OBVIOUS
    <2>1. CASE d = c
      BY <1>2, <1>3, <2>1, IdleRow DEF At, Key
    <2>2. CASE d # c
      <3>1. At(d, "start") /\ Key(d)' = Key(d)
        BY <1>2, <2>2 DEF At, Key
      <3>2. approved[Key(d)] # 0 /\ Key(d) \in Keys
        BY <1>1, <3>1 DEF Started, Identity, At
      <3>3. QED
        BY <1>3, <3>1, <3>2
    <2>3. QED
      BY <2>1, <2>2
  <1>8. \A d \in Clients : At(d, "probe")' => req'[d].target # 0
    BY <1>1, <1>2 DEF Started, At
  <1>9. \A d \in Clients : At(d, "recheck")' \/ At(d, "probe")' => Kind[Key(d)'] = "recheck"
    <2>1. Recheck(c) => Kind[Key(c)] = "recheck"
      BY <1>1 DEF Started, Recheck
    <2>2. QED
      BY <1>1, <1>2, <2>1, IdleRow DEF Started, At, Key
  <1>10. \A d \in Clients : At(d, "view")' => Kind[Key(d)'] = "view"
    BY <1>1, <1>2 DEF Started, At, Key
  <1>11. ASSUME NEW d \in Clients,
                At(d, "confirmed")' \/ (At(d, "point")' /\ Kind[Key(d)'] \notin {"recheck", "view"})
         PROVE  Names(req[d].target, Key(d))'
    <2>1. CASE d # c
      <3>1. PICK run, k : run = req[d].target /\ k = Key(d)
        OBVIOUS
      <3>2. Names(run, k)
        BY <1>1, <1>2, <1>11, <2>1, <3>1 DEF Started, At, Key
      <3>3. Names(run, k)'
        BY <3>2, NamesKept
      <3>4. QED
        BY <1>2, <2>1, <3>1, <3>3 DEF Names, Key
    <2>2. CASE d = c /\ At(c, "confirmed")'
      <3>1. Point(c) /\ req'[c].target = req[c].target /\ req'[c].key = Key(c)
        BY <1>2, <2>2, IdleRow DEF At
      <3>2. Kind[Key(c)] \notin {"recheck", "view"} /\ At(c, "point")
        <4>1. req \in [Clients -> Request]
          BY <1>1 DEF TypeOK
        <4>2. CASE Kind[Key(c)] = "view"
          <5>1. Return(c)
            BY <3>1, <4>2 DEF Point
          <5>2. QED
            BY <2>2, <4>1, <5>1, IdleRow DEF Return, At
        <4>3. CASE Kind[Key(c)] = "recheck"
          <5>1. Goto(c, "status")
            BY <3>1, <4>3 DEF Point
          <5>2. Moved(c, "status", req[c].held, req[c].target)
            BY <1>1, <5>1, GotoMoves DEF Labels
          <5>3. req'[c].at = "status"
            BY <4>1, <5>2 DEF Moved
          <5>4. QED
            BY <2>2, <5>3 DEF At
        <4>4. QED
          BY <3>1, <4>2, <4>3 DEF Point
      <3>3. PICK run, k : run = req[c].target /\ k = Key(c)
        OBVIOUS
      <3>4. Names(run, k)
        BY <1>1, <3>2, <3>3 DEF Started
      <3>5. Names(run, k)'
        BY <3>4, NamesKept
      <3>6. QED
        BY <2>2, <3>1, <3>3, <3>5 DEF Names, Key
    <2>3. CASE d = c /\ At(c, "point")' /\ Kind[Key(c)'] \notin {"recheck", "view"}
      <3>1. Key(c)' = Key(c) /\ req'[c].target # 0
        BY <1>2, <2>3, IdleRow DEF At, Key
      <3>2. ~Recheck(c) /\ ~Probe(c)
        BY <1>1, <2>3, <3>1 DEF Started, Recheck, Probe
      <3>3. ~View(c)
        BY <1>1, <2>3, <3>1 DEF Started, View
      <3>4. runs'[req'[c].target].key = <<0, Key(c)>>
        BY <1>2, <2>3, <3>2, <3>3 DEF At
      <3>5. req'[c].target \in DOMAIN runs'
        <4>1. TypeOK'
          BY HandlerTypes
        <4>2. req'[c] \in Request /\ req'[c].target <= Len(runs') /\ runs' \in Seq(Run)
          BY <4>1 DEF TypeOK
        <4>3. req'[c].target \in Nat
          BY <4>2 DEF Request
        <4>4. QED
          BY <3>1, <4>2, <4>3
      <3>6. QED
        BY <2>3, <3>1, <3>4, <3>5 DEF Names
    <2>4. QED
      BY <1>11, <2>1, <2>2, <2>3
  <1>12. QED
    BY <1>4, <1>5, <1>6, <1>7, <1>8, <1>9, <1>10, <1>11 DEF Started

-----------------------------------------------------------------------------
(* The theorems.                                                           *)

LEMMA InitHolds == Init => IInv
  <1> SUFFICES ASSUME Init PROVE IInv
    OBVIOUS
  <1>1. /\ ops = [k \in Keys |-> NoOp] /\ expired = {} /\ runtime = 0
        /\ runs = <<>> /\ approved = [k \in Keys |-> 0] /\ req = [c \in Clients |-> Idle]
        /\ stalled = {} /\ asks = [k \in Turns |-> 0] /\ requests = 0 /\ faults = 0
    BY DEF Init
  <1>2. /\ Len(runs) = 0 /\ DOMAIN runs = {} /\ runs \in Seq(Run)
    BY <1>1
  <1>3. \A c \in Clients : req[c] = Idle /\ At(c, "idle")
    BY <1>1, IdleRow DEF At
  <1>a. \A c \in Clients : req[c].target = 0
    BY <1>1 DEF Idle
  <1>b. \A c \in Clients : ~At(c, "agent") /\ ~At(c, "check") /\ ~At(c, "complete")
                         /\ ~At(c, "point") /\ ~At(c, "approve") /\ ~At(c, "start") /\ ~At(c, "probe")
                         /\ ~At(c, "recheck") /\ ~At(c, "view") /\ ~At(c, "confirmed")
    BY <1>3 DEF At
  <1>4. \A k \in Keys : ops[k].owner = 0 /\ ops[k].status = "none"
    BY <1>1 DEF NoOp
  <1>5. events \in Seq(Event)
    <2> DEFINE e == [type |-> "form", key |-> "", form |-> 1, run |-> 0]
    <2>1. e \in Event
      BY DEF Event
    <2>2. events = <<>> \/ events = <<e>>
      BY DEF Init
    <2> HIDE DEF e
    <2>3. <<e>> \in Seq(Event) /\ <<>> \in Seq(Event)
      BY <2>1
    <2>4. QED
      BY <2>2, <2>3
  <1>6. TypeOK
    <2>1. NoOp \in Operation
      BY DEF NoOp, Operation
    <2>2. Idle \in Request
      BY DEF Idle, Request, Labels
    <2>3. ops \in [Keys -> Operation] /\ req \in [Clients -> Request]
      BY <1>1, <2>1, <2>2
    <2>4. \A c \in Clients : req[c].target <= Len(runs)
      BY <1>2, <1>a
    <2>5. 0 \in 0 .. MaxRequests /\ 0 \in 0 .. MaxFaults /\ runtime \in 0 .. Len(runs)
      BY <1>1, <1>2, RequestAssumption
    <2>6. QED
      BY <1>1, <1>2, <1>5, <2>3, <2>4, <2>5 DEF TypeOK
  <1>7. Identity
    <2>1. \A k \in Keys : ops[k].owner <= requests /\ ops[k].status # "running"
      BY <1>1, <1>4
    <2>2. \A t \in stalled : t <= requests
      BY <1>1
    <2>3. QED
      BY <1>3, <2>1, <2>2 DEF Identity
  <1>8. Authority
    BY <1>3 DEF Authority, Working
  <1>9. Asked
    <2>1. \A k \in Turns : asks[k] = 0
      BY <1>1
    <2>2. QED
      BY <1>b, <2>1 DEF Asked, AskedOnce
  <1>10. Answers
    <2>1. Turns \subseteq Keys
      BY DEF Turns
    <2>2. QED
      BY <1>b, <1>4, <2>1 DEF Answers, CompletedIsAnswered
  <1>11. Started
    <2>1. \A i \in DOMAIN events : events[i].type # "confirmed"
      <3> DEFINE e == [type |-> "form", key |-> "", form |-> 1, run |-> 0]
      <3>1. e.type # "confirmed"
        OBVIOUS
      <3>2. events = <<>> \/ events = <<e>>
        BY DEF Init
      <3> HIDE DEF e
      <3>3. \A i \in DOMAIN events : events[i] = e
        BY <3>2
      <3>4. QED
        BY <3>1, <3>3
    <2>2. OneRunPerConfirmation
      BY <1>2, <2>1 DEF OneRunPerConfirmation
    <2>3. QED
      BY <1>2, <1>b, <2>2 DEF Started
  <1>12. QED
    BY <1>6, <1>7, <1>8, <1>9, <1>10, <1>11 DEF IInv

LEMMA TurnInvariant == Spec => []IInv
  <1>1. IInv /\ Next => IInv'
    <2> SUFFICES ASSUME IInv, Next PROVE IInv'
      OBVIOUS
    <2>1. ASSUME NEW c \in Clients, Step(c) \/ Cancelled(c) PROVE IInv'
      BY <2>1, HandlerTypes, HandlerIdentity, HandlerAuthority, HandlerAsked, HandlerAnswers,
         HandlerStarted DEF IInv
    <2>2. QED
      BY <2>1, BeginKeeps, LapseKeeps, CrashKeeps DEF Next
  <1>2. IInv /\ UNCHANGED vars => IInv'
    <2> SUFFICES ASSUME IInv, UNCHANGED vars PROVE IInv'
      OBVIOUS
    <2> USE DEF vars, store, plane
    <2>1. TypeOK' /\ Identity'
      BY DEF IInv, TypeOK, Identity, At, Key
    <2>2. Authority' /\ Started'
      BY DEF IInv, Authority, Working, Started, OneRunPerConfirmation, Names, At, Key, Owns, Op
    <2>3. (\A j : Answered(j)' = Answered(j)) /\ Readonly' = Readonly
      BY SameTranscript
    <2>4. Asked' /\ Answers'
      BY <2>3 DEF IInv, Asked, AskedOnce, Answers, CompletedIsAnswered, At, Key
    <2>5. QED
      BY <2>1, <2>2, <2>4 DEF IInv
  <1>3. QED
    BY InitHolds, <1>1, <1>2, PTL DEF Spec

\* Every row and every local of a handler keeps its type; in particular a handler
\* and the conversation point only at runs that were accepted.
THEOREM TurnTypes == Spec => []TypeOK
  <1>1. IInv => TypeOK
    BY DEF IInv
  <1>2. QED
    BY TurnInvariant, <1>1, PTL

\* Of the handlers of one turn all but one have lost their lease
\* (try_claim_turn_operation, renew_turn_operation, release_turn_operation).
THEOREM TurnHasOneWorker == Spec => []OneWorkerPerTurn
  <1>1. IInv => OneWorkerPerTurn
    <2> SUFFICES ASSUME IInv, NEW c \in Clients, NEW d \in Clients, c # d, Key(c) = Key(d), Key(c) \in Turns,
                        ~At(c, "claim"), ~At(d, "claim"),
                        req[c].token \notin stalled, req[d].token \notin stalled
                 PROVE  FALSE
      BY DEF OneWorkerPerTurn
    <2>1. Identity /\ Authority
      BY DEF IInv
    <2>2. \A e \in Clients : Key(e) \in Turns => ~At(e, "idle")
      <3>1. "" \notin Turns
        BY KeyAssumption DEF Turns
      <3>2. Idle.key = ""
        BY DEF Idle
      <3>3. QED
        BY <2>1, <3>1, <3>2 DEF Identity, Key
    <2>3. Working(c) /\ Working(d)
      BY <2>2 DEF Working
    <2>4. Op(d).owner = req[d].token
      BY <2>1, <2>3 DEF Authority, Owns
    <2>5. QED
      BY <2>1, <2>2, <2>3, <2>4, SoleWorker
  <1>2. QED
    BY TurnInvariant, <1>1, PTL

\* A completed turn is answered, or its form was confirmed
\* (complete_turn_operation, _has_terminal_event).
THEOREM CompletedTurnsAreAnswered == Spec => []CompletedIsAnswered
  <1>1. IInv => CompletedIsAnswered
    BY DEF IInv, Answers
  <1>2. QED
    BY TurnInvariant, <1>1, PTL

\* The model is asked once for a message unless a failure, a crash or a lapse took
\* the answer away (_run_idempotent_turn).
THEOREM ModelIsAskedOnce == Spec => []AskedOnce
  <1>1. IInv => AskedOnce
    BY DEF IInv, Asked
  <1>2. QED
    BY TurnInvariant, <1>1, PTL

\* A confirmation starts one run, of the form it approved first, and its event in
\* the transcript names that run; a recheck starts one run of each run it finds
\* (save_approved_requirement, accept_run, set_runtime and the event are
\* transactions of their own, between which the server may die).
THEOREM ConfirmationsStartOneRun == Spec => []OneRunPerConfirmation
  <1>1. IInv => OneRunPerConfirmation
    BY DEF IInv, Started
  <1>2. QED
    BY TurnInvariant, <1>1, PTL
=============================================================================
