--------------------------- MODULE WorkbenchTurn ---------------------------
(***************************************************************************)
(* One conversation of the workbench (seektalent_workbench_v2/service.py): *)
(* requests that the browser may send again under the same idempotency key,*)
(* handled concurrently over the transcript and the turn operations of     *)
(* store.py, and the runs they start through runtime_service.py.  A chat   *)
(* turn is claimed under a lease; a requirement action, a recheck and a    *)
(* plain view are not.  The language model may answer anything, and answer *)
(* differently the second time.                                            *)
(*                                                                         *)
(* An event of the transcript carries the key of its request, which is what*)
(* its dedupe key is made of.  Status and progress events that nothing     *)
(* reads are left out, and so are the payloads: a requirement form is its  *)
(* revision.                                                               *)
(***************************************************************************)
EXTENDS Naturals, Sequences, FiniteSets

CONSTANTS
    NumClients,   \* handlers of HTTP requests
    Keys,         \* idempotency keys, each with its scope
    Kind,         \* scope of each key: "turn", "edit", "confirm", "amend" (a
                  \* confirmation with supplemental text), "recheck", "view"
    MaxRequests,  \* bound on the requests
    MaxFaults     \* bound on the deaths of the server and on leases that a live
                  \* owner fails to renew

ASSUME RequestAssumption ==
    /\ Kind \in [Keys -> {"turn", "edit", "confirm", "amend", "recheck", "view"}]
    /\ NumClients \in Nat \ {0} /\ MaxRequests \in Nat /\ MaxFaults \in Nat

\* The empty key stands for no request.
ASSUME KeyAssumption == "" \notin Keys

Clients == 1 .. NumClients

VARIABLES
    ops,       \* workbench_v2_turn_operations: owner token and status by key
    expired,   \* keys of operations whose lease_until is past
    events,    \* workbench_v2_transcript_events, in order of step
    runtime,   \* runtime_run_id of the conversation, 0 for NULL
    runs,      \* runs of the control store: approved form and start key
    approved,  \* form saved under the start key (save_approved_requirement)
    req,       \* the request each client handles
    stalled,   \* tokens of live owners whose lease has lapsed
    asks,      \* answers asked of the model by key that no failure excuses
    requests, faults

store == <<ops, expired, events, runtime>>
plane == <<runs, approved>>
vars == <<store, plane, req, stalled, asks, requests, faults>>

NoOp == [owner |-> 0, status |-> "none"]
Idle == [at |-> "idle", key |-> "", token |-> 0, held |-> 0, target |-> 0]
Turns == {k \in Keys : Kind[k] = "turn"}
Tokens == 1 .. MaxRequests
StartKeys == Nat \X Keys   \* of a confirmation (0) or of a rerun of a run

\* The rows of the tables, and what a handler keeps in its locals.
Operation == [owner : Tokens \cup {0}, status : {"none", "running", "completed"}]
Event == [type : {"user", "assistant", "error", "form", "amended", "confirmed", "submission",
                  "status"},
          key : Keys \cup {""}, form : Nat, run : Nat]
Run == [form : Nat, key : StartKeys]
Labels == {"idle", "claim", "check", "agent", "complete", "release", "admit", "extract", "edit",
           "extracting", "amending", "failing", "submit", "answer", "confirm", "approve", "start", "point",
           "confirmed", "recheck", "probe", "status", "view"}
Request == [at : Labels, key : Keys \cup {""}, token : Tokens \cup {0}, held : Nat,
            target : Nat]

TypeOK ==
    /\ ops \in [Keys -> Operation] /\ expired \in SUBSET Keys
    /\ events \in Seq(Event)
    /\ runtime \in 0 .. Len(runs)
    /\ runs \in Seq(Run) /\ approved \in [Keys -> Nat]
    /\ req \in [Clients -> Request] /\ \A c \in Clients : req[c].target <= Len(runs)
    /\ stalled \in SUBSET Tokens /\ asks \in [Turns -> Nat]
    /\ requests \in 0 .. MaxRequests /\ faults \in 0 .. MaxFaults

\* The conversation has just been created, with or without a first form.
Init ==
    /\ ops = [k \in Keys |-> NoOp] /\ expired = {} /\ runtime = 0
    /\ events \in {<<>>, <<[type |-> "form", key |-> "", form |-> 1, run |-> 0]>>}
    /\ runs = <<>> /\ approved = [k \in Keys |-> 0]
    /\ req = [c \in Clients |-> Idle]
    /\ stalled = {} /\ asks = [k \in Turns |-> 0]
    /\ requests = 0 /\ faults = 0

-----------------------------------------------------------------------------
(* The transcript.                                                         *)

Has(type, k) == \E i \in DOMAIN events : events[i].type = type /\ events[i].key = k

\* _append_event: an event with the dedupe key of another is not appended.
Post(c, type, form, run) ==
    events' = IF Has(type, req[c].key) THEN events
              ELSE Append(events, [type |-> type, key |-> req[c].key, form |-> form, run |-> run])

\* requirement_form events: "form" is one that was extracted, "amended" one that
\* an edit left, whose dedupe key also has the digest of the edit.
FormEvents == {i \in DOMAIN events : events[i].type \in {"form", "amended"}}

\* _latest_requirement_form_payload, 0 without a form
LatestForm ==
    IF FormEvents = {} THEN 0
    ELSE events[CHOOSE i \in FormEvents : \A j \in FormEvents : j <= i].form
NewForm == LatestForm + 1

\* _requirement_form_is_readonly
Readonly == runtime # 0 \/ \E i \in DOMAIN events : events[i].type = "confirmed"

\* _has_terminal_event
Answered(k) == Has("assistant", k) \/ Has("error", k)

\* _has_requirement_action_terminal_event
ActionDone(k) == Has("amended", k) \/ Has("confirmed", k) \/ Has("error", k)

-----------------------------------------------------------------------------
(* Requests.                                                               *)

At(c, where) == req[c].at = where
Goto(c, where) == req' = [req EXCEPT ![c].at = where]
Return(c) == req' = [req EXCEPT ![c] = Idle]
Key(c) == req[c].key
IsTurn(c) == Kind[Key(c)] = "turn"
Op(c) == ops[Key(c)]
Owns(c) == Op(c) = [owner |-> req[c].token, status |-> "running"]
\* What follows the last write of a handler, and what an exception leads to.
Finish(c) == IF IsTurn(c) THEN Goto(c, "complete") ELSE Return(c)
Raise(c) == IF IsTurn(c) THEN Goto(c, "release") ELSE Return(c)
\* An attempt of a turn ended without its answer.
Excuse(k) == asks' = [j \in Turns |-> IF j = k /\ ~Answered(k) THEN 0 ELSE asks[j]]

Begin(c, k) ==
    /\ At(c, "idle") /\ requests < MaxRequests
    /\ \A d \in 1 .. (c - 1) : ~At(d, "idle")   \* handlers are interchangeable
    /\ requests' = requests + 1
    /\ req' = [req EXCEPT ![c] = [Idle EXCEPT !.key = k, !.token = requests + 1,
                                  !.at = CASE Kind[k] = "turn" -> "claim"
                                           [] Kind[k] \in {"edit", "confirm", "amend"} -> "admit"
                                           [] OTHER -> Kind[k]]]
    /\ UNCHANGED <<store, plane, stalled, asks, faults>>

-----------------------------------------------------------------------------
(* A chat turn: _run_idempotent_turn and try_claim_turn_operation.         *)

\* Mutant of Claimable: an unexpired operation is taken over.
ClaimableAlways(k) == ops[k].status \in {"none", "running"}

\* Mutant of Claimable: an operation whose owner died is never taken over.
ClaimableOnce(k) == ops[k].status = "none"

Claimable(k) == ops[k].status = "none" \/ (ops[k].status = "running" /\ k \in expired)

\* A running operation makes the request wait.
Claim(c) ==
    /\ At(c, "claim") /\ Claimable(Key(c))
    /\ ops' = [ops EXCEPT ![Key(c)] = [owner |-> req[c].token, status |-> "running"]]
    /\ expired' = expired \ {Key(c)}
    /\ Goto(c, "check")
    /\ UNCHANGED <<events, runtime, plane, stalled, asks, requests, faults>>

Replay(c) ==
    /\ At(c, "claim") /\ Op(c).status = "completed"
    /\ Return(c)
    /\ UNCHANGED <<store, plane, stalled, asks, requests, faults>>

\* Mutant of Check: the transcript is not looked at for an answer.
CheckAlways(c) ==
    /\ At(c, "check")
    /\ Goto(c, "agent") /\ Post(c, "user", 0, 0)
    /\ UNCHANGED <<ops, expired, runtime, plane, stalled, asks, requests, faults>>

\* _has_terminal_event, then the user's message
Check(c) ==
    /\ At(c, "check")
    /\ IF Answered(Key(c)) THEN Goto(c, "complete") /\ UNCHANGED events
                           ELSE Goto(c, "agent") /\ Post(c, "user", 0, 0)
    /\ UNCHANGED <<ops, expired, runtime, plane, stalled, asks, requests, faults>>

\* agent_loop.run_turn: "answer" stands for the intents that only talk.
Agent(c) ==
    /\ At(c, "agent")
    /\ \E output \in {"answer", "extract", "edit", "confirm"} : Goto(c, output)
    /\ asks' = IF req[c].token \in stalled THEN asks ELSE [asks EXCEPT ![Key(c)] = @ + 1]
    /\ UNCHANGED <<store, plane, stalled, requests, faults>>

\* The model fails, or the heartbeat finds the lease lost and cancels the owner.
Cancelled(c) ==
    /\ At(c, "agent")
    /\ Goto(c, "release")
    /\ UNCHANGED <<store, plane, stalled, asks, requests, faults>>

\* complete_turn_operation; a token that no longer owns the row changes nothing.
Complete(c) ==
    /\ At(c, "complete")
    /\ ops' = IF Owns(c) THEN [ops EXCEPT ![Key(c)].status = "completed"] ELSE ops
    /\ expired' = IF Owns(c) THEN expired \ {Key(c)} ELSE expired
    /\ Return(c)
    /\ UNCHANGED <<events, runtime, plane, stalled, asks, requests, faults>>

\* Mutant of Release: a turn that failed is completed like any other.
ReleaseCompleting(c) ==
    /\ At(c, "release")
    /\ ops' = IF Op(c).owner = req[c].token THEN [ops EXCEPT ![Key(c)].status = "completed"] ELSE ops
    /\ expired' = IF Op(c).owner = req[c].token THEN expired \ {Key(c)} ELSE expired
    /\ Excuse(Key(c))
    /\ Return(c)
    /\ UNCHANGED <<events, runtime, plane, stalled, requests, faults>>

\* release_turn_operation
Release(c) ==
    /\ At(c, "release")
    /\ ops' = IF Op(c).owner = req[c].token THEN [ops EXCEPT ![Key(c)] = NoOp] ELSE ops
    /\ expired' = IF Op(c).owner = req[c].token THEN expired \ {Key(c)} ELSE expired
    /\ Excuse(Key(c))
    /\ Return(c)
    /\ UNCHANGED <<events, runtime, plane, stalled, requests, faults>>

-----------------------------------------------------------------------------
(* The requirement form: _apply_agent_output and apply_requirement_action. *)

\* Entry of a requirement action: a key that left a form, a confirmation or an
\* error is done, and so is a confirmation of a form that is readonly already.
Admit(c) ==
    /\ At(c, "admit")
    /\ IF ActionDone(Key(c)) \/ Readonly \/ LatestForm = 0 THEN Return(c)
       ELSE Goto(c, IF Kind[Key(c)] = "confirm" THEN "confirm" ELSE "amending")
    /\ UNCHANGED <<store, plane, stalled, asks, requests, faults>>

\* A runtime input of the model: a new form is extracted from it, or, once the
\* form is readonly, it is submitted for the next round.
Extract(c) ==
    /\ At(c, "extract")
    /\ Goto(c, IF Readonly THEN "submit" ELSE "extracting")
    /\ UNCHANGED <<store, plane, stalled, asks, requests, faults>>

\* A patch of the model.  A patch of this key that is there already is done, or
\* conflicts with a different one.
Edit(c) ==
    /\ At(c, "edit")
    /\ CASE Has("amended", Key(c)) -> Goto(c, "answer") \/ Goto(c, "release")
         [] ~Has("amended", Key(c)) /\ Readonly -> Goto(c, "submit")
         [] ~Has("amended", Key(c)) /\ ~Readonly /\ LatestForm = 0 -> Goto(c, "failing")
         [] OTHER -> Goto(c, "amending")
    /\ UNCHANGED <<store, plane, stalled, asks, requests, faults>>

\* The extraction or the amendment returns and the new form is appended; whether
\* the form is readonly by now is not asked.
AppendForm(c) ==
    /\ At(c, "extracting") \/ At(c, "amending")
    /\ Post(c, IF At(c, "extracting") THEN "form" ELSE "amended", NewForm, 0)
    /\ CASE IsTurn(c) -> Goto(c, "answer")
         [] Kind[Key(c)] = "amend" -> Goto(c, "confirm")
         [] OTHER -> Return(c)
    /\ UNCHANGED <<ops, expired, runtime, plane, stalled, asks, requests, faults>>

\* A failure of a service is told in the transcript; any other error is raised.
AmendFails(c) ==
    /\ At(c, "extracting") \/ At(c, "amending")
    /\ Goto(c, "failing") \/ Raise(c)
    /\ UNCHANGED <<store, plane, stalled, asks, requests, faults>>

\* _append_service_error: the error, then the assistant's message
Fail(c) ==
    /\ At(c, "failing")
    /\ Post(c, "error", 0, 0) /\ Goto(c, "answer")
    /\ UNCHANGED <<ops, expired, runtime, plane, stalled, asks, requests, faults>>

\* _submit_next_round_requirement; a refusal of the command is an answer too, and
\* an error of the control store ends the turn.
Submit(c) ==
    /\ At(c, "submit")
    /\ \/ Post(c, "submission", 0, runtime) /\ Goto(c, "answer")
       \/ Goto(c, "release") /\ UNCHANGED events
    /\ UNCHANGED <<ops, expired, runtime, plane, stalled, asks, requests, faults>>

Answer(c) ==
    /\ At(c, "answer")
    /\ Post(c, "assistant", 0, 0) /\ Finish(c)
    /\ UNCHANGED <<ops, expired, runtime, plane, stalled, asks, requests, faults>>

\* _confirm_requirements: a form that is readonly ends it without an answer.
Confirm(c) ==
    /\ At(c, "confirm")
    /\ CASE Readonly -> Finish(c)
         [] ~Readonly /\ LatestForm = 0 -> Goto(c, "failing")
         [] OTHER -> req' = [req EXCEPT ![c].at = "approve", ![c].held = LatestForm]
    /\ UNCHANGED <<store, plane, stalled, asks, requests, faults>>

\* start_run: the form that the start key approved before is the one that counts.
Approve(c) ==
    /\ At(c, "approve")
    /\ approved' = [approved EXCEPT ![Key(c)] = IF @ = 0 THEN req[c].held ELSE @]
    /\ Goto(c, "start")
    /\ UNCHANGED <<store, runs, stalled, asks, requests, faults>>

\* The browser lane awaits reconciliation, or the start fails: told in the
\* transcript, but an error of the control plane is raised.
StartFails(c) ==
    /\ At(c, "approve") \/ At(c, "start")
    /\ req' = [req EXCEPT ![c].at = "failing", ![c].held = 0] \/ Raise(c)
    /\ UNCHANGED <<store, plane, stalled, asks, requests, faults>>

\* Mutant of Accepted: every call of accept_run makes a run.
AcceptedNever(startKey) == 0

\* accept_run: the run that a start key has made, 0 without one
Accepted(startKey) ==
    LET made == {i \in DOMAIN runs : runs[i].key = startKey}
    IN  IF made = {} THEN 0 ELSE CHOOSE i \in made : TRUE

\* Mutant of Accept: the run is handed out without having been saved.
AcceptUnsaved(c, startKey, form) ==
    /\ UNCHANGED runs
    /\ req' = [req EXCEPT ![c].at = "point", ![c].target = Len(runs) + 1]

Accept(c, startKey, form) ==
    LET run == Accepted(startKey) IN
    /\ runs' = IF run = 0 THEN Append(runs, [form |-> form, key |-> startKey]) ELSE runs
    /\ req' = [req EXCEPT ![c].at = "point", ![c].target = IF run = 0 THEN Len(runs) + 1 ELSE run]

StartRun(c) ==
    /\ At(c, "start")
    /\ Accept(c, <<0, Key(c)>>, approved[Key(c)])
    /\ UNCHANGED <<store, approved, stalled, asks, requests, faults>>

\* set_runtime, by _append_started_runtime, by a recheck or by a view
Point(c) ==
    /\ At(c, "point")
    /\ runtime' = req[c].target
    /\ CASE Kind[Key(c)] = "view" -> Return(c)
         [] Kind[Key(c)] = "recheck" -> Goto(c, "status")
         [] OTHER -> Goto(c, "confirmed")
    /\ UNCHANGED <<ops, expired, events, plane, stalled, asks, requests, faults>>

Confirmed(c) ==
    /\ At(c, "confirmed")
    /\ Post(c, "confirmed", req[c].held, req[c].target)
    /\ req' = [req EXCEPT ![c].at = "answer", ![c].held = 0, ![c].target = 0]
    /\ UNCHANGED <<ops, expired, runtime, plane, stalled, asks, requests, faults>>

-----------------------------------------------------------------------------
(* Recheck and view.                                                       *)

\* recheck_and_continue up to the readiness probe.  A key that left its status is
\* done; a recheck that nothing calls for, or of a run that cannot be recovered,
\* is refused; a run that is still active is only pointed at again.
Recheck(c) ==
    /\ At(c, "recheck")
    /\ \/ Return(c)
       \/ /\ ~Has("status", Key(c)) /\ runtime # 0
          /\ \E next \in {"probe", "point"} : req' = [req EXCEPT ![c].target = runtime, ![c].at = next]
    /\ UNCHANGED <<store, plane, stalled, asks, requests, faults>>

\* The probe finds the source blocked, or fails without a status, or the run is
\* run again under a key made of both.
Probe(c) ==
    /\ At(c, "probe")
    /\ \/ (Goto(c, "status") \/ Return(c)) /\ UNCHANGED runs
       \/ Accept(c, <<req[c].target, Key(c)>>, runs[req[c].target].form)
    /\ UNCHANGED <<store, approved, stalled, asks, requests, faults>>

Status(c) ==
    /\ At(c, "status")
    /\ Post(c, "status", 0, req[c].target) /\ Return(c)
    /\ UNCHANGED <<ops, expired, runtime, plane, stalled, asks, requests, faults>>

\* _refresh_active_runtime_status reads the run, asks for its status and writes
\* both back.
View(c) ==
    /\ At(c, "view")
    /\ IF runtime = 0 THEN Return(c)
       ELSE req' = [req EXCEPT ![c].at = "point", ![c].target = runtime]
    /\ UNCHANGED <<store, plane, stalled, asks, requests, faults>>

-----------------------------------------------------------------------------
(* Time and failure.                                                       *)

Alive(token) == \E c \in Clients : req[c].token = token

\* A lease is renewed while its owner lives, unless its process stalls.
Lapse(k) ==
    /\ ops[k].status = "running" /\ k \notin expired
    /\ expired' = expired \cup {k}
    /\ stalled' = {t \in stalled \cup {ops[k].owner} : Alive(t)}
    /\ faults' = IF Alive(ops[k].owner) THEN faults + 1 ELSE faults
    /\ faults' <= MaxFaults
    /\ Excuse(k)
    /\ UNCHANGED <<ops, events, runtime, plane, req, requests>>

\* The server dies with every request it handles.
Crash ==
    /\ faults < MaxFaults /\ \E c \in Clients : ~At(c, "idle")
    /\ faults' = faults + 1
    /\ req' = [c \in Clients |-> Idle] /\ stalled' = {}
    /\ asks' = [k \in Turns |-> IF Answered(k) THEN asks[k] ELSE 0]
    /\ UNCHANGED <<store, plane, requests>>

-----------------------------------------------------------------------------
Step(c) ==
    \/ Claim(c) \/ Replay(c) \/ Check(c) \/ Agent(c) \/ Complete(c) \/ Release(c)
    \/ Admit(c) \/ Extract(c) \/ Edit(c) \/ AppendForm(c) \/ AmendFails(c) \/ Fail(c)
    \/ Submit(c) \/ Answer(c) \/ Confirm(c) \/ Approve(c) \/ StartFails(c) \/ StartRun(c)
    \/ Point(c) \/ Confirmed(c) \/ Recheck(c) \/ Probe(c) \/ Status(c) \/ View(c)

Next ==
    \/ \E c \in Clients : Step(c) \/ Cancelled(c) \/ \E k \in Keys : Begin(c, k)
    \/ \E k \in Keys : Lapse(k)
    \/ Crash

\* A handler that runs goes on, and the lease of a dead owner runs out.
Fairness ==
    /\ \A c \in Clients : WF_vars(Step(c))
    /\ \A k \in Turns : WF_vars(Lapse(k) /\ ~Alive(ops[k].owner))

Spec == Init /\ [][Next]_vars
FairSpec == Spec /\ Fairness

-----------------------------------------------------------------------------
(* Properties.                                                             *)

\* Of the requests that handle one turn, at most one has not lost its lease: the
\* model is not run twice for a message, and no two answers are applied together
\* (test_concurrent_create_replay_runs_agent_once).
OneWorkerPerTurn ==
    \A c, d \in Clients :
        /\ c # d /\ Key(c) = Key(d) /\ Key(c) \in Turns
        /\ ~At(c, "claim") /\ ~At(d, "claim")
        => req[c].token \in stalled \/ req[d].token \in stalled

\* A turn that is completed has been answered in the transcript, so that sending
\* the message again may return the transcript; the one exception is a
\* confirmation of a form that had been confirmed before.
CompletedIsAnswered ==
    \A k \in Turns : ops[k].status = "completed" => Answered(k) \/ Readonly

\* The model is asked again for a message only after an attempt that a failure, a
\* crash or a lapse kept from answering.
AskedOnce == \A k \in Turns : asks[k] <= 1

\* However often a confirmation is sent, by whatever request meanwhile edited the
\* form, and wherever the server died in between, it starts one run, of the form
\* it approved first, and that run is the one its confirmed event names.  A
\* recheck starts one run of each run it finds, with the form of that run.
OneRunPerConfirmation ==
    /\ \A i, j \in DOMAIN runs : runs[i].key = runs[j].key => i = j
    /\ \A i \in DOMAIN runs :
          IF runs[i].key[1] = 0 THEN runs[i].form = approved[runs[i].key[2]]
          ELSE runs[i].key[1] < i /\ runs[i].form = runs[runs[i].key[1]].form
    /\ \A i \in DOMAIN events : events[i].type = "confirmed" =>
          events[i].run \in DOMAIN runs /\ runs[events[i].run].key = <<0, events[i].key>>

\* Every request comes to an end, also one that waits for a turn whose owner died.
RequestEnds == \A c \in Clients : ~At(c, "idle") ~> At(c, "idle")

\* docs/superpowers/specs/2026-06-25-workbench-v2-schema-first-design.md:269:
\* "editable before confirmation, readonly after confirmation"
ReadonlyAfterConfirmation ==
    \A i, j \in DOMAIN events : events[i].type = "confirmed" /\ i < j => j \notin FormEvents
=============================================================================
