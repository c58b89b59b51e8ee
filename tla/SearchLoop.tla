----------------------------- MODULE SearchLoop -----------------------------
(***************************************************************************)
(* The round loop of the retrieval runtime (orchestrator._run_rounds): how  *)
(* each round comes to its query, and how the loop comes to its end.        *)
(*                                                                         *)
(* A query is the role anchor and a set of companion terms; it is written  *)
(* as that set, and {} is the anchor alone.  Terms of one family (aliases) *)
(* are one search: the gate of the dispatch compares the families of the   *)
(* queries whose dispatch started.  The language model *)
(* proposes any query the validation lets through.  Requirement amendments *)
(* reach the pool at the boundary of a round.                              *)
(***************************************************************************)
EXTENDS Naturals, FiniteSets

CONSTANTS
    InitialTerms,     \* admitted terms compiled from the job description
    InitialActive,    \* those that are active; the others are the reserve
    SecondaryTerms,   \* those that are secondary title anchors
    AmendTerms,       \* terms only an amendment can bring
    FeedbackTerms,    \* terms only the feedback of candidates can bring
    Family,           \* the family of a term
    MinRounds,        \* settings.min_rounds
    MaxRounds,        \* settings.max_rounds
    FeedbackEnabled,  \* settings.candidate_feedback_enabled
    MaxAmendments,    \* bound on the revisions that change the pool
    MaxNamed          \* bound on the terms one revision names

RequirementTerms == InitialTerms \cup AmendTerms
Terms == RequirementTerms \cup FeedbackTerms

ASSUME SearchAssumption ==
    /\ SecondaryTerms \subseteq InitialActive /\ InitialActive \subseteq InitialTerms
    /\ MinRounds \in Nat \ {0} /\ MaxRounds \in Nat /\ MinRounds <= MaxRounds
    /\ FeedbackEnabled \in BOOLEAN /\ MaxAmendments \in Nat /\ MaxNamed \in Nat
    /\ IsFiniteSet(Terms)

ASSUME FamilyAssumption ==
    \* candidate feedback names its families apart from those of requirements
    \A f \in FeedbackTerms, t \in RequirementTerms : Family[f] # Family[t]

VARIABLES
    phase,          \* where the loop is
    round,          \* round_no
    pool,           \* the admitted terms of query_term_pool
    active,         \* those that are active
    blocked,        \* the terms an amendment has made inadmissible
    mentioned,      \* those a requirement named for this round (first_added_round)
    revisions,      \* how many amendments changed the pool
    advised,        \* the inactive terms the last reflection speaks for
    ledger,         \* queries of the receipts with dispatch_started
    feedbackTried,  \* candidate_feedback_attempted
    anchorTried,    \* anchor_only_broaden_attempted
    broadened,      \* rescue_lane_history has a reserve or an anchor-only round
    strength,       \* what the stop guidance reads off the top pool
    productive,     \* productive_round_count, up to two
    exploit,        \* proposed_query_terms of the decision
    lane,           \* whose decision it is
    second          \* the second query of the bundle, if any

poolVars == <<pool, active, blocked, mentioned, revisions>>
memory == <<ledger, feedbackTried, anchorTried, broadened>>
guidance == <<advised, strength, productive>>
decision == <<exploit, lane>>
vars == <<phase, round, poolVars, memory, guidance, decision, second>>

Lane == {"none", "controller", "reserve_broaden", "candidate_feedback", "anchor_only",
         "can_stop", "exhausted"}

Init ==
    /\ phase = "boundary" /\ round = 1
    /\ pool = InitialTerms /\ active = InitialActive /\ blocked = {}
    /\ mentioned = {} /\ revisions = 0
    /\ ledger = {} /\ feedbackTried = FALSE /\ anchorTried = FALSE /\ broadened = FALSE
    /\ advised = {} /\ strength = "poor" /\ productive = 0
    /\ exploit = {} /\ lane = "none" /\ second = {}

-----------------------------------------------------------------------------
(* What the decisions read.                                                *)

\* build_term_group_key: the families of a query.
Group(query) == {Family[t] : t \in query}

\* used_term_group_keys of the ledger.
sent == {Group(query) : query \in ledger}

\* consumed_non_anchor_term_family_ids.
Consumed == UNION sent

Untried(t) == Family[t] \notin Consumed

\* The pool without the secondary title anchors.
Support == pool \ SecondaryTerms

\* _is_fresh_requirement_term
Fresh == {t \in mentioned : t \in active /\ t \notin SecondaryTerms}

\* _has_fresh_controller_selectable_family
Selectable == {t \in Support : (Untried(t) \/ t \in Fresh) /\ t \in active \cup advised}

\* Mutant of Reserve: a term that is not active is no reserve.
ReserveActiveOnly == {t \in Support \cap active : Untried(t)}

\* untried_admitted_non_anchor_reserve: an active one first.
Reserve ==
    LET candidates == {t \in Support : Untried(t) /\ {Family[t]} \notin sent} IN
    IF candidates \cap active # {} THEN candidates \cap active ELSE candidates

AnchorIsNovel == {} \notin sent

\* _build_stop_guidance
BelowMinimum == round <= MinRounds
NearBudget == 10 * round >= 8 * MaxRounds

\* The guidance looks the terms of the receipts up in the pool of this round: a
\* term that an amendment made inadmissible is compiled with another family, and
\* its old one counts as untried again.
Tried == {Family[t] : t \in pool \cap UNION ledger}

UntriedActive == {t \in Support \cap active : Family[t] \notin Tried}

PoorWithoutTerms == strength = "poor" /\ UntriedActive = {}

CanStop ==
    /\ ~BelowMinimum
    /\ \/ NearBudget
       \/ PoorWithoutTerms /\ broadened
       \/ strength = "usable" /\ (productive = 2 \/ UntriedActive = {})
       \/ strength = "strong"

\* quality_gate_status is broaden_required or low_quality_exhausted.
RescueDue == ~BelowMinimum /\ ~NearBudget /\ PoorWithoutTerms

-----------------------------------------------------------------------------
(* The boundary of a round.                                                *)

\* The top pool after scoring; it is empty before the first candidate.
Strengths(rounds) == IF rounds = 0 THEN {"poor"} ELSE {"poor", "usable", "strong"}

\* Mutant of Amend: what an amendment drops stays active.
AmendKeepsActive(named, dropped) ==
    /\ pool' = (pool \cup named) \ dropped
    /\ active' = active \cup named
    /\ blocked' = blocked \cup dropped
    /\ mentioned' = named
    /\ revisions' = revisions + 1
    /\ strength' \in Strengths(productive)

\* apply_approved_requirement_revision of a revision effective this round: the
\* terms it names are admitted, active and dated to the round, old and new ones
\* alike; a term compiled as inadmissible never comes back.
Amend(named, dropped) ==
    /\ pool' = (pool \cup named) \ dropped
    /\ active' = (active \cup named) \ dropped
    /\ blocked' = blocked \cup dropped
    /\ mentioned' = named
    /\ revisions' = revisions + 1
    /\ strength' \in Strengths(productive)

Boundary ==
    /\ phase = "boundary"
    /\ phase' = "preflight"
    /\ \/ /\ mentioned' = {}
          /\ UNCHANGED <<pool, active, blocked, revisions, strength>>
       \/ /\ revisions < MaxAmendments
          /\ \E named \in SUBSET (RequirementTerms \ blocked),
                dropped \in SUBSET (pool \ FeedbackTerms) :
                /\ named \cap dropped = {} /\ named \cup dropped # {}
                /\ Cardinality(named \cup dropped) <= MaxNamed
                /\ Amend(named, dropped)
    /\ UNCHANGED <<round, memory, advised, productive, decision, second>>

-----------------------------------------------------------------------------
(* Rescue lanes, before the controller and over its head.                  *)

Decide(query, who) ==
    /\ exploit' = query
    /\ lane' = who
    /\ phase' = "plan"

\* choose_pre_controller_exhaustion_route: some term is left to the controller.
Ask ==
    /\ phase = "preflight"
    /\ Selectable # {}
    /\ phase' = "controller"
    /\ UNCHANGED <<round, poolVars, memory, guidance, decision, second>>

\* _fresh_inactive_reserve
InactiveReserve == IF Reserve \cap active = {} THEN Reserve ELSE {}

\* Neither the controller nor the reserve has a term for the round.
Exhausted == phase = "preflight" /\ Selectable = {} /\ InactiveReserve = {}

\* choose_rescue_lane without a reserve.
Helpless == phase = "controller" /\ RescueDue /\ Reserve = {}

\* force_broaden_decision
ReserveRound ==
    /\ \/ phase = "preflight" /\ Selectable = {} /\ InactiveReserve # {}
       \/ phase = "controller" /\ RescueDue /\ Reserve # {}
    /\ \E t \in Reserve :
          /\ active' = active \cup {t}
          /\ Decide({t}, "reserve_broaden")
    /\ broadened' = TRUE
    /\ UNCHANGED <<round, pool, blocked, mentioned, revisions, ledger, feedbackTried,
                   anchorTried, guidance, second>>

\* The rescue lane of the quality gate also asks for two fit seed resumes.
FeedbackDue ==
    /\ FeedbackEnabled /\ ~feedbackTried
    /\ Exhausted \/ (Helpless /\ productive > 0)

\* force_candidate_feedback_decision with a term of the candidates.
FeedbackRound ==
    /\ FeedbackDue /\ productive > 0
    /\ \E t \in FeedbackTerms :
          /\ Untried(t)
          /\ pool' = pool \cup {t} /\ active' = active \cup {t}
          /\ Decide({t}, "candidate_feedback")
    /\ feedbackTried' = TRUE
    /\ UNCHANGED <<round, blocked, mentioned, revisions, ledger, anchorTried, broadened,
                   guidance, second>>

\* force_candidate_feedback_decision without one, and
\* _continue_after_empty_feedback: the anchor alone if that was never tried.
EmptyFeedback ==
    /\ FeedbackDue
    /\ feedbackTried' = TRUE
    /\ \/ /\ ~anchorTried /\ AnchorIsNovel
          /\ anchorTried' = TRUE /\ broadened' = TRUE
          /\ Decide({}, "anchor_only")
       \/ /\ anchorTried \/ ~AnchorIsNovel
          /\ IF phase = "preflight" THEN phase' = "stopped" /\ lane' = "exhausted"
             ELSE UNCHANGED <<phase, lane>>
          /\ UNCHANGED <<anchorTried, broadened, exploit>>
    /\ UNCHANGED <<round, poolVars, ledger, guidance, second>>

FeedbackIsOver == FeedbackEnabled => feedbackTried

\* force_anchor_only_decision
AnchorRound ==
    /\ AnchorIsNovel
    /\ \/ Exhausted /\ FeedbackIsOver
       \/ Helpless /\ ~anchorTried
    /\ anchorTried' = TRUE /\ broadened' = TRUE
    /\ Decide({}, "anchor_only")
    /\ UNCHANGED <<round, poolVars, ledger, feedbackTried, guidance, second>>

\* _family_exhausted_stop
ExhaustedStop ==
    /\ Exhausted /\ FeedbackIsOver /\ ~AnchorIsNovel
    /\ phase' = "stopped" /\ lane' = "exhausted"
    /\ UNCHANGED <<round, poolVars, memory, guidance, exploit, second>>

-----------------------------------------------------------------------------
(* The decision of the controller.                                         *)

\* No rescue lane overrules the controller (continue_controller, allow_stop).
ControllerRules ==
    /\ phase = "controller"
    /\ RescueDue => Helpless /\ (anchorTried \/ ~AnchorIsNovel)

\* _duplicate_families finds none.
Distinct(query) == \A t, u \in query : Family[t] = Family[u] => t = u

\* validate_controller_decision: what the model may propose.  It refuses the anchor
\* alone, and it also checks a proposal that was projected because it named a
\* secondary title anchor; sanitizing would allow both, but never meets them.
Proposals ==
    {q \in SUBSET pool :
        /\ Cardinality(q) \in IF round = 1 THEN {1} ELSE {1, 2}
        /\ Distinct(q)
        /\ round > 1 => q \cap SecondaryTerms = {}
        /\ q \subseteq active \cup advised}

\* The largest choices of at most n members of a set.
Choices(S, n) ==
    {C \in SUBSET S : Cardinality(C) = IF Cardinality(S) < n THEN Cardinality(S) ELSE n}

\* _repair_consumed_families: what was searched goes, other terms fill the gap.
\* The list of candidates is made before any of them is taken.
Repair(proposal) ==
    LET kept == {t \in proposal : Untried(t) \/ t \in Fresh}
        candidates == {t \in Selectable : Family[t] \notin Group(kept)} IN
    {kept \cup fill : fill \in
        Choices(candidates, Cardinality(proposal) - Cardinality(kept))}

\* Mutant of EnsureFresh: the query is left as it is.
EnsureFreshNot(query) == {query}

\* _ensure_fresh_requirement_term
EnsureFresh(query) ==
    IF Fresh = {} \/ query \cap Fresh # {} THEN {query}
    ELSE UNION {{others \cup {t} : others \in
                    Choices({u \in query : Family[u] # Family[t]}, IF round = 1 THEN 0 ELSE 1)}
                : t \in Fresh}

\* sanitize_controller_decision of a search
Sanitized(proposal) == UNION {EnsureFresh(query) : query \in Repair(proposal)}

\* The sanitized query is canonicalized by the plan; a used group is an error.
Malformed(query) ==
    \/ ~Distinct(query)
    \/ Group(query) \in sent /\ query \cap Fresh = {}

Propose(proposal) ==
    \E query \in Sanitized(proposal) :
        IF Malformed(query)
        THEN phase' = "rejected" /\ exploit' = query /\ UNCHANGED lane
        ELSE Decide(query, "controller")

ControllerSearch ==
    /\ ControllerRules
    /\ \E proposal \in Proposals : Propose(proposal)
    /\ UNCHANGED <<round, poolVars, memory, guidance, second>>

\* select_query_terms after the first round.
Selected ==
    {q \in SUBSET (Support \cap active) :
        /\ Distinct(q)
        /\ Cardinality(q) =
               IF Cardinality(Group(Support \cap active)) < 2 THEN 1 ELSE 2}

\* A stop waits for a requirement that became effective this round.
ControllerStop ==
    /\ ControllerRules
    /\ CanStop
    /\ IF Fresh = {}
       THEN phase' = "stopped" /\ lane' = "can_stop" /\ UNCHANGED exploit
       ELSE \E proposal \in Selected : Propose(proposal)
    /\ UNCHANGED <<round, poolVars, memory, guidance, second>>

-----------------------------------------------------------------------------
(* The query bundle and the dispatch.                                      *)

\* Mutant of Explore: the families of the first query are not left out.
ExploreAgain == {t \in Support : Untried(t)}

\* derive_explore_query_terms: one term, active ones first.
Explore ==
    LET candidates == {t \in Support : Untried(t) /\ Family[t] \notin Group(exploit)} IN
    IF candidates \cap active # {} THEN candidates \cap active ELSE candidates

\* The expression of the candidates that passed the gate, if it is a new family.
Probe ==
    IF lane = "candidate_feedback" \/ productive = 0 THEN {}
    ELSE {t \in FeedbackTerms \ pool : Untried(t) /\ Family[t] \notin Group(exploit)}

\* build_second_lane_decision
SecondQueries ==
    IF round = 1 \/ exploit = {} THEN {{}}
    ELSE {{{t}} : t \in Probe} \cup
         IF Explore = {} THEN {{}} ELSE {{{t}} : t \in Explore}

\* assert_novel_query_identities, of the bundle and again of the dispatch.
Novel(bundle) ==
    \A q \in bundle :
        /\ Group(q) \notin sent /\ Group(q) \cap Consumed = {}
        /\ \A other \in bundle \ {q} : Group(q) \cap Group(other) = {}

\* _build_round_query_bundle
Bundle ==
    /\ phase = "plan"
    /\ second' \in SecondQueries
    /\ phase' = IF Novel({exploit} \cup second') THEN "dispatch" ELSE "refused"
    /\ UNCHANGED <<round, poolVars, memory, guidance, decision>>

\* _execute_multi_source_round_search and the rest of the round: a round whose
\* queries never started goes on only with candidates of earlier rounds.
Search ==
    /\ phase = "dispatch"
    /\ \E started \in SUBSET ({exploit} \cup second), gain \in BOOLEAN :
          /\ started = {} => productive > 0 /\ ~gain
          /\ ledger' = ledger \cup started
          /\ productive' = IF gain /\ productive < 2 THEN productive + 1 ELSE productive
    /\ strength' \in Strengths(productive')
    /\ advised' \in SUBSET (pool \ active)
    /\ exploit' = {} /\ second' = {} /\ lane' = "none"
    /\ IF round = MaxRounds THEN phase' = "done" /\ UNCHANGED round
       ELSE phase' = "boundary" /\ round' = round + 1
    /\ UNCHANGED <<poolVars, feedbackTried, anchorTried, broadened>>

\* A stage that raises ends the run: a model call, a source round, a callback.
StageFails ==
    /\ phase \in {"boundary", "preflight", "controller", "plan", "dispatch"}
    /\ phase' = "failed"
    /\ UNCHANGED <<round, poolVars, memory, guidance, decision, second>>

-----------------------------------------------------------------------------
Next ==
    \/ Boundary \/ Ask
    \/ ReserveRound \/ FeedbackRound \/ EmptyFeedback \/ AnchorRound \/ ExhaustedStop
    \/ ControllerSearch \/ ControllerStop
    \/ Bundle \/ Search \/ StageFails

Spec == Init /\ [][Next]_vars

-----------------------------------------------------------------------------
(* What the loop promises.                                                 *)

\* Every variable keeps its type.
TypeOK ==
    /\ phase \in {"boundary", "preflight", "controller", "plan", "dispatch",
                  "stopped", "done", "failed", "rejected", "refused"}
    /\ round \in 1..MaxRounds
    /\ pool \subseteq Terms /\ active \subseteq pool
    /\ blocked \subseteq RequirementTerms \ pool /\ mentioned \subseteq RequirementTerms
    /\ revisions \in 0..MaxAmendments
    /\ advised \subseteq Terms
    /\ ledger \subseteq SUBSET Terms
    /\ feedbackTried \in BOOLEAN /\ anchorTried \in BOOLEAN /\ broadened \in BOOLEAN
    /\ strength \in {"poor", "usable", "strong"} /\ productive \in 0..2
    /\ exploit \subseteq pool /\ lane \in Lane
    /\ second \subseteq SUBSET Terms /\ Cardinality(second) <= 1

\* The dispatch gate refuses a bundle only for a requirement that was named again
\* after its family had been searched, and a query is malformed only when two
\* terms of the pool are aliases.
RefusalIsExplained ==
    /\ phase = "refused" =>
          \E t \in exploit : t \in Fresh /\ Family[t] \in Consumed
    /\ phase = "rejected" => ~Distinct(pool)

\* A requirement that became effective this round, and whose family was not
\* searched yet, is searched this round: neither a rescue lane nor a repair nor a
\* stop passes it over.
NewRequirementIsSearched ==
    (\E t \in Fresh : Untried(t)) =>
        /\ phase # "stopped"
        /\ phase = "dispatch" => exploit \cap Fresh # {}

\* The loop gives up before its minimum, or with a poor pool before its budget,
\* only when there is nothing left to search.
EarlyStopIsExhausted ==
    phase = "stopped" =>
        \/ /\ lane = "can_stop" /\ ~BelowMinimum
           /\ NearBudget \/ strength # "poor"
        \/ /\ lane = "exhausted"
           /\ \A t \in Support : ~Untried(t)
           /\ anchorTried /\ FeedbackIsOver

=============================================================================
