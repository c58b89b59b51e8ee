-------------------------- MODULE SearchLoopProofs --------------------------
(***************************************************************************)
(* The properties of SearchLoop for any terms, families and numbers of      *)
(* rounds.  The inductive invariant LoopInv says what each phase may rely   *)
(* on: that a query on its way to the dispatch is either new or explained   *)
(* by a requirement named again, that it holds the requirement named for    *)
(* the round, and that an anchor-only search is always remembered.          *)
(***************************************************************************)
EXTENDS SearchLoop, FiniteSetTheorems, TLAPS

Planned == phase \in {"plan", "dispatch"}

\* A requirement named for this round has not been searched.
Due == \E t \in Fresh : Untried(t)

\* The query was searched before for a requirement that is named again.
NamedAgain(query) == \E t \in query : t \in Fresh /\ Family[t] \in Consumed

\* Nothing of the query was searched before.
IsNew(query) == Group(query) \notin sent /\ \A t \in query : Untried(t)

NamedAreActive == mentioned \subseteq active
NothingPlanned == phase \in {"boundary", "preflight", "controller"} => exploit = {}
SomethingToChoose == phase = "controller" => Selectable # {}
AnchorIsRemembered ==
    /\ {} \in ledger => anchorTried
    /\ Planned /\ exploit = {} => anchorTried
    /\ phase = "dispatch" => {} \notin second
FreshIsPlanned == Planned /\ Due => exploit \cap Fresh # {}
PlanIsExplained == phase = "plan" => NamedAgain(exploit) \/ IsNew(exploit)

LoopInv ==
    /\ TypeOK
    /\ NamedAreActive
    /\ NothingPlanned
    /\ SomethingToChoose
    /\ AnchorIsRemembered
    /\ FreshIsPlanned
    /\ PlanIsExplained
    /\ RefusalIsExplained
    /\ NewRequirementIsSearched
    /\ EarlyStopIsExhausted

-----------------------------------------------------------------------------
(* What the decisions read.                                                *)

\* The families of a query are those of its terms, and of no others.
LEMMA GroupOfTerms ==
    ASSUME NEW query
    PROVE  /\ Group(query) = {} <=> query = {}
           /\ \A t \in query : Family[t] \in Group(query)
           /\ \A f \in Group(query) : \E t \in query : f = Family[t]
BY DEF Group

\* Only the anchor alone has no family.
LEMMA AnchorInLedger == AnchorIsNovel <=> {} \notin ledger
BY GroupOfTerms DEF AnchorIsNovel, sent

\* What is in a group that was searched is consumed.
LEMMA SearchedIsConsumed ==
    ASSUME NEW group \in sent, NEW f \in group
    PROVE  f \in Consumed
BY DEF Consumed

\* A query of untried terms that has a term is no group that was searched.
LEMMA UntriedIsNew ==
    ASSUME NEW query, query # {}, \A t \in query : Untried(t)
    PROVE  IsNew(query)
<1>1. PICK t \in query : TRUE
  OBVIOUS
<1>2. ASSUME Group(query) \in sent PROVE FALSE
  BY <1>1, <1>2, GroupOfTerms, SearchedIsConsumed DEF Untried
<1> QED
  BY <1>2 DEF IsNew

\* A requirement that is due is there for the controller, and no rescue is due.
LEMMA DueIsSelectable ==
    ASSUME TypeOK, Due
    PROVE  Selectable # {} /\ ~RescueDue
<1>1. PICK t \in Fresh : Untried(t)
  BY DEF Due
<1>2. t \in Support \cap active
  BY <1>1 DEF Fresh, Support, TypeOK
<1>3. t \in Selectable
  BY <1>1, <1>2 DEF Selectable
<1>4. t \in UntriedActive
  <2>1. Family[t] \notin Tried
    BY <1>1 DEF Tried, Untried, Consumed, sent, Group
  <2> QED
    BY <1>2, <2>1 DEF UntriedActive
<1> QED
  BY <1>3, <1>4 DEF RescueDue, PoorWithoutTerms

\* Without a reserve every supporting term was searched.
LEMMA WithoutReserve ==
    ASSUME Reserve = {}
    PROVE  \A t \in Support : ~Untried(t)
<1> SUFFICES ASSUME NEW t \in Support, Untried(t)
             PROVE  FALSE
  OBVIOUS
<1>1. {Family[t]} \notin sent
  BY SearchedIsConsumed DEF Untried
<1>2. t \in {u \in Support : Untried(u) /\ {Family[u]} \notin sent}
  BY <1>1
<1> QED
  BY <1>2 DEF Reserve

\* What Reserve picks is a supporting term nobody searched.
LEMMA ReserveIsUntried ==
    ASSUME NEW t \in Reserve
    PROVE  t \in Support /\ Untried(t)
BY DEF Reserve

\* When neither the controller nor the reserve has a term, none is left.
LEMMA ExhaustedLeavesNone ==
    ASSUME Exhausted
    PROVE  Reserve = {} /\ Selectable = {}
<1>1. Selectable = {} /\ InactiveReserve = {}
  BY DEF Exhausted
<1>2. ASSUME NEW t \in Reserve, t \in active PROVE FALSE
  BY <1>1, <1>2, ReserveIsUntried DEF Selectable
<1>3. Reserve \cap active = {}
  BY <1>2
<1> QED
  BY <1>1, <1>3 DEF InactiveReserve

-----------------------------------------------------------------------------
(* What the controller's proposal becomes.                                 *)

\* The repair keeps and fills in terms that are untried or named again, and
\* leaves a query when there is a term to choose from.
LEMMA RepairedQuery ==
    ASSUME TypeOK, Selectable # {},
           NEW proposal \in SUBSET pool, Cardinality(proposal) \in {1, 2},
           NEW query \in Repair(proposal)
    PROVE  /\ query \subseteq pool /\ query # {}
           /\ \A t \in query : Untried(t) \/ t \in Fresh
<1> DEFINE kept == {t \in proposal : Untried(t) \/ t \in Fresh}
           candidates == {t \in Selectable : Family[t] \notin Group(kept)}
           gap == Cardinality(proposal) - Cardinality(kept)
<1>1. PICK fill \in Choices(candidates, gap) : query = kept \cup fill
  BY DEF Repair
<1>2. /\ fill \subseteq candidates
      /\ Cardinality(fill) = IF Cardinality(candidates) < gap
                             THEN Cardinality(candidates) ELSE gap
  BY <1>1 DEF Choices
<1>3. candidates \subseteq pool /\ \A t \in candidates : Untried(t) \/ t \in Fresh
  BY DEF Selectable, Support
<1>4. query # {}
  <2>1. SUFFICES ASSUME kept = {} PROVE fill # {}
    BY <1>1
  <2>2. candidates = Selectable
    BY <2>1, GroupOfTerms
  <2>3. IsFiniteSet(Selectable)
    <3>1. Selectable \subseteq Terms
      BY DEF Selectable, Support, TypeOK
    <3> QED
      BY <3>1, SearchAssumption, FS_Subset
  <2>4. Cardinality(candidates) \in Nat /\ Cardinality(candidates) # 0
    BY <2>2, <2>3, FS_CardinalityType, FS_EmptySet
  <2>5. gap >= 1 /\ gap \in Nat
    <3>1. Cardinality(kept) = 0
      BY <2>1, FS_EmptySet, Zenon
    <3> HIDE DEF kept
    <3> QED
      BY <3>1
  <2>6. Cardinality(fill) # 0
    BY <1>2, <2>4, <2>5
  <2> QED
    BY <2>6, FS_EmptySet
<1> QED
  BY <1>1, <1>2, <1>3, <1>4

\* The sanitized query moreover holds a requirement named for the round.
LEMMA SanitizedQuery ==
    ASSUME TypeOK, Selectable # {},
           NEW proposal \in SUBSET pool, Cardinality(proposal) \in {1, 2},
           NEW query \in Sanitized(proposal)
    PROVE  /\ query \subseteq pool /\ query # {}
           /\ \A t \in query : Untried(t) \/ t \in Fresh
           /\ Fresh # {} => query \cap Fresh # {}
<1>1. PICK repaired \in Repair(proposal) : query \in EnsureFresh(repaired)
  BY DEF Sanitized
<1>2. /\ repaired \subseteq pool /\ repaired # {}
      /\ \A t \in repaired : Untried(t) \/ t \in Fresh
  BY <1>1, RepairedQuery
<1>3. CASE Fresh = {} \/ repaired \cap Fresh # {}
  BY <1>1, <1>2, <1>3 DEF EnsureFresh
<1>4. CASE ~(Fresh = {} \/ repaired \cap Fresh # {})
  <2>1. PICK t \in Fresh :
            query \in {others \cup {t} : others \in
                         Choices({u \in repaired : Family[u] # Family[t]},
                                 IF round = 1 THEN 0 ELSE 1)}
    BY <1>1, <1>4 DEF EnsureFresh
  <2>2. PICK others \in SUBSET repaired : query = others \cup {t}
    BY <2>1 DEF Choices
  <2>3. Fresh \subseteq pool
    BY DEF Fresh, TypeOK
  <2> QED
    BY <1>2, <2>2, <2>3
<1> QED
  BY <1>3, <1>4

\* Such a query is either explained by a requirement named again or new, and
\* only an alias in the pool makes it malformed.
LEMMA SanitizedIsExplained ==
    ASSUME NEW query \in SUBSET pool, query # {},
           \A t \in query : Untried(t) \/ t \in Fresh
    PROVE  /\ NamedAgain(query) \/ IsNew(query)
           /\ Malformed(query) => ~Distinct(pool)
<1>1. NamedAgain(query) \/ IsNew(query)
  <2>1. CASE \A t \in query : Untried(t)
    BY <2>1, UntriedIsNew
  <2>2. CASE \E t \in query : ~Untried(t)
    BY <2>2 DEF NamedAgain, Untried
  <2> QED
    BY <2>1, <2>2
<1>2. ASSUME Group(query) \in sent PROVE query \cap Fresh # {}
  <2>1. ~IsNew(query)
    BY <1>2 DEF IsNew
  <2> QED
    BY <1>1, <2>1 DEF NamedAgain
<1>3. ~Distinct(query) => ~Distinct(pool)
  BY DEF Distinct
<1> QED
  BY <1>1, <1>2, <1>3 DEF Malformed

-----------------------------------------------------------------------------
(* Each step keeps the invariant.                                          *)

\* What the decisions read stays when pool and ledger do.
LEMMA SameReading ==
    ASSUME UNCHANGED <<poolVars, ledger>>
    PROVE  /\ Fresh' = Fresh /\ Consumed' = Consumed /\ Support' = Support
           /\ \A t : Untried(t)' <=> Untried(t)
           /\ Due' <=> Due
           /\ \A q : NamedAgain(q)' <=> NamedAgain(q)
           /\ \A q : IsNew(q)' <=> IsNew(q)
BY DEF poolVars, Fresh, Consumed, sent, Support, Untried, Due, NamedAgain, IsNew, Group

LEMMA BoundaryKeeps ==
    ASSUME LoopInv, Boundary
    PROVE  LoopInv'
<1> USE DEF LoopInv
<1>1. /\ phase = "boundary" /\ phase' = "preflight" /\ exploit = {}
      /\ UNCHANGED <<round, memory, advised, productive, decision, second>>
  BY DEF Boundary, NothingPlanned
<1>2. TypeOK' /\ NamedAreActive'
  <2>1. CASE mentioned' = {} /\ UNCHANGED <<pool, active, blocked, revisions, strength>>
    BY <1>1, <2>1 DEF TypeOK, NamedAreActive, memory, decision
  <2>2. ASSUME revisions < MaxAmendments,
               NEW named \in SUBSET (RequirementTerms \ blocked),
               NEW dropped \in SUBSET (pool \ FeedbackTerms),
               named \cap dropped = {}, Amend(named, dropped)
        PROVE  TypeOK' /\ NamedAreActive'
    <3>1. strength' \in {"poor", "usable", "strong"}
      BY <2>2 DEF Amend, Strengths
    <3>2. revisions' \in 0 .. MaxAmendments
      BY <2>2, SearchAssumption DEF Amend, TypeOK
    <3>3. /\ pool' \subseteq Terms /\ active' \subseteq pool'
          /\ blocked' \subseteq RequirementTerms \ pool'
          /\ mentioned' \subseteq RequirementTerms /\ mentioned' \subseteq active'
      BY <2>2 DEF Amend, TypeOK, Terms
    <3> QED
      BY <1>1, <3>1, <3>2, <3>3 DEF TypeOK, NamedAreActive, memory, decision
  <2> QED
    BY <2>1, <2>2 DEF Boundary
<1>3. NothingPlanned' /\ SomethingToChoose' /\ AnchorIsRemembered'
  BY <1>1 DEF NothingPlanned, SomethingToChoose, AnchorIsRemembered, Planned, memory, decision
<1>4. /\ FreshIsPlanned' /\ PlanIsExplained' /\ RefusalIsExplained'
      /\ NewRequirementIsSearched' /\ EarlyStopIsExhausted'
  BY <1>1 DEF FreshIsPlanned, Planned, PlanIsExplained, RefusalIsExplained,
              NewRequirementIsSearched, EarlyStopIsExhausted
<1> QED
  BY <1>2, <1>3, <1>4

LEMMA AskKeeps ==
    ASSUME LoopInv, Ask
    PROVE  LoopInv'
<1> USE DEF LoopInv
<1>1. /\ phase = "preflight" /\ phase' = "controller" /\ exploit = {}
      /\ UNCHANGED <<round, poolVars, memory, guidance, decision, second>>
  BY DEF Ask, NothingPlanned
<1>2. TypeOK' /\ NamedAreActive' /\ NothingPlanned' /\ AnchorIsRemembered'
  BY <1>1 DEF TypeOK, NamedAreActive, NothingPlanned, AnchorIsRemembered, Planned,
              poolVars, memory, guidance, decision
<1>3. SomethingToChoose'
  <2>1. Selectable' = Selectable
    BY <1>1 DEF Selectable, Support, Untried, Consumed, sent, Fresh, poolVars, memory, guidance
  <2> QED
    BY <2>1 DEF Ask, SomethingToChoose
<1>4. /\ FreshIsPlanned' /\ PlanIsExplained' /\ RefusalIsExplained'
      /\ NewRequirementIsSearched' /\ EarlyStopIsExhausted'
  BY <1>1 DEF FreshIsPlanned, Planned, PlanIsExplained, RefusalIsExplained,
              NewRequirementIsSearched, EarlyStopIsExhausted
<1> QED
  BY <1>2, <1>3, <1>4

\* A decision of a rescue lane: no requirement is due, and the query is new.
LEMMA RescueKeeps ==
    ASSUME LoopInv, ~Due, phase \in {"preflight", "controller"},
           NEW query \in SUBSET pool', Decide(query, lane'), lane' \in Lane,
           IsNew(query), query = {} => anchorTried',
           pool' \subseteq Terms, pool' \cap blocked = {}, pool \subseteq pool',
           active \subseteq active', active' \subseteq pool',
           feedbackTried' \in BOOLEAN, anchorTried' \in BOOLEAN, broadened' \in BOOLEAN,
           anchorTried => anchorTried',
           UNCHANGED <<round, blocked, mentioned, revisions, ledger, guidance, second>>
    PROVE  LoopInv'
<1> USE DEF LoopInv
<1>1. phase' = "plan" /\ exploit' = query
  BY DEF Decide
<1>2. TypeOK' /\ NamedAreActive'
  BY <1>1 DEF TypeOK, NamedAreActive, guidance
<1>3. NothingPlanned' /\ SomethingToChoose' /\ AnchorIsRemembered'
  BY <1>1 DEF NothingPlanned, SomethingToChoose, AnchorIsRemembered, Planned
<1>4. IsNew(exploit)'
  BY <1>1 DEF IsNew, Group, Untried, Consumed, sent
<1>5. ~Due'
  <2>1. Fresh' = Fresh
    BY DEF Fresh, NamedAreActive
  <2>2. \A t : Untried(t)' <=> Untried(t)
    BY DEF Untried, Consumed, sent
  <2> QED
    BY <2>1, <2>2 DEF Due
<1>6. PlanIsExplained' /\ FreshIsPlanned'
  BY <1>4, <1>5 DEF PlanIsExplained, FreshIsPlanned
<1>7. RefusalIsExplained' /\ NewRequirementIsSearched' /\ EarlyStopIsExhausted'
  BY <1>1 DEF RefusalIsExplained, NewRequirementIsSearched, EarlyStopIsExhausted
<1> QED
  BY <1>2, <1>3, <1>6, <1>7

\* A stop of the loop: no requirement is due, and the reason is a good one.
LEMMA StopKeeps ==
    ASSUME LoopInv, ~Due, phase' = "stopped", lane' \in Lane, EarlyStopIsExhausted',
           feedbackTried' \in BOOLEAN,
           UNCHANGED <<round, poolVars, ledger, anchorTried, broadened, guidance, exploit, second>>
    PROVE  LoopInv'
<1> USE DEF LoopInv
<1>1. TypeOK' /\ NamedAreActive' /\ NothingPlanned' /\ SomethingToChoose'
  BY DEF TypeOK, NamedAreActive, NothingPlanned, SomethingToChoose, poolVars, guidance
<1>2. ~Due'
  BY SameReading
<1>3. NewRequirementIsSearched'
  BY <1>2 DEF NewRequirementIsSearched, Due
<1>4. AnchorIsRemembered' /\ FreshIsPlanned' /\ PlanIsExplained' /\ RefusalIsExplained'
  BY DEF AnchorIsRemembered, FreshIsPlanned, PlanIsExplained, RefusalIsExplained, Planned
<1> QED
  BY <1>1, <1>3, <1>4

LEMMA ReserveRoundKeeps ==
    ASSUME LoopInv, ReserveRound
    PROVE  LoopInv'
<1> USE DEF LoopInv
<1>1. PICK t \in Reserve : active' = active \cup {t} /\ Decide({t}, "reserve_broaden")
  BY DEF ReserveRound
<1>2. t \in pool /\ Untried(t)
  BY ReserveIsUntried DEF Support
<1>3. IsNew({t})
  BY <1>2, UntriedIsNew
<1>4. ~Due /\ phase \in {"preflight", "controller"}
  BY DueIsSelectable DEF ReserveRound
<1>5. lane' = "reserve_broaden"
  BY <1>1 DEF Decide
<1> QED
  BY <1>1, <1>2, <1>3, <1>4, <1>5, RescueKeeps DEF ReserveRound, TypeOK, Lane

\* When feedback or the anchor is called for, no requirement is due.
LEMMA RescueOnlyWithoutDue ==
    ASSUME TypeOK, Exhausted \/ Helpless
    PROVE  ~Due /\ phase \in {"preflight", "controller"}
BY DueIsSelectable, ExhaustedLeavesNone DEF Exhausted, Helpless

LEMMA FeedbackRoundKeeps ==
    ASSUME LoopInv, FeedbackRound
    PROVE  LoopInv'
<1> USE DEF LoopInv
<1>1. PICK t \in FeedbackTerms :
          /\ Untried(t) /\ pool' = pool \cup {t} /\ active' = active \cup {t}
          /\ Decide({t}, "candidate_feedback")
  BY DEF FeedbackRound
<1>2. IsNew({t})
  BY <1>1, UntriedIsNew
<1>3. ~Due /\ phase \in {"preflight", "controller"}
  BY RescueOnlyWithoutDue DEF FeedbackRound, FeedbackDue
<1>4. lane' = "candidate_feedback"
  BY <1>1 DEF Decide
<1>5. t \notin RequirementTerms /\ t \in Terms
  BY FamilyAssumption DEF Terms
<1>6. pool' \subseteq Terms /\ pool' \cap blocked = {}
  BY <1>1, <1>5 DEF TypeOK
<1> QED
  BY <1>1, <1>2, <1>3, <1>4, <1>6, RescueKeeps DEF FeedbackRound, TypeOK, Lane

\* The anchor alone is new as long as it was not searched.
LEMMA AnchorIsNew ==
    ASSUME AnchorIsNovel
    PROVE  IsNew({})
BY GroupOfTerms DEF AnchorIsNovel, IsNew

LEMMA EmptyFeedbackKeeps ==
    ASSUME LoopInv, EmptyFeedback
    PROVE  LoopInv'
<1> USE DEF LoopInv
<1>1. ~Due /\ phase \in {"preflight", "controller"}
  BY RescueOnlyWithoutDue DEF EmptyFeedback, FeedbackDue
<1>2. CASE ~anchorTried /\ AnchorIsNovel /\ Decide({}, "anchor_only") /\ anchorTried' = TRUE
           /\ broadened' = TRUE
  <2>1. lane' = "anchor_only"
    BY <1>2 DEF Decide
  <2> QED
    BY <1>1, <1>2, <2>1, AnchorIsNew, RescueKeeps DEF EmptyFeedback, TypeOK, Lane, poolVars
<1>3. CASE /\ anchorTried \/ ~AnchorIsNovel
           /\ UNCHANGED <<anchorTried, broadened, exploit>>
  <2>1. anchorTried
    BY <1>3, AnchorInLedger DEF AnchorIsRemembered
  <2>2. CASE phase = "preflight"
    <3>1. phase' = "stopped" /\ lane' = "exhausted"
      BY <1>2, <1>3, <2>1, <2>2 DEF EmptyFeedback
    <3>2. Exhausted
      BY <2>2 DEF EmptyFeedback, FeedbackDue, Helpless
    <3>3. \A t \in Support : ~Untried(t)
      BY <3>2, ExhaustedLeavesNone, WithoutReserve
    <3>4. UNCHANGED <<round, poolVars, ledger, guidance, second>> /\ feedbackTried' = TRUE
      BY DEF EmptyFeedback
    <3>5. \A t \in Support' : ~Untried(t)'
      BY <3>3, <3>4, SameReading
    <3>6. EarlyStopIsExhausted'
      BY <1>3, <2>1, <3>1, <3>4, <3>5 DEF EarlyStopIsExhausted, FeedbackIsOver
    <3> QED
      BY <1>1, <1>3, <3>1, <3>4, <3>6, StopKeeps DEF Lane
  <2>3. CASE phase = "controller"
    <3>1. /\ UNCHANGED <<phase, lane, anchorTried, broadened, exploit>>
          /\ UNCHANGED <<round, poolVars, ledger, guidance, second>> /\ feedbackTried' = TRUE
      BY <1>2, <1>3, <2>1, <2>3 DEF EmptyFeedback
    <3>2. TypeOK' /\ NamedAreActive' /\ NothingPlanned' /\ AnchorIsRemembered'
      BY <3>1 DEF TypeOK, NamedAreActive, NothingPlanned, AnchorIsRemembered, Planned,
                  poolVars, guidance
    <3>3. Selectable' = Selectable
      BY <3>1 DEF Selectable, Support, Untried, Consumed, sent, Fresh, poolVars, guidance
    <3>4. SomethingToChoose'
      BY <3>1, <3>3 DEF SomethingToChoose
    <3>5. /\ FreshIsPlanned' /\ PlanIsExplained' /\ RefusalIsExplained'
          /\ NewRequirementIsSearched' /\ EarlyStopIsExhausted'
      BY <2>3, <3>1 DEF FreshIsPlanned, Planned, PlanIsExplained, RefusalIsExplained,
                  NewRequirementIsSearched, EarlyStopIsExhausted
    <3> QED
      BY <3>2, <3>4, <3>5
  <2> QED
    BY <1>1, <2>2, <2>3
<1> QED
  BY <1>2, <1>3 DEF EmptyFeedback

LEMMA AnchorRoundKeeps ==
    ASSUME LoopInv, AnchorRound
    PROVE  LoopInv'
<1> USE DEF LoopInv
<1>1. ~Due /\ phase \in {"preflight", "controller"}
  BY RescueOnlyWithoutDue DEF AnchorRound
<1>2. lane' = "anchor_only"
  BY DEF AnchorRound, Decide
<1> QED
  BY <1>1, <1>2, AnchorIsNew, RescueKeeps DEF AnchorRound, TypeOK, Lane, poolVars

LEMMA ExhaustedStopKeeps ==
    ASSUME LoopInv, ExhaustedStop
    PROVE  LoopInv'
<1> USE DEF LoopInv
<1>1. /\ phase' = "stopped" /\ lane' = "exhausted" /\ Exhausted /\ FeedbackIsOver
      /\ UNCHANGED <<round, poolVars, memory, guidance, exploit, second>>
  BY DEF ExhaustedStop
<1>2. anchorTried
  BY AnchorInLedger DEF ExhaustedStop, AnchorIsRemembered
<1>3. ~Due
  BY <1>1, RescueOnlyWithoutDue
<1>4. \A t \in Support' : ~Untried(t)'
  BY <1>1, ExhaustedLeavesNone, WithoutReserve, SameReading DEF memory
<1>5. EarlyStopIsExhausted'
  BY <1>1, <1>2, <1>4 DEF EarlyStopIsExhausted, FeedbackIsOver, memory
<1> QED
  BY <1>1, <1>3, <1>5, StopKeeps DEF Lane, memory, TypeOK

\* What the controller proposes is dispatched only as a sanitized query.
LEMMA ProposeKeeps ==
    ASSUME LoopInv, phase = "controller",
           NEW proposal \in SUBSET pool, Cardinality(proposal) \in {1, 2},
           Propose(proposal),
           UNCHANGED <<round, poolVars, memory, guidance, second>>
    PROVE  LoopInv'
<1> USE DEF LoopInv
<1>1. PICK query \in Sanitized(proposal) :
          \/ Malformed(query) /\ phase' = "rejected" /\ exploit' = query /\ UNCHANGED lane
          \/ ~Malformed(query) /\ Decide(query, "controller")
  BY DEF Propose
<1>2. /\ query \subseteq pool /\ query # {}
      /\ \A t \in query : Untried(t) \/ t \in Fresh
      /\ Fresh # {} => query \cap Fresh # {}
  BY SanitizedQuery DEF SomethingToChoose
<1>3. NamedAgain(query) \/ IsNew(query)
  BY <1>2, SanitizedIsExplained
<1>4. Malformed(query) => ~Distinct(pool)
  BY <1>2, SanitizedIsExplained
<1>5. exploit' = query /\ phase' \in {"rejected", "plan"} /\ lane' \in Lane
  BY <1>1 DEF Decide, TypeOK, Lane
<1>6. TypeOK' /\ NamedAreActive' /\ NothingPlanned' /\ SomethingToChoose'
  BY <1>2, <1>5 DEF TypeOK, NamedAreActive, NothingPlanned, SomethingToChoose,
                    poolVars, memory, guidance
<1>7. AnchorIsRemembered'
  BY <1>2, <1>5 DEF AnchorIsRemembered, memory
<1>8. FreshIsPlanned'
  BY <1>2, <1>5, SameReading DEF FreshIsPlanned, Due, memory
<1>9. PlanIsExplained'
  <2>1. NamedAgain(query)' \/ IsNew(query)'
    BY <1>3, SameReading DEF memory
  <2> QED
    BY <1>5, <2>1 DEF PlanIsExplained, NamedAgain, IsNew, Group
<1>10. RefusalIsExplained'
  <2>1. phase' = "rejected" => Malformed(query)
    BY <1>1 DEF Decide
  <2>2. Distinct(pool)' <=> Distinct(pool)
    BY DEF Distinct, poolVars
  <2> QED
    BY <1>4, <1>5, <2>1, <2>2 DEF RefusalIsExplained
<1>11. NewRequirementIsSearched' /\ EarlyStopIsExhausted'
  BY <1>5 DEF NewRequirementIsSearched, EarlyStopIsExhausted
<1> QED
  BY <1>6, <1>7, <1>8, <1>9, <1>10, <1>11

LEMMA ControllerSearchKeeps ==
    ASSUME LoopInv, ControllerSearch
    PROVE  LoopInv'
<1>1. PICK proposal \in Proposals : Propose(proposal)
  BY DEF ControllerSearch
<1>2. proposal \in SUBSET pool /\ Cardinality(proposal) \in {1, 2}
  BY DEF Proposals
<1> QED
  BY <1>1, <1>2, ProposeKeeps DEF ControllerSearch, ControllerRules

\* A poor pool is not what a stop of the controller gives up on before the
\* budget: the controller was asked because some term is left.
LEMMA PoorPoolIsNotLeft ==
    ASSUME LoopInv, ControllerRules, Fresh = {}
    PROVE  ~RescueDue
<1> SUFFICES ASSUME RescueDue PROVE FALSE
  OBVIOUS
<1>1. Reserve = {} /\ Selectable # {}
  BY DEF ControllerRules, Helpless, LoopInv, SomethingToChoose
<1>2. PICK t \in Selectable : TRUE
  BY <1>1
<1>3. t \in Support /\ Untried(t)
  BY <1>2 DEF Selectable
<1> QED
  BY <1>1, <1>3, WithoutReserve

LEMMA ControllerStopKeeps ==
    ASSUME LoopInv, ControllerStop
    PROVE  LoopInv'
<1>1. /\ ControllerRules /\ CanStop /\ phase = "controller"
      /\ UNCHANGED <<round, poolVars, memory, guidance, second>>
  BY DEF ControllerStop, ControllerRules
<1>2. CASE Fresh = {}
  <2>1. phase' = "stopped" /\ lane' = "can_stop" /\ UNCHANGED exploit
    BY <1>2 DEF ControllerStop
  <2>2. ~BelowMinimum /\ (NearBudget \/ strength # "poor")
    BY <1>1, <1>2, PoorPoolIsNotLeft DEF CanStop, RescueDue
  <2>3. EarlyStopIsExhausted'
    BY <1>1, <2>1, <2>2 DEF EarlyStopIsExhausted, BelowMinimum, NearBudget, guidance
  <2>4. ~Due
    BY <1>2 DEF Due
  <2> QED
    BY <1>1, <2>1, <2>3, <2>4, StopKeeps DEF Lane, memory, LoopInv, TypeOK
<1>3. CASE Fresh # {}
  <2>1. PICK proposal \in Selected : Propose(proposal)
    BY <1>3 DEF ControllerStop
  <2>2. proposal \in SUBSET pool /\ Cardinality(proposal) \in {1, 2}
    BY DEF Selected, Support
  <2> QED
    BY <1>1, <2>1, <2>2, ProposeKeeps
<1> QED
  BY <1>2, <1>3

\* The second query is one untried term of another family.
LEMMA SecondIsApart ==
    ASSUME TypeOK, NEW bundle \in SecondQueries
    PROVE  \/ bundle = {}
           \/ \E t \in Terms : /\ bundle = {{t}} /\ Untried(t)
                               /\ Family[t] \notin Group(exploit)
<1>1. \A t \in Probe : t \in Terms /\ Untried(t) /\ Family[t] \notin Group(exploit)
  BY DEF Probe, Terms
<1>2. \A t \in Explore : t \in Terms /\ Untried(t) /\ Family[t] \notin Group(exploit)
  BY DEF Explore, Support, TypeOK
<1>3. bundle = {} \/ (\E t \in Probe : bundle = {{t}}) \/ (\E t \in Explore : bundle = {{t}})
  BY DEF SecondQueries
<1> QED
  BY <1>1, <1>2, <1>3

\* A new query and a second query apart from it pass the gate.
LEMMA NewBundleIsNovel ==
    ASSUME IsNew(exploit),
           NEW bundle,
           \/ bundle = {}
           \/ \E t \in Terms : /\ bundle = {{t}} /\ Untried(t)
                               /\ Family[t] \notin Group(exploit)
    PROVE  Novel({exploit} \cup bundle)
<1>1. Group(exploit) \notin sent /\ Group(exploit) \cap Consumed = {}
  BY GroupOfTerms DEF IsNew, Untried
<1>2. CASE bundle = {}
  BY <1>1, <1>2 DEF Novel
<1>3. ASSUME NEW t \in Terms, bundle = {{t}}, Untried(t), Family[t] \notin Group(exploit)
      PROVE  Novel({exploit} \cup bundle)
  <2>1. Group({t}) = {Family[t]}
    BY DEF Group
  <2>2. Group({t}) \notin sent /\ Group({t}) \cap Consumed = {}
    <3>1. IsNew({t})
      BY <1>3, UntriedIsNew
    <3> QED
      BY <1>3, <2>1, <3>1 DEF IsNew, Untried
  <2>3. Group(exploit) \cap Group({t}) = {}
    BY <1>3, <2>1
  <2>4. {exploit} \cup bundle = {exploit, {t}}
    BY <1>3
  <2> QED
    BY <1>1, <2>2, <2>3, <2>4 DEF Novel
<1> QED
  BY <1>2, <1>3

LEMMA BundleKeeps ==
    ASSUME LoopInv, Bundle
    PROVE  LoopInv'
<1> USE DEF LoopInv
<1>1. /\ phase = "plan" /\ second' \in SecondQueries
      /\ phase' \in {"dispatch", "refused"}
      /\ UNCHANGED <<round, poolVars, memory, guidance, decision>>
  BY DEF Bundle
<1>2. \/ second' = {}
      \/ \E t \in Terms : /\ second' = {{t}} /\ Untried(t)
                          /\ Family[t] \notin Group(exploit)
  BY <1>1, SecondIsApart
<1>3. second' \subseteq SUBSET Terms /\ Cardinality(second') <= 1 /\ {} \notin second'
  <2>1. CASE second' = {}
    BY <2>1, FS_EmptySet
  <2>2. ASSUME NEW t \in Terms, second' = {{t}}
        PROVE  second' \subseteq SUBSET Terms /\ Cardinality(second') <= 1 /\ {} \notin second'
    <3>1. Cardinality({{t}}) = 1
      BY FS_Singleton
    <3> QED
      BY <2>2, <3>1
  <2> QED
    BY <1>2, <2>1, <2>2
<1>4. TypeOK' /\ NamedAreActive' /\ NothingPlanned' /\ SomethingToChoose'
  BY <1>1, <1>3 DEF TypeOK, NamedAreActive, NothingPlanned, SomethingToChoose,
                    poolVars, memory, guidance, decision
<1>5. AnchorIsRemembered'
  BY <1>1, <1>3 DEF AnchorIsRemembered, Planned, memory, decision
<1>6. FreshIsPlanned' /\ NewRequirementIsSearched'
  BY <1>1, SameReading DEF FreshIsPlanned, NewRequirementIsSearched, Planned, Due,
                           memory, decision
<1>7. PlanIsExplained' /\ EarlyStopIsExhausted'
  BY <1>1 DEF PlanIsExplained, EarlyStopIsExhausted
<1>8. RefusalIsExplained'
  <2>1. phase' = "refused" => ~Novel({exploit} \cup second')
    BY DEF Bundle
  <2>2. phase' = "refused" => NamedAgain(exploit)
    BY <1>1, <1>2, <2>1, NewBundleIsNovel DEF PlanIsExplained
  <2>3. NamedAgain(exploit)' <=> NamedAgain(exploit)
    BY <1>1 DEF NamedAgain, Fresh, Consumed, sent, poolVars, memory, decision
  <2> QED
    BY <1>1, <2>2, <2>3 DEF RefusalIsExplained, NamedAgain
<1> QED
  BY <1>4, <1>5, <1>6, <1>7, <1>8

LEMMA SearchKeeps ==
    ASSUME LoopInv, Search
    PROVE  LoopInv'
<1> USE DEF LoopInv
<1>1. PICK started \in SUBSET ({exploit} \cup second), gain \in BOOLEAN :
          /\ ledger' = ledger \cup started
          /\ productive' = IF gain /\ productive < 2 THEN productive + 1 ELSE productive
  BY DEF Search
<1>2. /\ phase = "dispatch" /\ phase' \in {"done", "boundary"}
      /\ exploit' = {} /\ second' = {} /\ lane' = "none"
      /\ advised' \subseteq pool
      /\ UNCHANGED <<poolVars, feedbackTried, anchorTried, broadened>>
  BY DEF Search
<1>3. TypeOK'
  <2>1. started \subseteq SUBSET Terms
    BY DEF TypeOK
  <2>2. ledger' \subseteq SUBSET Terms
    BY <1>1, <2>1 DEF TypeOK
  <2>3. productive' \in 0 .. 2
    BY <1>1 DEF TypeOK
  <2>4. round' \in 1 .. MaxRounds
    BY SearchAssumption DEF Search, TypeOK
  <2>5. strength' \in {"poor", "usable", "strong"}
    BY DEF Search, Strengths
  <2>6. Cardinality(second') <= 1
    BY <1>2, FS_EmptySet
  <2> QED
    BY <1>2, <2>2, <2>3, <2>4, <2>5, <2>6 DEF TypeOK, poolVars, Lane
<1>4. AnchorIsRemembered'
  <2>1. {} \in started => anchorTried
    BY <1>2 DEF AnchorIsRemembered, Planned
  <2>2. {} \in ledger' => anchorTried'
    BY <1>1, <1>2, <2>1 DEF AnchorIsRemembered
  <2> QED
    BY <1>2, <2>2 DEF AnchorIsRemembered, Planned
<1>5. NamedAreActive' /\ NothingPlanned' /\ SomethingToChoose'
  BY <1>2 DEF NamedAreActive, NothingPlanned, SomethingToChoose, poolVars
<1>6. /\ FreshIsPlanned' /\ PlanIsExplained' /\ RefusalIsExplained'
      /\ NewRequirementIsSearched' /\ EarlyStopIsExhausted'
  BY <1>2 DEF FreshIsPlanned, Planned, PlanIsExplained, RefusalIsExplained,
              NewRequirementIsSearched, EarlyStopIsExhausted
<1> QED
  BY <1>3, <1>4, <1>5, <1>6

LEMMA StageFailsKeeps ==
    ASSUME LoopInv, StageFails
    PROVE  LoopInv'
<1> USE DEF LoopInv
<1>1. phase' = "failed" /\ UNCHANGED <<round, poolVars, memory, guidance, decision, second>>
  BY DEF StageFails
<1>2. TypeOK' /\ NamedAreActive' /\ NothingPlanned' /\ SomethingToChoose' /\ AnchorIsRemembered'
  BY <1>1 DEF TypeOK, NamedAreActive, NothingPlanned, SomethingToChoose, AnchorIsRemembered,
              Planned, poolVars, memory, guidance, decision
<1>3. /\ FreshIsPlanned' /\ PlanIsExplained' /\ RefusalIsExplained'
      /\ NewRequirementIsSearched' /\ EarlyStopIsExhausted'
  BY <1>1 DEF FreshIsPlanned, Planned, PlanIsExplained, RefusalIsExplained,
              NewRequirementIsSearched, EarlyStopIsExhausted
<1> QED
  BY <1>2, <1>3

-----------------------------------------------------------------------------
(* The theorems.                                                           *)

\* The first boundary satisfies the invariant.
LEMMA InitIsFine == Init => LoopInv
<1> SUFFICES ASSUME Init PROVE LoopInv
  OBVIOUS
<1>1. TypeOK
  <2>1. Cardinality(second) <= 1
    BY FS_EmptySet DEF Init
  <2>2. round \in 1 .. MaxRounds /\ revisions \in 0 .. MaxAmendments
    BY SearchAssumption DEF Init
  <2>3. pool \subseteq Terms /\ active \subseteq pool /\ blocked \subseteq RequirementTerms \ pool
    BY SearchAssumption DEF Init, Terms, RequirementTerms
  <2>4. /\ mentioned \subseteq RequirementTerms /\ advised \subseteq Terms
        /\ exploit \subseteq pool /\ second \subseteq SUBSET Terms
        /\ ledger \subseteq SUBSET Terms
    <3>1. mentioned = {} /\ advised = {} /\ exploit = {} /\ second = {} /\ ledger = {}
      BY DEF Init
    <3> QED
      BY ONLY <3>1, Zenon
  <2>5. /\ phase \in {"boundary", "preflight", "controller", "plan", "dispatch",
                     "stopped", "done", "failed", "rejected", "refused"}
        /\ strength \in {"poor", "usable", "strong"} /\ productive \in 0 .. 2
        /\ lane \in Lane
    BY SMT DEF Init, Lane
  <2>6. feedbackTried \in BOOLEAN /\ anchorTried \in BOOLEAN /\ broadened \in BOOLEAN
    BY Zenon DEF Init
  <2> QED
    BY <2>1, <2>2, <2>3, <2>4, <2>5, <2>6 DEF TypeOK
<1>2. NamedAreActive /\ NothingPlanned /\ SomethingToChoose /\ AnchorIsRemembered
  BY DEF Init, NamedAreActive, NothingPlanned, SomethingToChoose, AnchorIsRemembered, Planned
<1>3. /\ FreshIsPlanned /\ PlanIsExplained /\ RefusalIsExplained
      /\ NewRequirementIsSearched /\ EarlyStopIsExhausted
  BY DEF Init, FreshIsPlanned, Planned, PlanIsExplained, RefusalIsExplained,
         NewRequirementIsSearched, EarlyStopIsExhausted
<1> QED
  BY <1>1, <1>2, <1>3 DEF LoopInv

\* A step that changes nothing keeps every part of the invariant.
LEMMA StutterKeeps ==
    ASSUME LoopInv, UNCHANGED vars
    PROVE  LoopInv'
<1>1. UNCHANGED <<phase, round, pool, active, blocked, mentioned, revisions, ledger,
                  feedbackTried, anchorTried, broadened, advised, strength, productive,
                  exploit, lane, second>>
  BY DEF vars, poolVars, memory, guidance, decision
<1>2. TypeOK' /\ NamedAreActive' /\ NothingPlanned' /\ AnchorIsRemembered'
  BY <1>1 DEF LoopInv, TypeOK, NamedAreActive, NothingPlanned, AnchorIsRemembered, Planned
<1>3. Fresh' = Fresh /\ Consumed' = Consumed /\ Support' = Support
  BY <1>1 DEF Fresh, Consumed, sent, Support
<1>4. SomethingToChoose' /\ FreshIsPlanned' /\ NewRequirementIsSearched'
  BY <1>1, <1>3 DEF LoopInv, SomethingToChoose, Selectable, Untried, FreshIsPlanned, Planned,
                    Due, NewRequirementIsSearched
<1>5. PlanIsExplained' /\ RefusalIsExplained' /\ EarlyStopIsExhausted'
  BY <1>1, <1>3 DEF LoopInv, PlanIsExplained, NamedAgain, IsNew, sent, Group, Untried,
                    RefusalIsExplained, Distinct, EarlyStopIsExhausted, BelowMinimum,
                    NearBudget, FeedbackIsOver
<1> QED
  BY <1>2, <1>4, <1>5 DEF LoopInv

LEMMA StepKeeps == LoopInv /\ [Next]_vars => LoopInv'
<1> SUFFICES ASSUME LoopInv, Next \/ UNCHANGED vars PROVE LoopInv'
  OBVIOUS
<1> QED
  BY BoundaryKeeps, AskKeeps, ReserveRoundKeeps, FeedbackRoundKeeps, EmptyFeedbackKeeps,
     AnchorRoundKeeps, ExhaustedStopKeeps, ControllerSearchKeeps, ControllerStopKeeps,
     BundleKeeps, SearchKeeps, StageFailsKeeps, StutterKeeps DEF Next

\* Every reachable state of the loop satisfies the invariant (_run_rounds).
THEOREM LoopIsInvariant == Spec => []LoopInv
BY InitIsFine, StepKeeps, PTL DEF Spec

\* The variables of the loop keep their types, whatever the terms.
THEOREM LoopTypes == Spec => []TypeOK
<1>1. LoopInv => TypeOK
  BY DEF LoopInv
<1> QED
  BY <1>1, LoopIsInvariant, PTL

\* The gate of the dispatch (assert_novel_query_identities) refuses a bundle only
\* for a requirement named again, and sanitizing goes wrong only with aliases.
THEOREM RefusalsAreExplained == Spec => []RefusalIsExplained
<1>1. LoopInv => RefusalIsExplained
  BY DEF LoopInv
<1> QED
  BY <1>1, LoopIsInvariant, PTL

\* A requirement that becomes effective is searched in its round, whatever the
\* model proposes (_ensure_fresh_requirement_term and the rescue lanes).
THEOREM NewRequirementsAreSearched == Spec => []NewRequirementIsSearched
<1>1. LoopInv => NewRequirementIsSearched
  BY DEF LoopInv
<1> QED
  BY <1>1, LoopIsInvariant, PTL

\* The loop ends early only with nothing left to search or a pool that is good
\* enough (_build_stop_guidance, choose_pre_controller_exhaustion_route).
THEOREM EarlyStopsAreExhausted == Spec => []EarlyStopIsExhausted
<1>1. LoopInv => EarlyStopIsExhausted
  BY DEF LoopInv
<1> QED
  BY <1>1, LoopIsInvariant, PTL

=============================================================================
