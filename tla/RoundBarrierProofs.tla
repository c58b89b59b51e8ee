------------------------- MODULE RoundBarrierProofs -------------------------
(***************************************************************************)
(* The safety of RoundBarrier for any plan of lanes, targets and cards,    *)
(* any candidates seen before, and any number of crashes and of lost       *)
(* answers.                                                                *)
(*                                                                         *)
(* The invariant has two halves.  RowInv is about the rows of one lane and *)
(* holds whoever dies: which of its operations exist, for each item the    *)
(* active transition may name.  MemInv is about the attempt: where it is   *)
(* in the lane it works on, next to that lane's rows.  Every step of the   *)
(* worker changes the rows of its own lane at most.                        *)
(***************************************************************************)
EXTENDS RoundBarrier, FiniteSetTheorems, WellFoundedInduction, TLAPS

Phases == {"absent", "pending", "acked", "observed", "committed", "unknown",
           "safe_retry", "concluded"}

Absent(l, i) == op[l][i].phase = "absent"
Committed(l, i) == op[l][i].phase = "committed"

\* The captures of a lane that opened a resume, settled or not.
OkCaptures(l) == {k \in Ranks : op[l][Capture(k)].res = "ok"}

MemTypes ==
    [pc : {"idle", "lanes", "item", "preparing", "ready", "send", "ack", "observe",
           "settled", "captures", "complete", "skips", "checkpoint"},
     lane : Lanes \cup {0}, item : Items \cup {Capture(0)},
     mode : {"search", "resume", "queue"}, opened : Ranks \cup {0},
     skips : SUBSET Lanes, resumed : BOOLEAN, prepared : BOOLEAN, stop : BOOLEAN]

-----------------------------------------------------------------------------
(* The rows of a lane.                                                     *)

\* Only the item of the active transition may be under way, and an operation is
\* authorized once more for every answer that was lost.
RowOperations(l) ==
    \A i \in Items :
        /\ Absent(l, i) => op[l][i] = NoOperation
        /\ i # at[l] => Absent(l, i) \/ Committed(l, i)
        /\ op[l][i].ord <= unknowns + 1
        /\ op[l][i].phase \in {"unknown", "safe_retry"} => op[l][i].ord <= unknowns

\* What the step of the transition says of the lane and of the operation it names.
RowShape(l) ==
    /\ step[l] = "none" =>
          /\ lane[l] \in {"pending", "skipped"} /\ at[l] = Cards /\ epoch[l] = 0
          /\ Absent(l, Cards)
    /\ step[l] = "source_dispatch" =>
          /\ lane[l] = "active" /\ at[l] = Cards /\ ~Committed(l, Cards)
          /\ epoch[l] = op[l][Cards].ord
    /\ step[l] = "detail_queued" =>
          /\ lane[l] = "active" /\ at[l] # Cards /\ Absent(l, at[l])
    /\ step[l] = "detail_dispatch" =>
          /\ lane[l] = "active" /\ at[l] # Cards
          /\ ~Absent(l, at[l]) /\ ~Committed(l, at[l])
          /\ epoch[l] = op[l][at[l]].ord
    /\ step[l] = "lane_completed" =>
          /\ lane[l] = "completed" /\ Committed(l, at[l])

\* The order of the items: cards, locators, captures of those with a locator.
RowOrder(l) ==
    /\ found[l] <= MaxCards[l]
    /\ at[l] # Cards => want[l] > 0 /\ Committed(l, Cards)
    /\ at[l] = Cards => \A i \in Items \ {Cards} : Absent(l, i)
    /\ \A k \in Ranks : at[l] = Locator(k) =>
          /\ k <= found[l]
          /\ \A j \in Ranks : j < k => Committed(l, Locator(j))
          /\ \A j \in Ranks : j > k => Absent(l, Locator(j))
          /\ \A j \in Ranks : Absent(l, Capture(j))
    /\ \A k \in Ranks : at[l] = Capture(k) =>
          /\ k <= found[l]
          /\ \A j \in 1 .. found[l] : Committed(l, Locator(j))
          /\ \A j \in Ranks : j > k => Absent(l, Capture(j))
          /\ \A j \in CapturePlan(l) :
                j < k /\ <<l, j>> \notin Seen => Committed(l, Capture(j))
          /\ Cardinality(OkCaptures(l) \ {k}) < want[l]

RowInv(l) == RowOperations(l) /\ RowShape(l) /\ RowOrder(l)

-----------------------------------------------------------------------------
(* The attempt.                                                            *)

OnItem == mem.pc \in {"item", "preparing", "ready", "send", "ack", "observe", "settled"}
InLane == OnItem \/ mem.pc \in {"captures", "complete"}

\* The lane at work is not settled, and its target was not met when it began.
LaneIsOpen ==
    InLane =>
        /\ Here \in Lanes
        /\ mem.mode = "search" => Remaining(Here) > 0

\* A lane to be skipped was passed and left alone.
SkipsArePending ==
    \A s \in mem.skips : lane[s] = "pending" /\ s <= mem.lane /\ (InLane => s < mem.lane)

\* Nothing of a round is written before its barrier, nor after its run has ended.
RoundIsOpen ==
    /\ run \notin {"starting", "running"} => mem = Idle
    /\ mem.pc = "idle" => mem = Idle
    /\ barrier = "none" => /\ \A l \in Lanes : lane[l] = "pending"
                           /\ mem.lane = 0 /\ mem.skips = {}

\* The item is the one the transition names, or follows it and is untouched.
Follows(l, i) ==
    /\ Absent(l, i) /\ at[l] # Cards
    /\ step[l] \in {"detail_queued", "detail_dispatch"}
    /\ \/ \E k \in Ranks : at[l] = Locator(k) /\ i = Locator(k + 1) /\ k < found[l]
       \/ \E k \in Ranks :
            /\ i = Capture(k) /\ k <= found[l]
            /\ \/ at[l] = Locator(found[l])
               \/ \E r \in Ranks : r < k /\ at[l] = Capture(r)
            /\ \A j \in CapturePlan(l) :
                  j < k /\ <<l, j>> \notin Seen => Committed(l, Capture(j)) \/ at[l] = Capture(j)

ItemIsNext ==
    OnItem =>
        /\ mem.item \in Items
        /\ \/ mem.item = at[Here] /\ step[Here] # "lane_completed"
           \/ mem.pc = "item" /\ mem.mode # "resume" /\ Follows(Here, mem.item)
        /\ mem.item = Cards => mem.mode = "search" /\ lane[Here] # "skipped"
        /\ mem.item # Cards => step[Here] \in {"detail_queued", "detail_dispatch"}

\* Where the exchange about the item is.
ExchangeIsKnown ==
    /\ mem.pc = "preparing" => mem.item = Cards
    /\ mem.pc = "ready" => /\ Absent(Here, mem.item)
                           /\ mem.item = Cards => step[Here] = "source_dispatch"
    /\ mem.pc \in {"send", "ack"} => Op.phase = "pending"
    /\ mem.pc = "observe" => /\ Op.phase \in {"pending", "acked"}
                             /\ mem.stop => Op.ord <= unknowns
    /\ mem.pc = "settled" => Op.phase \in {"absent", "observed"}
    /\ InLane /\ mem.stop => mem.pc = "observe"

\* The counter of the search covers what is open already.
OpenedIsCounted ==
    /\ OnItem /\ mem.item[1] # "capture" => mem.opened = 0
    /\ OnItem /\ mem.mode # "resume" => \A k \in Ranks : mem.item = Capture(k) =>
          /\ mem.opened < k /\ mem.opened < want[Here]
          /\ Cardinality(OkCaptures(Here) \ {k}) <= mem.opened
    /\ mem.pc = "captures" =>
          /\ mem.mode # "resume" /\ step[Here] \in {"detail_queued", "detail_dispatch"}
          /\ Cardinality(OkCaptures(Here)) <= mem.opened
          /\ \E r \in 0 .. found[Here] :
                /\ mem.item = Capture(r) /\ mem.opened <= r
                /\ r > 0 => at[Here] = Capture(r)
                /\ r = 0 => \/ at[Here] = Locator(found[Here])
                            \/ \E m \in CapturePlan(Here) :
                                  /\ at[Here] = Capture(m) /\ step[Here] = "detail_queued"
                                  /\ \A j \in CapturePlan(Here) : m <= j

MemInv ==
    /\ LaneIsOpen /\ SkipsArePending /\ RoundIsOpen
    /\ ItemIsNext /\ ExchangeIsKnown /\ OpenedIsCounted

RoundInv == TypeOK /\ (\A l \in Lanes : RowInv(l)) /\ MemInv

-----------------------------------------------------------------------------
(* Numbers, sets and items.                                                *)

\* A finite set of numbers has a greatest member: the one with the fewest above it.
LEMMA GreatestExists ==
    ASSUME NEW S, S \subseteq Nat, IsFiniteSet(S), S # {}
    PROVE  \E x \in S : \A y \in S : x >= y
<1> DEFINE Above(x) == {y \in S : y > x}
           Family == {Above(x) : x \in S}
           R == StrictSubsetOrdering(S)
<1>1. IsWellFoundedOn(R, FiniteSubsetsOf(S))
  BY FS_StrictSubsetOrderingWellFounded
<1>2. Family \subseteq FiniteSubsetsOf(S) /\ Family # {}
  <2>1. FiniteSubsetsOf(S) = SUBSET S
    BY FS_FiniteSubsetsOfFinite
  <2>2. \A T \in Family : T \in SUBSET S
    OBVIOUS
  <2>3. PICK x \in S : TRUE
    OBVIOUS
  <2>4. Above(x) \in Family
    BY <2>3
  <2> HIDE DEF Above, Family
  <2> QED
    BY <2>1, <2>2, <2>4
<1>3. PICK T \in Family : \A U \in Family : ~(<<U, T>> \in R)
  <2> HIDE DEF Family, R
  <2> QED
    BY <1>1, <1>2, WFMin
<1>4. PICK x \in S : T = Above(x)
  BY <1>3
<1>5. ASSUME NEW y \in S, y > x
      PROVE  FALSE
  <2>1. x \in Nat /\ y \in Nat
    BY <1>4, <1>5
  <2>2. Above(y) \in Family /\ y \in Above(x) /\ y \notin Above(y)
    BY <1>5, <2>1
  <2>3. Above(y) \subseteq Above(x)
    <3> SUFFICES ASSUME NEW z \in S, z > y
                 PROVE  z > x
      OBVIOUS
    <3>1. z \in Nat
      OBVIOUS
    <3> QED
      BY <1>5, <2>1, <3>1
  <2>4. <<Above(y), T>> \in R
    BY <1>4, <2>2, <2>3 DEF StrictSubsetOrdering
  <2> QED
    BY <1>3, <2>2, <2>4
<1> QED
  BY <1>4, <1>5

\* The least member of a nonempty set of numbers.
LEMMA MinIsLeast ==
    ASSUME NEW S, S \subseteq Nat, S # {}
    PROVE  Min(S) \in S /\ \A y \in S : Min(S) <= y
<1> DEFINE R == {ss \in Nat \X Nat : ss[1] < ss[2]}
<1>1. IsWellFoundedOn(R, Nat)
  BY NatLessThanWellFounded DEF OpToRel
<1>2. \A m, n \in Nat : n < m => <<n, m>> \in R
  OBVIOUS
<1> HIDE DEF R
<1>3. PICK x \in S : \A y \in S : ~(<<y, x>> \in R)
  BY <1>1, WFMin
<1>4. ASSUME NEW y \in S
      PROVE  x <= y
  <2>1. x \in Nat /\ y \in Nat
    OBVIOUS
  <2>2. ~(y < x)
    BY <1>2, <1>3, <2>1
  <2> QED
    BY <2>1, <2>2
<1> QED
  BY <1>3, <1>4 DEF Min

\* Ranks is an initial segment that has every rank of every lane.
LEMMA RanksAreInterval ==
    \E n \in Nat : Ranks = 1 .. n /\ \A l \in Lanes : MaxCards[l] <= n
<1> DEFINE S == {MaxCards[l] : l \in Lanes} \cup {0}
           M == Max(S)
<1>1. S \subseteq Nat /\ 0 \in S
  BY PlanAssumption
<1>2. IsFiniteSet(S)
  <2>1. IsFiniteSet(Lanes)
    BY PlanAssumption, FS_Interval DEF Lanes
  <2> DEFINE f == [l \in Lanes |-> MaxCards[l]]
             T == {MaxCards[l] : l \in Lanes}
  <2>2. f \in Surjection(Lanes, T)
    BY DEF Surjection
  <2>3. IsFiniteSet(T)
    BY <2>1, <2>2, FS_Surjection
  <2> QED
    BY <2>3, FS_AddElement
<1>3. M \in S /\ \A y \in S : M >= y
  <2>1. \E x \in S : \A y \in S : x >= y
    BY <1>1, <1>2, GreatestExists
  <2> HIDE DEF S
  <2> QED
    BY <2>1 DEF Max
<1>4. Ranks = 1 .. M
  BY DEF Ranks
<1> HIDE DEF M
<1>5. \A l \in Lanes : MaxCards[l] <= M
  BY <1>3
<1> QED
  BY <1>1, <1>3, <1>4, <1>5

\* What the proofs use of the ranks.
LEMMA RankFacts ==
    /\ Ranks \subseteq Nat \ {0} /\ IsFiniteSet(Ranks)
    /\ \A k \in Ranks : \A j \in 1 .. k : j \in Ranks
    /\ \A l \in Lanes : MaxCards[l] \in Nat /\ 1 .. MaxCards[l] \subseteq Ranks
<1>1. PICK n \in Nat : Ranks = 1 .. n /\ \A l \in Lanes : MaxCards[l] <= n
  BY RanksAreInterval
<1>2. IsFiniteSet(1 .. n)
  BY FS_Interval
<1>3. \A l \in Lanes : MaxCards[l] \in Nat
  BY PlanAssumption
<1> QED
  BY <1>1, <1>2, <1>3

\* A set of numbers up to k has at most k members.
LEMMA CountUpTo ==
    ASSUME NEW k \in Nat, NEW S, S \subseteq 1 .. k
    PROVE  IsFiniteSet(S) /\ Cardinality(S) \in Nat /\ Cardinality(S) <= k
<1>1. IsFiniteSet(1 .. k) /\ Cardinality(1 .. k) = k
  BY FS_Interval
<1> QED
  BY <1>1, FS_Subset, FS_CardinalityType

\* An item is the cards, one locator or one capture.
LEMMA ItemKinds ==
    /\ Cards \in Items
    /\ \A k \in Ranks : Locator(k) \in Items /\ Capture(k) \in Items
    /\ \A i \in Items : \/ i = Cards
                        \/ \E k \in Ranks : i = Locator(k)
                        \/ \E k \in Ranks : i = Capture(k)
BY DEF Items

\* Items of different kinds or ranks are different items.
LEMMA ItemNames ==
    /\ Cards[1] = "cards"
    /\ \A k : Locator(k)[1] = "locator" /\ Locator(k)[2] = k /\ Locator(k) # Cards
    /\ \A k : Capture(k)[1] = "capture" /\ Capture(k)[2] = k /\ Capture(k) # Cards
    /\ \A j, k : Locator(j) # Capture(k)
    /\ \A j, k : Locator(j) = Locator(k) => j = k
    /\ \A j, k : Capture(j) = Capture(k) => j = k
BY DEF Cards, Locator, Capture

-----------------------------------------------------------------------------
(* Changing one operation.                                                 *)

Operation == [phase : Phases, ord : 0 .. (MaxUnknowns + 1), res : {"none", "ok", "failed"}]

\* A step that replaces one operation leaves all others alone.
LEMMA OperationReplaced ==
    ASSUME TypeOK, NEW l \in Lanes, NEW i \in Items, NEW o \in Operation,
           op' = [op EXCEPT ![l][i] = o]
    PROVE  /\ op' \in [Lanes -> [Items -> Operation]]
           /\ op'[l][i] = o
           /\ \A j \in Items \ {i} : op'[l][j] = op[l][j]
           /\ \A m \in Lanes \ {l} : op'[m] = op[m]
BY DEF TypeOK, Operation, Phases

\* A step that gives an operation another phase.
LEMMA PhaseReplaced ==
    ASSUME TypeOK, NEW l \in Lanes, NEW i \in Items, NEW p \in Phases,
           op' = [op EXCEPT ![l][i].phase = p]
    PROVE  /\ op' \in [Lanes -> [Items -> Operation]]
           /\ op'[l][i].phase = p
           /\ op'[l][i].ord = op[l][i].ord /\ op'[l][i].res = op[l][i].res
           /\ \A j \in Items \ {i} : op'[l][j] = op[l][j]
           /\ \A m \in Lanes \ {l} : op'[m] = op[m]
<1>1. op \in [Lanes -> [Items -> Operation]]
  BY DEF TypeOK, Operation, Phases
<1>2. op' = [op EXCEPT ![l] = [op[l] EXCEPT ![i] = [op[l][i] EXCEPT !.phase = p]]]
  OBVIOUS
<1> DEFINE o == [op[l][i] EXCEPT !.phase = p]
<1>3. o \in Operation /\ o.phase = p /\ o.ord = op[l][i].ord /\ o.res = op[l][i].res
  <2>1. op[l][i] \in Operation
    BY <1>1
  <2> QED
    BY <2>1 DEF Operation
<1>4. op' = [op EXCEPT ![l] = [op[l] EXCEPT ![i] = o]]
  BY <1>2
<1> HIDE DEF o
<1>5. PICK q \in Operation : q = o
  BY <1>3
<1>6. op' = [op EXCEPT ![l][i] = q]
  BY <1>4, <1>5
<1>7. /\ op' \in [Lanes -> [Items -> Operation]] /\ op'[l][i] = q
      /\ \A j \in Items \ {i} : op'[l][j] = op[l][j]
      /\ \A m \in Lanes \ {l} : op'[m] = op[m]
  BY <1>1, <1>6
<1> QED
  BY <1>3, <1>5, <1>7

\* A step of the sidecar: the operation gets its result.
LEMMA ResultReplaced ==
    ASSUME TypeOK, NEW l \in Lanes, NEW i \in Items, NEW r \in {"ok", "failed"},
           op' = [op EXCEPT ![l][i].res = r]
    PROVE  /\ op' \in [Lanes -> [Items -> Operation]]
           /\ op'[l][i].res = r
           /\ op'[l][i].ord = op[l][i].ord /\ op'[l][i].phase = op[l][i].phase
           /\ \A j \in Items \ {i} : op'[l][j] = op[l][j]
           /\ \A m \in Lanes \ {l} : op'[m] = op[m]
<1>1. op \in [Lanes -> [Items -> Operation]]
  BY DEF TypeOK, Operation, Phases
<1>2. op' = [op EXCEPT ![l] = [op[l] EXCEPT ![i] = [op[l][i] EXCEPT !.res = r]]]
  OBVIOUS
<1> DEFINE o == [op[l][i] EXCEPT !.res = r]
<1>3. o \in Operation /\ o.res = r /\ o.ord = op[l][i].ord /\ o.phase = op[l][i].phase
  <2>1. op[l][i] \in Operation
    BY <1>1
  <2> QED
    BY <2>1 DEF Operation
<1>4. op' = [op EXCEPT ![l] = [op[l] EXCEPT ![i] = o]]
  BY <1>2
<1> HIDE DEF o
<1>5. PICK q \in Operation : q = o
  BY <1>3
<1>6. op' = [op EXCEPT ![l][i] = q]
  BY <1>4, <1>5
<1>7. /\ op' \in [Lanes -> [Items -> Operation]] /\ op'[l][i] = q
      /\ \A j \in Items \ {i} : op'[l][j] = op[l][j]
      /\ \A m \in Lanes \ {l} : op'[m] = op[m]
  BY <1>1, <1>6
<1> QED
  BY <1>3, <1>5, <1>7

-----------------------------------------------------------------------------
(* What a lane may still open.                                             *)

\* Every card a lane found has a rank.
LEMMA FoundHaveRanks ==
    ASSUME TypeOK, NEW l \in Lanes
    PROVE  found[l] \in Nat /\ 1 .. found[l] \subseteq Ranks
<1>1. found[l] \in Ranks \cup {0}
  BY DEF TypeOK
<1>2. CASE found[l] = 0
  BY <1>2
<1>3. CASE found[l] \in Ranks
  <2>1. \A k \in Ranks : k \in Nat /\ 1 .. k \subseteq Ranks
    BY RankFacts
  <2> QED
    BY <1>3, <2>1
<1> QED
  BY <1>1, <1>2, <1>3

\* The remaining target is a number, the whole target at most.
LEMMA RemainingIsBounded ==
    ASSUME TypeOK, NEW l \in Lanes
    PROVE  Remaining(l) \in 0 .. Target[l]
<1> DEFINE earlier == {m \in 1 .. (l - 1) : Query[m] = Query[l] /\ lane[m] = "completed"}
           opened == UNION {{m} \X Opened(m) : m \in earlier}
<1>1. Remaining(l) = IF Cardinality(opened) >= Target[l] THEN 0
                                                         ELSE Target[l] - Cardinality(opened)
  BY DEF Remaining
<1>2. IsFiniteSet(opened)
  <2>1. \A m \in earlier : m \in Lanes /\ Opened(m) \subseteq Ranks
    <3> SUFFICES ASSUME NEW m \in earlier
                 PROVE  m \in Lanes /\ Opened(m) \subseteq Ranks
      OBVIOUS
    <3>1. m \in Lanes
      BY PlanAssumption DEF Lanes
    <3>2. 1 .. found[m] \subseteq Ranks
      BY <3>1, FoundHaveRanks
    <3> QED
      BY <3>1, <3>2 DEF Opened, SettledCaptures
  <2>2. opened \subseteq Lanes \X Ranks
    <3> HIDE DEF earlier
    <3> QED
      BY <2>1
  <2>3. IsFiniteSet(Lanes \X Ranks)
    <3>1. IsFiniteSet(Lanes)
      BY PlanAssumption, FS_Interval DEF Lanes
    <3> QED
      BY <3>1, RankFacts, FS_Product
  <2> QED
    BY <2>2, <2>3, FS_Subset
<1>3. Cardinality(opened) \in Nat
  BY <1>2, FS_CardinalityType
<1>4. Target[l] \in Nat
  BY PlanAssumption
<1> HIDE DEF opened
<1> QED
  BY <1>1, <1>3, <1>4

\* It depends on the lanes before it only.
LEMMA RemainingIsKept ==
    ASSUME NEW l \in Lanes,
           \A m \in Lanes : m < l => /\ lane'[m] = lane[m] /\ op'[m] = op[m]
                                     /\ found'[m] = found[m]
    PROVE  Remaining(l)' = Remaining(l)
<1> DEFINE earlier == {m \in 1 .. (l - 1) : Query[m] = Query[l] /\ lane[m] = "completed"}
           opened == UNION {{m} \X Opened(m) : m \in earlier}
<1>1. \A m \in 1 .. (l - 1) : m \in Lanes /\ m < l
  BY PlanAssumption DEF Lanes
<1>2. earlier' = earlier
  <2>1. earlier' = {m \in 1 .. (l - 1) : Query[m] = Query[l] /\ lane'[m] = "completed"}
    OBVIOUS
  <2>2. \A m \in 1 .. (l - 1) : lane'[m] = lane[m]
    BY <1>1
  <2> QED
    BY <2>1, <2>2
<1>3. \A m \in earlier : Opened(m)' = Opened(m)
  <2> SUFFICES ASSUME NEW m \in 1 .. (l - 1)
               PROVE  Opened(m)' = Opened(m)
    OBVIOUS
  <2>1. op'[m] = op[m] /\ found'[m] = found[m]
    BY <1>1
  <2>2. SettledCaptures(m)' = SettledCaptures(m)
    BY <2>1 DEF SettledCaptures, Settled
  <2> QED
    BY <2>1, <2>2 DEF Opened
<1>4. opened' = opened
  <2>1. opened' = UNION {{m} \X Opened(m)' : m \in earlier'}
    OBVIOUS
  <2>2. {{m} \X Opened(m)' : m \in earlier'} = {{m} \X Opened(m) : m \in earlier}
    <3> HIDE DEF earlier
    <3> QED
      BY <1>2, <1>3
  <2> QED
    BY <2>1, <2>2
<1> HIDE DEF opened
<1>5. Remaining(l) = IF Cardinality(opened) >= Target[l] THEN 0
                                                         ELSE Target[l] - Cardinality(opened)
  BY DEF Remaining, opened
<1>6. Remaining(l)' = IF Cardinality(opened') >= Target[l] THEN 0
                                                         ELSE Target[l] - Cardinality(opened')
  BY DEF Remaining, opened
<1> QED
  BY <1>4, <1>5, <1>6


-----------------------------------------------------------------------------
(* Steps on the rows of a lane.                                            *)

\* The rows of a lane the step leaves alone.
SameRow(m) ==
    /\ lane'[m] = lane[m] /\ step'[m] = step[m] /\ at'[m] = at[m] /\ epoch'[m] = epoch[m]
    /\ op'[m] = op[m] /\ found'[m] = found[m] /\ want'[m] = want[m]

\* A lane whose rows stay keeps its invariant.
LEMMA RowKept ==
    ASSUME TypeOK, NEW m \in Lanes, RowInv(m), SameRow(m),
           unknowns' \in Nat, unknowns' >= unknowns
    PROVE  RowInv(m)'
<1>1. OkCaptures(m)' = OkCaptures(m)
  BY DEF OkCaptures, SameRow
<1>2. CapturePlan(m)' = CapturePlan(m)
  BY DEF CapturePlan, Settled, SameRow
<1>3. RowOperations(m)'
  <2> SUFFICES ASSUME NEW i \in Items
               PROVE  /\ Absent(m, i)' => op'[m][i] = NoOperation
                      /\ i # at'[m] => Absent(m, i)' \/ Committed(m, i)'
                      /\ op'[m][i].ord <= unknowns' + 1
                      /\ op'[m][i].phase \in {"unknown", "safe_retry"} =>
                            op'[m][i].ord <= unknowns'
    BY DEF RowOperations
  <2>1. op[m][i].ord \in Nat /\ unknowns \in Nat
    BY DEF TypeOK
  <2> QED
    BY <2>1 DEF RowInv, RowOperations, SameRow, Absent, Committed
<1>4. RowShape(m)'
  BY DEF RowInv, RowShape, SameRow, Absent, Committed
<1>5. RowOrder(m)'
  BY <1>1, <1>2 DEF RowInv, RowOrder, SameRow, Absent, Committed
<1> QED
  BY <1>3, <1>4, <1>5 DEF RowInv

\* Steps that write no row, and steps that write those of one lane.
LEMMA RowsKept ==
    ASSUME RoundInv, UNCHANGED <<transitions, ops, want, unknowns>>
    PROVE  \A m \in Lanes : RowInv(m)'
<1>1. unknowns' \in Nat /\ unknowns' >= unknowns
  BY DEF RoundInv, TypeOK
<1>2. \A m \in Lanes : SameRow(m)
  BY DEF SameRow, transitions, ops
<1> QED
  BY <1>1, <1>2, RowKept DEF RoundInv

\* A step that touches one lane owes the others nothing.
LEMMA OneRow ==
    ASSUME RoundInv, NEW l \in Lanes, \A m \in Lanes \ {l} : SameRow(m),
           unknowns' \in Nat, unknowns' >= unknowns, RowInv(l)'
    PROVE  \A m \in Lanes : RowInv(m)'
BY RowKept DEF RoundInv

\* An exchange about the item of the transition: the operation is accepted, gets
\* its result, or moves to another phase before it is committed.
LEMMA RowExchanged ==
    ASSUME TypeOK, NEW l \in Lanes, RowInv(l), NEW i \in Items, i = at[l],
           lane[l] = "active", lane'[l] = "active", at'[l] = at[l], want'[l] = want[l],
           step'[l] = IF i = Cards THEN "source_dispatch" ELSE "detail_dispatch",
           \A j \in Items \ {i} : op'[l][j] = op[l][j],
           op'[l][i] \in Operation, op'[l][i].phase \notin {"absent", "committed"},
           epoch'[l] = op'[l][i].ord, op'[l][i].ord <= unknowns' + 1,
           op'[l][i].phase \in {"unknown", "safe_retry"} => op'[l][i].ord <= unknowns',
           found'[l] = found[l] \/ (i = Cards /\ found'[l] <= MaxCards[l]),
           unknowns' \in Nat, unknowns' >= unknowns
    PROVE  RowInv(l)'
<1> USE DEF Absent, Committed
<1>1. RowOperations(l)'
  <2> SUFFICES ASSUME NEW j \in Items
               PROVE  /\ Absent(l, j)' => op'[l][j] = NoOperation
                      /\ j # at'[l] => Absent(l, j)' \/ Committed(l, j)'
                      /\ op'[l][j].ord <= unknowns' + 1
                      /\ op'[l][j].phase \in {"unknown", "safe_retry"} =>
                            op'[l][j].ord <= unknowns'
    BY DEF RowOperations
  <2>1. CASE j = i
    BY <2>1
  <2>2. CASE j # i
    <3>1. op[l][j].ord \in Nat /\ unknowns \in Nat
      BY DEF TypeOK
    <3> QED
      BY <2>2, <3>1 DEF RowInv, RowOperations
  <2> QED
    BY <2>1, <2>2
<1>2. RowShape(l)'
  BY DEF RowShape
<1>3. RowOrder(l)'
  <2>1. found'[l] <= MaxCards[l]
    BY DEF RowInv, RowOrder
  <2>2. CASE i = Cards
    BY <2>1, <2>2, ItemNames DEF RowInv, RowOrder
  <2>3. ASSUME NEW k \in Ranks, i = Locator(k)
        PROVE  RowOrder(l)'
    BY <2>1, <2>3, ItemKinds, ItemNames DEF RowInv, RowOrder
  <2>4. ASSUME NEW k \in Ranks, i = Capture(k)
        PROVE  RowOrder(l)'
    <3>1. found'[l] = found[l] /\ \A j \in Ranks : Locator(j) # i /\ (j # k => Capture(j) # i)
      BY <2>4, ItemNames
    <3>2. 1 .. found[l] \subseteq Ranks
      BY FoundHaveRanks
    <3>3. CapturePlan(l)' = CapturePlan(l)
      BY <3>1, <3>2, ItemKinds DEF CapturePlan, Settled
    <3>4. OkCaptures(l)' \ {k} = OkCaptures(l) \ {k}
      BY <3>1, ItemKinds DEF OkCaptures
    <3>5. at'[l] = Capture(k) /\ at'[l] # Cards /\ (\A j : at'[l] # Locator(j))
          /\ \A j : at'[l] = Capture(j) => j = k
      BY <2>4, ItemNames
    <3>6. /\ want[l] > 0 /\ Committed(l, Cards) /\ k <= found[l]
          /\ \A j \in 1 .. found[l] : Committed(l, Locator(j))
          /\ \A j \in Ranks : j > k => Absent(l, Capture(j))
          /\ \A j \in CapturePlan(l) :
                j < k /\ <<l, j>> \notin Seen => Committed(l, Capture(j))
          /\ Cardinality(OkCaptures(l) \ {k}) < want[l]
      BY <3>5 DEF RowInv, RowOrder
    <3>7. \A j \in CapturePlan(l) : j \in Ranks
      BY <3>2 DEF CapturePlan
    <3>8. k \in Nat /\ \A j \in Ranks : j \in Nat
      BY RankFacts
    <3> HIDE DEF Absent, Committed
    <3>9. /\ Committed(l, Cards)'
          /\ \A j \in 1 .. found[l] : Committed(l, Locator(j))'
          /\ \A j \in Ranks : j > k => Absent(l, Capture(j))'
          /\ \A j \in CapturePlan(l) :
                j < k /\ <<l, j>> \notin Seen => Committed(l, Capture(j))'
      <4>1. \A j \in Items \ {i} : /\ Committed(l, j)' <=> Committed(l, j)
                                   /\ Absent(l, j)' <=> Absent(l, j)
        BY DEF Absent, Committed
      <4>2. Cards \in Items \ {i}
            /\ (\A j \in Ranks : Locator(j) \in Items \ {i})
            /\ \A j \in Ranks : j # k => Capture(j) \in Items \ {i}
        BY <2>4, <3>1, ItemKinds, ItemNames
      <4>3. Committed(l, Cards)' /\ \A j \in 1 .. found[l] : Committed(l, Locator(j))'
        BY <3>2, <3>6, <4>1, <4>2
      <4>4. \A j \in Ranks : j > k => Absent(l, Capture(j))'
        BY <3>6, <3>8, <4>1, <4>2
      <4>5. \A j \in CapturePlan(l) :
                j < k /\ <<l, j>> \notin Seen => Committed(l, Capture(j))'
        <5> SUFFICES ASSUME NEW j \in CapturePlan(l), j < k, <<l, j>> \notin Seen
                     PROVE  Committed(l, Capture(j))'
          OBVIOUS
        <5>1. j \in Ranks /\ j # k /\ Committed(l, Capture(j))
          BY <3>6, <3>7, <3>8
        <5> QED
          BY <4>1, <4>2, <5>1
      <4> QED
        BY <4>3, <4>4, <4>5
    <3> QED
      BY <2>1, <3>1, <3>3, <3>4, <3>5, <3>6, <3>9 DEF RowOrder
  <2> QED
    BY <2>2, <2>3, <2>4, ItemKinds
<1> QED
  BY <1>1, <1>2, <1>3 DEF RowInv

\* An item whose capture was never accepted has opened nothing.
LEMMA NothingOpened ==
    ASSUME TypeOK, NEW l \in Lanes, RowInv(l), \A j \in Ranks : Absent(l, Capture(j))
    PROVE  OkCaptures(l) = {}
<1>1. \A j \in Ranks : op[l][Capture(j)] = NoOperation
  BY ItemKinds DEF RowInv, RowOperations
<1> QED
  BY <1>1 DEF OkCaptures, NoOperation

\* What the order of the items says of the first capture and of a later one.
LEMMA OrderAtCapture ==
    ASSUME NEW l \in Lanes, NEW k \in Ranks, at[l] = Capture(k), RowInv(l)
    PROVE  /\ want[l] > 0 /\ Committed(l, Cards) /\ k <= found[l]
           /\ \A j \in 1 .. found[l] : Committed(l, Locator(j))
           /\ \A j \in Ranks : j > k => Absent(l, Capture(j))
           /\ \A j \in CapturePlan(l) :
                 j < k /\ <<l, j>> \notin Seen => Committed(l, Capture(j))
           /\ Cardinality(OkCaptures(l) \ {k}) < want[l]
BY ItemNames DEF RowInv, RowOrder

\* What the order of the items says at a locator.
LEMMA OrderAtLocator ==
    ASSUME NEW l \in Lanes, NEW k \in Ranks, at[l] = Locator(k), RowInv(l)
    PROVE  /\ want[l] > 0 /\ Committed(l, Cards) /\ k <= found[l]
           /\ \A j \in Ranks : j < k => Committed(l, Locator(j))
           /\ \A j \in Ranks : j > k => Absent(l, Locator(j))
           /\ \A j \in Ranks : Absent(l, Capture(j))
BY ItemNames DEF RowInv, RowOrder

\* The converse, for the step that moves to the item.
LEMMA OrderOfCapture ==
    ASSUME NEW l \in Lanes, NEW k \in Ranks, at'[l] = Capture(k),
           found'[l] <= MaxCards[l], want'[l] > 0, Committed(l, Cards)', k <= found'[l],
           \A j \in 1 .. found'[l] : Committed(l, Locator(j))',
           \A j \in Ranks : j > k => Absent(l, Capture(j))',
           \A j \in CapturePlan(l)' :
                 j < k /\ <<l, j>> \notin Seen => Committed(l, Capture(j))',
           Cardinality(OkCaptures(l)' \ {k}) < want'[l]
    PROVE  RowOrder(l)'
<1>1. /\ at'[l] # Cards /\ \A j : at'[l] # Locator(j)
      /\ \A j : at'[l] = Capture(j) => j = k
  BY ItemNames
<1> QED
  BY <1>1 DEF RowOrder

\* The converse, for the step that moves to a locator.
LEMMA OrderOfLocator ==
    ASSUME NEW l \in Lanes, NEW k \in Ranks, at'[l] = Locator(k),
           found'[l] <= MaxCards[l], want'[l] > 0, Committed(l, Cards)', k <= found'[l],
           \A j \in Ranks : j < k => Committed(l, Locator(j))',
           \A j \in Ranks : j > k => Absent(l, Locator(j))',
           \A j \in Ranks : Absent(l, Capture(j))'
    PROVE  RowOrder(l)'
<1>1. /\ at'[l] # Cards /\ \A j : at'[l] # Capture(j)
      /\ \A j : at'[l] = Locator(j) => j = k
  BY ItemNames
<1> QED
  BY <1>1 DEF RowOrder

\* The next item is queued and the one before committed.
LEMMA RowQueued ==
    ASSUME TypeOK, NEW l \in Lanes, RowInv(l), NEW i \in Items, i # Cards, Absent(l, i),
           Queue(l, i), unknowns' = unknowns, want'[l] > 0,
           \/ at[l] = Cards /\ i = Locator(1) /\ found[l] > 0
           \/ /\ Follows(l, i) /\ want'[l] = want[l]
              /\ \A k \in Ranks : i = Capture(k) => Cardinality(OkCaptures(l) \ {k}) < want[l]
    PROVE  RowInv(l)'
<1>1. /\ at[l] \in Items /\ op[l][at[l]].phase = "observed"
      /\ op' = [op EXCEPT ![l][at[l]].phase = "committed"]
      /\ lane' = lane /\ found' = found
      /\ step'[l] = "detail_queued" /\ at'[l] = i /\ epoch'[l] = 0
  BY DEF Queue, TypeOK
<1>2. /\ lane[l] = "active" /\ found[l] <= MaxCards[l]
      /\ step[l] \in {"source_dispatch", "detail_dispatch"}
  <2>1. step[l] \in {"none", "source_dispatch", "detail_queued", "detail_dispatch",
                     "lane_completed"}
    BY DEF TypeOK
  <2> QED
    BY <1>1, <2>1 DEF RowInv, RowShape, RowOrder, Absent, Committed
<1> DEFINE c == at[l]
<1>3. PICK b \in Items : b = c
  BY <1>1
<1>4. /\ op'[l][b].phase = "committed"
      /\ op'[l][b].ord = op[l][b].ord /\ op'[l][b].res = op[l][b].res
      /\ \A j \in Items \ {b} : op'[l][j] = op[l][j]
  <2>1. op' = [op EXCEPT ![l][b].phase = "committed"]
    BY <1>1, <1>3
  <2> QED
    BY <2>1, PhaseReplaced DEF Phases
<1>5. \A j \in Items : /\ Committed(l, j)' <=> Committed(l, j) \/ j = b
                       /\ Absent(l, j)' <=> Absent(l, j)
  BY <1>1, <1>3, <1>4 DEF Committed, Absent
<1>6. b # i
  BY <1>1, <1>3 DEF Absent
<1>7. RowOperations(l)'
  <2> SUFFICES ASSUME NEW j \in Items
               PROVE  /\ Absent(l, j)' => op'[l][j] = NoOperation
                      /\ j # i => Absent(l, j)' \/ Committed(l, j)'
                      /\ op'[l][j].ord <= unknowns + 1
                      /\ op'[l][j].phase \in {"unknown", "safe_retry"} =>
                            op'[l][j].ord <= unknowns
    BY <1>1 DEF RowOperations
  <2>1. CASE j = b
    <3>1. op[l][j].ord <= unknowns + 1
      BY DEF RowInv, RowOperations
    <3> QED
      BY <1>4, <1>5, <2>1, <3>1 DEF Absent
  <2>2. CASE j # b
    BY <1>3, <1>4, <1>5, <2>2 DEF RowInv, RowOperations, Absent
  <2> QED
    BY <2>1, <2>2
<1>8. RowShape(l)'
  BY <1>1, <1>2, <1>5 DEF RowShape
<1>9. CapturePlan(l)' = CapturePlan(l) /\ CapturePlan(l) \subseteq Ranks
  <2>1. 1 .. found[l] \subseteq Ranks
    BY FoundHaveRanks
  <2>2. \A j \in Items : /\ op'[l][j].res = op[l][j].res
                         /\ op'[l][j].phase \in {"observed", "committed"} <=>
                               op[l][j].phase \in {"observed", "committed"}
    BY <1>1, <1>3, <1>4
  <2> QED
    BY <1>1, <2>1, <2>2, ItemKinds DEF CapturePlan, Settled
<1>10. OkCaptures(l)' = OkCaptures(l)
  <2>1. \A j \in Items : op'[l][j].res = op[l][j].res
    BY <1>4
  <2> QED
    BY <2>1, ItemKinds DEF OkCaptures
<1>11. RowOrder(l)'
  <2>1. CASE at[l] = Cards /\ i = Locator(1) /\ found[l] > 0
    <3>1. 1 \in Ranks /\ 1 <= found[l] /\ \A j \in Ranks : j \in Nat \ {0}
      BY <2>1, FoundHaveRanks, RankFacts
    <3>2. \A j \in Items \ {Cards} : Absent(l, j)'
      BY <1>5, <2>1 DEF RowInv, RowOrder
    <3>3. Committed(l, Cards)'
      BY <1>3, <1>5, <2>1
    <3>4. /\ \A j \in Ranks : j < 1 => Committed(l, Locator(j))'
          /\ \A j \in Ranks : Absent(l, Capture(j))' /\ Absent(l, Locator(j))'
      BY <3>1, <3>2, ItemKinds, ItemNames
    <3> QED
      BY <1>1, <1>2, <2>1, <3>1, <3>3, <3>4, OrderOfLocator
  <2>2. ASSUME NEW k \in Ranks, at[l] = Locator(k), i = Locator(k + 1), k < found[l],
               want'[l] = want[l]
        PROVE  RowOrder(l)'
    <3>1. /\ k + 1 \in Ranks /\ k + 1 <= found[l] /\ k \in Nat
          /\ \A j \in Ranks : j \in Nat
      BY <2>2, FoundHaveRanks, RankFacts
    <3>2. Committed(l, Cards)' /\ \A j \in Ranks : Absent(l, Capture(j))'
      BY <1>5, <2>2, OrderAtLocator, ItemKinds
    <3>3. \A j \in Ranks : j < k + 1 => Committed(l, Locator(j))'
      <4>1. \A j \in Ranks : j < k + 1 => j < k \/ j = k
        BY <3>1
      <4> QED
        BY <1>3, <1>5, <2>2, <4>1, OrderAtLocator, ItemKinds
    <3>4. \A j \in Ranks : j > k + 1 => Absent(l, Locator(j))'
      <4>1. \A j \in Ranks : j > k + 1 => j > k
        BY <3>1
      <4> QED
        BY <1>5, <2>2, <4>1, OrderAtLocator, ItemKinds
    <3> QED
      BY <1>1, <1>2, <2>2, <3>1, <3>2, <3>3, <3>4, OrderOfLocator
  <2>3. ASSUME NEW k \in Ranks, i = Capture(k), k <= found[l], want'[l] = want[l],
               Cardinality(OkCaptures(l) \ {k}) < want[l], Follows(l, i)
        PROVE  RowOrder(l)'
    <3>1. /\ \/ found[l] \in Ranks /\ at[l] = Locator(found[l])
             \/ \E r \in Ranks : r < k /\ at[l] = Capture(r)
          /\ \A j \in CapturePlan(l) :
                j < k /\ <<l, j>> \notin Seen => Committed(l, Capture(j)) \/ at[l] = Capture(j)
      <4>1. found[l] \in Ranks
        BY <2>3, FoundHaveRanks, RankFacts
      <4> QED
        BY <2>3, <4>1, ItemNames DEF Follows
    <3>2. \A j \in Ranks : j \in Nat
      BY RankFacts
    <3>3. \A j \in CapturePlan(l)' :
              j < k /\ <<l, j>> \notin Seen => Committed(l, Capture(j))'
      BY <1>3, <1>5, <1>9, <3>1, ItemKinds
    <3>4. Cardinality(OkCaptures(l)' \ {k}) < want'[l]
      BY <1>10, <2>3
    <3>5. CASE found[l] \in Ranks /\ at[l] = Locator(found[l])
      <4>1. /\ want[l] > 0 /\ Committed(l, Cards)
            /\ \A j \in Ranks : j < found[l] => Committed(l, Locator(j))
            /\ \A j \in Ranks : Absent(l, Capture(j))
        BY <3>5, OrderAtLocator
      <4>2. \A j \in 1 .. found[l] : Committed(l, Locator(j))'
        <5>1. \A j \in 1 .. found[l] : j \in Ranks /\ (j < found[l] \/ j = found[l])
          BY <3>2, <3>5, FoundHaveRanks
        <5> QED
          BY <1>3, <1>5, <3>5, <4>1, <5>1, ItemKinds
      <4>3. Committed(l, Cards)' /\ \A j \in Ranks : Absent(l, Capture(j))'
        BY <1>5, <4>1, ItemKinds
      <4> QED
        BY <1>1, <1>2, <2>3, <3>3, <3>4, <4>2, <4>3, OrderOfCapture
    <3>6. ASSUME NEW r \in Ranks, r < k, at[l] = Capture(r)
          PROVE  RowOrder(l)'
      <4>1. /\ want[l] > 0 /\ Committed(l, Cards)
            /\ \A j \in 1 .. found[l] : Committed(l, Locator(j))
            /\ \A j \in Ranks : j > r => Absent(l, Capture(j))
        BY <3>6, OrderAtCapture
      <4>2. Committed(l, Cards)' /\ \A j \in 1 .. found[l] : Committed(l, Locator(j))'
        BY <1>5, <4>1, ItemKinds, FoundHaveRanks
      <4>3. \A j \in Ranks : j > k => Absent(l, Capture(j))'
        <5>1. \A j \in Ranks : j > k => j > r
          BY <3>2, <3>6
        <5> QED
          BY <1>5, <4>1, <5>1, ItemKinds
      <4> QED
        BY <1>1, <1>2, <2>3, <3>3, <3>4, <4>2, <4>3, OrderOfCapture
    <3> QED
      BY <3>1, <3>5, <3>6
  <2> QED
    BY <2>1, <2>2, <2>3 DEF Follows
<1> QED
  BY <1>7, <1>8, <1>11 DEF RowInv

\* The last operation of the lane is committed and the lane completed.
LEMMA RowCompleted ==
    ASSUME TypeOK, NEW l \in Lanes, RowInv(l), NEW b \in Items, b = at[l],
           op[l][b].phase = "observed", op' = [op EXCEPT ![l][b].phase = "committed"],
           lane'[l] = "completed", step'[l] = "lane_completed", at' = at, epoch' = epoch,
           found' = found, want' = want, unknowns' = unknowns
    PROVE  RowInv(l)'
<1>1. /\ op'[l][b].phase = "committed"
      /\ op'[l][b].ord = op[l][b].ord /\ op'[l][b].res = op[l][b].res
      /\ \A j \in Items \ {b} : op'[l][j] = op[l][j]
  <2>1. op \in [Lanes -> [Items -> Operation]]
    BY DEF TypeOK, Operation, Phases
  <2>2. op'[l] = [op[l] EXCEPT ![b] = [op[l][b] EXCEPT !.phase = "committed"]]
    BY <2>1
  <2>3. op'[l][b] = [op[l][b] EXCEPT !.phase = "committed"] /\ op[l][b] \in Operation
    BY <2>1, <2>2
  <2>4. \A j \in Items \ {b} : op'[l][j] = op[l][j]
    BY <2>1, <2>2
  <2> QED
    BY <2>3, <2>4 DEF Operation
<1>2. \A j \in Items : /\ Committed(l, j)' <=> Committed(l, j) \/ j = b
                       /\ Absent(l, j)' <=> Absent(l, j)
  BY <1>1 DEF Committed, Absent
<1>3. RowOperations(l)'
  <2> SUFFICES ASSUME NEW j \in Items
               PROVE  /\ Absent(l, j)' => op'[l][j] = NoOperation
                      /\ j # b => Absent(l, j)' \/ Committed(l, j)'
                      /\ op'[l][j].ord <= unknowns + 1
                      /\ op'[l][j].phase \in {"unknown", "safe_retry"} =>
                            op'[l][j].ord <= unknowns
    BY DEF RowOperations
  <2>1. CASE j = b
    <3>1. op[l][j].ord <= unknowns + 1
      BY DEF RowInv, RowOperations
    <3> QED
      BY <1>1, <1>2, <2>1, <3>1 DEF Absent
  <2>2. CASE j # b
    BY <1>1, <1>2, <2>2 DEF RowInv, RowOperations, Absent
  <2> QED
    BY <2>1, <2>2
<1>4. RowShape(l)'
  BY <1>2 DEF RowShape
<1>5. CapturePlan(l)' = CapturePlan(l) /\ OkCaptures(l)' = OkCaptures(l)
      /\ CapturePlan(l) \subseteq Ranks
  <2>1. 1 .. found[l] \subseteq Ranks
    BY FoundHaveRanks
  <2>2. \A j \in Items : /\ op'[l][j].res = op[l][j].res
                         /\ op'[l][j].phase \in {"observed", "committed"} <=>
                               op[l][j].phase \in {"observed", "committed"}
    BY <1>1
  <2> QED
    BY <2>1, <2>2, ItemKinds DEF CapturePlan, OkCaptures, Settled
<1>6. RowOrder(l)'
  <2>1. found'[l] <= MaxCards[l]
    BY DEF RowInv, RowOrder
  <2>2. CASE b = Cards
    BY <1>2, <2>1, <2>2, ItemNames DEF RowInv, RowOrder
  <2>3. ASSUME NEW k \in Ranks, b = Locator(k)
        PROVE  RowOrder(l)'
    <3>1. /\ at'[l] = Locator(k) /\ found'[l] = found[l] /\ want'[l] = want[l]
      BY <2>3
    <3>2. /\ want[l] > 0 /\ Committed(l, Cards)' /\ k <= found[l]
          /\ \A j \in Ranks : j < k => Committed(l, Locator(j))'
          /\ \A j \in Ranks : j > k => Absent(l, Locator(j))'
          /\ \A j \in Ranks : Absent(l, Capture(j))'
      BY <1>2, <3>1, OrderAtLocator, ItemKinds
    <3> QED
      BY <2>1, <3>1, <3>2, OrderOfLocator
  <2>4. ASSUME NEW k \in Ranks, b = Capture(k)
        PROVE  RowOrder(l)'
    <3>1. /\ at'[l] = Capture(k) /\ found'[l] = found[l] /\ want'[l] = want[l]
      BY <2>4
    <3>2. /\ want[l] > 0 /\ Committed(l, Cards)' /\ k <= found[l]
          /\ \A j \in 1 .. found[l] : Committed(l, Locator(j))'
          /\ \A j \in Ranks : j > k => Absent(l, Capture(j))'
      BY <1>2, <3>1, OrderAtCapture, ItemKinds, FoundHaveRanks
    <3>3. \A j \in CapturePlan(l)' :
              j < k /\ <<l, j>> \notin Seen => Committed(l, Capture(j))'
      BY <1>2, <1>5, <3>1, OrderAtCapture, ItemKinds
    <3>4. Cardinality(OkCaptures(l)' \ {k}) < want'[l]
      BY <1>5, <3>1, OrderAtCapture
    <3> QED
      BY <2>1, <3>1, <3>2, <3>3, <3>4, OrderOfCapture
  <2> QED
    BY <2>2, <2>3, <2>4, ItemKinds
<1> QED
  BY <1>3, <1>4, <1>6 DEF RowInv

\* A lane that begins to read its cards, and a pending lane that is skipped: only
\* the status of the lane and the step change.
LEMMA RowMarked ==
    ASSUME TypeOK, NEW l \in Lanes, RowInv(l),
           at' = at, epoch' = epoch, op' = op, found' = found, want' = want,
           unknowns' = unknowns,
           \/ /\ step'[l] = "source_dispatch" /\ lane'[l] = "active"
              /\ step[l] \in {"none", "source_dispatch"} /\ Absent(l, Cards)
           \/ /\ lane[l] = "pending" /\ lane'[l] = "skipped" /\ step'[l] = step[l]
    PROVE  RowInv(l)'
<1>1. RowOperations(l)'
  BY DEF RowInv, RowOperations, Absent, Committed
<1>2. OkCaptures(l)' = OkCaptures(l) /\ CapturePlan(l)' = CapturePlan(l)
  BY DEF OkCaptures, CapturePlan, Settled
<1>3. RowOrder(l)'
  BY <1>2 DEF RowInv, RowOrder, Absent, Committed
<1>4. RowShape(l)'
  <2>1. Absent(l, Cards) => op[l][Cards].ord = 0
    BY ItemKinds DEF RowInv, RowOperations, NoOperation
  <2>2. step[l] \in {"none", "source_dispatch", "detail_queued", "detail_dispatch",
                     "lane_completed"}
    BY DEF TypeOK
  <2> QED
    BY <2>1, <2>2 DEF RowInv, RowShape, Absent, Committed
<1> QED
  BY <1>1, <1>3, <1>4 DEF RowInv

-----------------------------------------------------------------------------
(* Steps of the attempt.                                                   *)

Runs == {"running", "resumable", "starting", "attention", "failed", "done"}
Barriers == {"none", "active", "checkpointed"}
Preps == {"none", "accepted", "observed", "committed"}

\* The locals of the attempt have their type.
LEMMA MemIsTyped == TypeOK => mem \in MemTypes
BY DEF TypeOK, MemTypes

\* So has an attempt that has not begun.
LEMMA IdleIsTyped == Idle \in MemTypes
BY ItemKinds DEF Idle, MemTypes

\* The rows keep their types and their invariant in a step that writes none.
LEMMA RowsFixed ==
    ASSUME RoundInv, UNCHANGED <<transitions, ops, want, unknowns>>,
           run' \in Runs, barrier' \in Barriers, prep' \in Preps, mem' \in MemTypes,
           crashes' \in 0 .. MaxCrashes, attended' \in BOOLEAN
    PROVE  TypeOK' /\ \A l \in Lanes : RowInv(l)'
<1>1. TypeOK'
  BY DEF RoundInv, TypeOK, Runs, Barriers, Preps, MemTypes, transitions, ops
<1> QED
  BY <1>1, RowsKept

\* Between two lanes nothing is asked of the lane at work.
LEMMA OutOfLane ==
    ASSUME mem'.pc \in {"idle", "lanes", "skips"}
    PROVE  /\ LaneIsOpen' /\ ItemIsNext' /\ ExchangeIsKnown' /\ OpenedIsCounted'
           /\ ~InLane'
<1>1. ~OnItem' /\ ~InLane'
  BY DEF OnItem, InLane
<1>2. ExchangeIsKnown' /\ OpenedIsCounted'
  BY <1>1 DEF ExchangeIsKnown, OpenedIsCounted
<1> QED
  BY <1>1, <1>2 DEF LaneIsOpen, ItemIsNext

\* An attempt that ends, and a step while there is none.
LEMMA EndsAttempt ==
    ASSUME RoundInv, UNCHANGED <<transitions, ops, want, unknowns>>, mem' = Idle,
           run' \in Runs, barrier' \in Barriers, barrier' = "none" => barrier = "none",
           prep' \in Preps, crashes' \in 0 .. MaxCrashes, attended' \in BOOLEAN
    PROVE  RoundInv'
<1>1. TypeOK' /\ \A l \in Lanes : RowInv(l)'
  BY RowsFixed, IdleIsTyped
<1>2. mem'.pc = "idle" /\ mem'.skips = {} /\ mem'.lane = 0
  BY DEF Idle
<1>3. LaneIsOpen' /\ ItemIsNext' /\ ExchangeIsKnown' /\ OpenedIsCounted'
  BY <1>2, OutOfLane
<1>4. SkipsArePending'
  BY <1>2 DEF SkipsArePending
<1>5. RoundIsOpen'
  BY <1>2 DEF RoundIsOpen, RoundInv, MemInv, transitions
<1> QED
  BY <1>1, <1>3, <1>4, <1>5 DEF RoundInv, MemInv

\* An attempt that goes to the next lane, or over those to be skipped.
LEMMA BetweenLanes ==
    ASSUME RoundInv, run' \in {"starting", "running"}, barrier' \in Barriers, prep' \in Preps,
           UNCHANGED <<transitions, ops, want, past>>,
           mem' \in MemTypes, mem'.pc \in {"lanes", "skips"},
           \A s \in mem'.skips : lane[s] = "pending" /\ s <= mem'.lane,
           barrier' = "none" => barrier = "none" /\ mem'.lane = 0 /\ mem'.skips = {}
    PROVE  RoundInv'
<1>1. TypeOK' /\ \A l \in Lanes : RowInv(l)'
  <2>1. crashes' \in 0 .. MaxCrashes /\ attended' \in BOOLEAN /\ unknowns' = unknowns /\ run' \in Runs
    BY DEF past, RoundInv, TypeOK, Runs
  <2> QED
    BY <2>1, RowsFixed
<1>2. LaneIsOpen' /\ ItemIsNext' /\ ExchangeIsKnown' /\ OpenedIsCounted' /\ ~InLane'
  BY OutOfLane
<1>3. SkipsArePending'
  BY <1>2 DEF SkipsArePending, transitions
<1>4. RoundIsOpen'
  BY DEF RoundIsOpen, RoundInv, MemInv, transitions
<1> QED
  BY <1>1, <1>2, <1>3, <1>4 DEF RoundInv, MemInv

\* While the attempt works on a lane it writes the rows of that lane only.
LEMMA StaysInLane ==
    ASSUME RoundInv, NEW l \in Lanes, l = mem.lane, InLane,
           run' = run, run = "running", barrier' = barrier,
           mem'.lane = mem.lane, mem'.skips = mem.skips, mem'.pc # "idle",
           mem'.mode = "search" => mem.mode = "search",
           \A m \in Lanes \ {l} : SameRow(m)
    PROVE  LaneIsOpen' /\ SkipsArePending' /\ RoundIsOpen'
<1>1. l \in Nat \ {0} /\ \A m \in Lanes : m \in Nat
  BY PlanAssumption DEF Lanes
<1>2. Remaining(l)' = Remaining(l)
  <2>1. \A m \in Lanes : m < l =>
            lane'[m] = lane[m] /\ op'[m] = op[m] /\ found'[m] = found[m]
    BY <1>1 DEF SameRow
  <2> QED
    BY <2>1, RemainingIsKept
<1>3. LaneIsOpen'
  BY <1>2 DEF LaneIsOpen, RoundInv, MemInv, Here
<1>4. \A s \in mem.skips : lane[s] = "pending" /\ s < l /\ s \in Lanes
  <2>1. mem.skips \subseteq Lanes
    BY MemIsTyped DEF RoundInv, MemTypes
  <2> QED
    BY <2>1 DEF RoundInv, MemInv, SkipsArePending
<1>5. SkipsArePending'
  <2> SUFFICES ASSUME NEW s \in mem.skips
               PROVE  lane'[s] = "pending" /\ s <= l /\ s < l
    BY DEF SkipsArePending
  <2>1. s # l /\ lane[s] = "pending" /\ s < l /\ s \in Lanes
    BY <1>1, <1>4
  <2> QED
    BY <1>1, <2>1 DEF SameRow
<1>6. RoundIsOpen'
  <2>1. barrier # "none"
    BY <1>1 DEF RoundIsOpen, RoundInv, MemInv
  <2> QED
    BY <2>1 DEF RoundIsOpen
<1> QED
  BY <1>3, <1>5, <1>6

\* The same for a step that writes no row.
LEMMA WorksInMemory ==
    ASSUME RoundInv, InLane, run = "running", run' = run, barrier' = barrier, prep' \in Preps,
           UNCHANGED <<transitions, ops, want, past>>,
           mem' \in MemTypes, mem'.lane = mem.lane, mem'.skips = mem.skips,
           mem'.pc # "idle", mem'.mode = "search" => mem.mode = "search",
           ItemIsNext', ExchangeIsKnown', OpenedIsCounted'
    PROVE  RoundInv'
<1>1. TypeOK' /\ \A l \in Lanes : RowInv(l)'
  <2>1. crashes' \in 0 .. MaxCrashes /\ attended' \in BOOLEAN /\ unknowns' = unknowns /\ run' \in Runs
        /\ barrier' \in Barriers
    BY DEF past, RoundInv, TypeOK, Runs, Barriers
  <2> QED
    BY <2>1, RowsFixed
<1>2. PICK l \in Lanes : l = mem.lane
  BY DEF RoundInv, MemInv, LaneIsOpen, Here
<1>3. \A m \in Lanes \ {l} : SameRow(m)
  BY DEF SameRow, transitions, ops
<1>4. LaneIsOpen' /\ SkipsArePending' /\ RoundIsOpen'
  BY <1>2, <1>3, StaysInLane
<1> QED
  BY <1>1, <1>4 DEF RoundInv, MemInv

-----------------------------------------------------------------------------
(* From lane to lane.                                                      *)

\* open_workflow_round_barrier writes no lane.
LEMMA OpenBarrierKeeps == RoundInv /\ OpenBarrier => RoundInv'
<1> SUFFICES ASSUME RoundInv, OpenBarrier
             PROVE  RoundInv'
  OBVIOUS
<1>1. /\ run = "running" /\ run' = run /\ mem.pc = "lanes" /\ mem' = mem
      /\ barrier' = "active" /\ prep' = prep
      /\ UNCHANGED <<transitions, ops, want, past>>
  BY DEF OpenBarrier, At
<1>2. mem' \in MemTypes /\ prep' \in Preps /\ barrier' \in Barriers
  BY <1>1, MemIsTyped DEF RoundInv, TypeOK, Preps, Barriers
<1>3. \A s \in mem'.skips : lane[s] = "pending" /\ s <= mem'.lane
  BY <1>1 DEF RoundInv, MemInv, SkipsArePending
<1> QED
  BY <1>1, <1>2, <1>3, BetweenLanes

\* The next lane of the plan.
LEMMA NextLane ==
    ASSUME RoundInv, InBarrier
    PROVE  /\ mem.lane + 1 \in Lanes /\ mem.lane \in Nat /\ mem \in MemTypes
           /\ run = "running" /\ mem.pc = "lanes" /\ barrier = "active" /\ mem.stop = FALSE
           /\ prep \in Preps
           /\ \A s \in mem.skips : /\ s \in Lanes /\ s \in Nat
                                   /\ lane[s] = "pending" /\ s <= mem.lane
<1>1. mem \in MemTypes /\ prep \in Preps
  BY MemIsTyped DEF RoundInv, TypeOK, Preps
<1>2. run = "running" /\ mem.pc = "lanes" /\ barrier = "active" /\ mem.stop = FALSE
      /\ mem.lane < NumLanes
  BY <1>1 DEF InBarrier, At, MemTypes
<1>3. mem.lane \in Nat /\ mem.skips \subseteq Lanes
  BY <1>1, PlanAssumption DEF MemTypes, Lanes
<1>4. mem.lane + 1 \in Lanes
  BY <1>2, <1>3, PlanAssumption DEF Lanes
<1>5. \A s \in mem.skips : s \in Nat /\ lane[s] = "pending" /\ s <= mem.lane
  BY <1>3, PlanAssumption DEF RoundInv, MemInv, SkipsArePending, Lanes
<1> QED
  BY <1>1, <1>2, <1>3, <1>4, <1>5

\* A lane is begun with the item of its transition.
LEMMA BeginKeeps ==
    ASSUME RoundInv, InBarrier, NEW l \in Lanes, l = mem.lane + 1, NEW i \in Items,
           NEW mode \in {"search", "resume"}, Begin(l, i, mode), i = at[l],
           step[l] # "lane_completed", i = Cards => mode = "search" /\ lane[l] # "skipped",
           i # Cards => step[l] \in {"detail_queued", "detail_dispatch"},
           mode = "search" => i = Cards /\ Remaining(l) > 0,
           UNCHANGED <<run, barrier, transitions, ops, want, prep, past>>
    PROVE  RoundInv'
<1>1. /\ mem \in MemTypes /\ mem.stop = FALSE /\ run = "running" /\ barrier = "active"
      /\ mem.lane \in Nat
      /\ \A s \in mem.skips : s \in Nat /\ lane[s] = "pending" /\ s <= mem.lane
  BY NextLane, Zenon
<1>2. mem' = [mem EXCEPT !.lane = l, !.pc = "item", !.item = i, !.mode = mode, !.opened = 0]
  BY DEF Begin
<1>3. mem' \in MemTypes
  BY <1>1, <1>2 DEF MemTypes
<1>4. /\ mem'.lane = l /\ mem'.pc = "item" /\ mem'.item = i /\ mem'.mode = mode
      /\ mem'.opened = 0 /\ mem'.skips = mem.skips /\ mem'.stop = FALSE
  BY <1>1, <1>2 DEF MemTypes
<1>5. TypeOK' /\ \A m \in Lanes : RowInv(m)'
  <2>1. /\ run' \in Runs /\ barrier' \in Barriers /\ prep' \in Preps
        /\ unknowns' = unknowns /\ crashes' \in 0 .. MaxCrashes /\ attended' \in BOOLEAN
    BY DEF RoundInv, TypeOK, Runs, Barriers, Preps, past
  <2> QED
    BY <1>3, <2>1, RowsFixed
<1>6. LaneIsOpen'
  <2>1. Remaining(l)' = Remaining(l)
    BY RemainingIsKept DEF transitions, ops
  <2> QED
    BY <1>4, <2>1 DEF LaneIsOpen, Here
<1>7. SkipsArePending'
  BY <1>1, <1>4 DEF SkipsArePending, transitions
<1>8. RoundIsOpen'
  BY <1>1, <1>4, Zenon DEF RoundIsOpen
<1>9. ItemIsNext'
  BY <1>4 DEF ItemIsNext, Here, transitions
<1>10. ExchangeIsKnown'
  BY <1>4 DEF ExchangeIsKnown
<1>11. OpenedIsCounted'
  <2>1. \A k \in Ranks : i = Capture(k) => mode = "resume"
    BY ItemNames
  <2> QED
    BY <1>4, <2>1 DEF OpenedIsCounted
<1> QED
  BY <1>5, <1>6, <1>7, <1>8, <1>9, <1>10, <1>11 DEF RoundInv, MemInv

\* run_liepin_logical_query_bundle enters a lane with a target left.
LEMMA SearchLaneKeeps == RoundInv /\ SearchLane => RoundInv'
<1> SUFFICES ASSUME RoundInv, SearchLane
             PROVE  RoundInv'
  OBVIOUS
<1>1. InBarrier
  BY DEF SearchLane
<1>2. PICK l \in Lanes : l = mem.lane + 1
  BY <1>1, NextLane
<1>3. /\ lane[l] = "pending" \/ step[l] = "source_dispatch"
      /\ Remaining(l) > 0 /\ Begin(l, Cards, "search")
      /\ UNCHANGED <<run, barrier, transitions, ops, want, prep, past>>
  BY <1>2 DEF SearchLane
<1>4. at[l] = Cards /\ step[l] # "lane_completed" /\ lane[l] # "skipped"
  <2>1. step[l] \in {"none", "source_dispatch", "detail_queued", "detail_dispatch",
                     "lane_completed"} /\ RowShape(l)
    BY DEF RoundInv, TypeOK, RowInv
  <2> QED
    BY <1>3, <2>1 DEF RowShape
<1> QED
  BY <1>1, <1>2, <1>3, <1>4, BeginKeeps, ItemKinds

\* resume_detail_workflow_transition enters the item of the transition.
LEMMA ResumeQueueKeeps == RoundInv /\ ResumeQueue => RoundInv'
<1> SUFFICES ASSUME RoundInv, ResumeQueue
             PROVE  RoundInv'
  OBVIOUS
<1>1. InBarrier
  BY DEF ResumeQueue
<1>2. PICK l \in Lanes : l = mem.lane + 1
  BY <1>1, NextLane
<1>3. /\ step[l] \in {"detail_queued", "detail_dispatch"} /\ Begin(l, at[l], "resume")
      /\ UNCHANGED <<run, barrier, transitions, ops, want, prep, past>>
  BY <1>2 DEF ResumeQueue
<1>4. PICK i \in Items : i = at[l]
  BY DEF RoundInv, TypeOK
<1>5. i # Cards
  BY <1>3, <1>4 DEF RoundInv, RowInv, RowShape
<1>6. Begin(l, i, "resume")
  BY <1>3, <1>4
<1> QED
  BY <1>1, <1>2, <1>3, <1>4, <1>5, <1>6, BeginKeeps

\* A lane that is passed.
LEMMA SkipLaterKeeps == RoundInv /\ SkipLater => RoundInv'
<1> SUFFICES ASSUME RoundInv, SkipLater
             PROVE  RoundInv'
  OBVIOUS
<1>1. InBarrier
  BY DEF SkipLater
<1>2. PICK l \in Lanes : l = mem.lane + 1
  BY <1>1, NextLane
<1>3. /\ lane[l] = "pending" /\ mem' = [mem EXCEPT !.lane = l, !.skips = @ \cup {l}]
      /\ UNCHANGED <<run, barrier, transitions, ops, want, prep, past>>
  BY <1>2 DEF SkipLater
<1>4. /\ mem \in MemTypes /\ mem.lane \in Nat /\ mem.pc = "lanes" /\ barrier = "active"
      /\ run = "running" /\ prep \in Preps
      /\ \A s \in mem.skips : s \in Nat /\ lane[s] = "pending" /\ s <= mem.lane
  BY <1>1, NextLane, Zenon
<1>5. mem' \in MemTypes
  BY <1>3, <1>4 DEF MemTypes
<1>6. mem'.pc = "lanes" /\ mem'.lane = l /\ mem'.skips = mem.skips \cup {l}
  BY <1>3, <1>4 DEF MemTypes
<1>7. \A s \in mem'.skips : lane[s] = "pending" /\ s <= mem'.lane
  BY <1>2, <1>3, <1>4, <1>6
<1>8. barrier' \in Barriers /\ barrier' # "none"
  BY <1>3, <1>4 DEF Barriers
<1> QED
  BY <1>3, <1>4, <1>5, <1>6, <1>7, <1>8, BetweenLanes

\* A settled lane is replayed from its artifacts.
LEMMA ReplayLaneKeeps == RoundInv /\ ReplayLane => RoundInv'
<1> SUFFICES ASSUME RoundInv, ReplayLane
             PROVE  RoundInv'
  OBVIOUS
<1>1. InBarrier
  BY DEF ReplayLane
<1>2. PICK l \in Lanes : l = mem.lane + 1
  BY <1>1, NextLane
<1>3. /\ mem' = [mem EXCEPT !.lane = l]
      /\ UNCHANGED <<run, barrier, transitions, ops, want, prep, past>>
  BY <1>2 DEF ReplayLane
<1>4. /\ mem \in MemTypes /\ mem.lane \in Nat /\ mem.pc = "lanes" /\ barrier = "active"
      /\ run = "running" /\ prep \in Preps
      /\ \A s \in mem.skips : s \in Nat /\ lane[s] = "pending" /\ s <= mem.lane
  BY <1>1, NextLane, Zenon
<1>5. mem' \in MemTypes
  BY <1>3, <1>4 DEF MemTypes
<1>6. mem'.pc = "lanes" /\ mem'.lane = l /\ mem'.skips = mem.skips
  BY <1>3, <1>4 DEF MemTypes
<1>7. \A s \in mem'.skips : lane[s] = "pending" /\ s <= mem'.lane
  BY <1>2, <1>4, <1>6
<1>8. barrier' \in Barriers /\ barrier' # "none"
  BY <1>3, <1>4 DEF Barriers
<1> QED
  BY <1>3, <1>4, <1>5, <1>6, <1>7, <1>8, BetweenLanes

\* The lanes are through, the skipped ones come next.
LEMMA LanesDoneKeeps == RoundInv /\ LanesDone => RoundInv'
<1> SUFFICES ASSUME RoundInv, LanesDone
             PROVE  RoundInv'
  OBVIOUS
<1>1. /\ run = "running" /\ mem.pc = "lanes" /\ barrier = "active"
      /\ mem' = [mem EXCEPT !.pc = "skips"]
      /\ UNCHANGED <<run, barrier, transitions, ops, want, prep, past>>
  BY DEF LanesDone, At, Goto
<1>2. mem \in MemTypes /\ prep \in Preps
  BY MemIsTyped DEF RoundInv, TypeOK, Preps
<1>3. mem' \in MemTypes
  BY <1>1, <1>2 DEF MemTypes
<1>4. mem'.pc = "skips" /\ mem'.lane = mem.lane /\ mem'.skips = mem.skips
  BY <1>1, <1>2 DEF MemTypes
<1>5. \A s \in mem'.skips : lane[s] = "pending" /\ s <= mem'.lane
  BY <1>4 DEF RoundInv, MemInv, SkipsArePending
<1>6. barrier' \in Barriers /\ barrier' # "none" /\ prep' \in Preps
  BY <1>1, <1>2 DEF Barriers
<1> QED
  BY <1>1, <1>3, <1>4, <1>5, <1>6, BetweenLanes

\* A lane that ends without being completed.
LEMMA LeavesLane ==
    ASSUME RoundInv, run = "running",
           mem' \in MemTypes, mem'.pc = "lanes", mem'.lane = mem.lane, mem'.skips = mem.skips,
           prep' \in Preps, UNCHANGED <<run, barrier, transitions, ops, want, past>>
    PROVE  RoundInv'
<1>1. \A s \in mem'.skips : lane[s] = "pending" /\ s <= mem'.lane
  BY DEF RoundInv, MemInv, SkipsArePending
<1>2. barrier' \in Barriers /\ run' = "running"
  BY DEF RoundInv, TypeOK, Barriers
<1>3. barrier' = "none" => barrier = "none" /\ mem'.lane = 0 /\ mem'.skips = {}
  BY DEF RoundInv, MemInv, RoundIsOpen
<1> QED
  BY <1>1, <1>2, <1>3, BetweenLanes

\* A pending lane is skipped, at once or after the last lane.
LEMMA SkipsLane ==
    ASSUME RoundInv, NEW l \in Lanes, run = "running", barrier # "none", mem \in MemTypes,
           mem' \in MemTypes, mem'.pc \in {"lanes", "skips"},
           mem'.skips \subseteq mem.skips \ {l}, \A s \in mem'.skips : s <= mem'.lane,
           lane[l] = "pending", lane' = [lane EXCEPT ![l] = "skipped"],
           UNCHANGED <<run, barrier, step, at, epoch, ops, want, prep, past>>
    PROVE  RoundInv'
<1>1. op' = op /\ found' = found /\ unknowns' = unknowns /\ crashes' = crashes /\ attended' = attended
  BY DEF ops, past
<1>2. lane'[l] = "skipped" /\ \A m \in Lanes \ {l} : lane'[m] = lane[m]
  BY DEF RoundInv, TypeOK
<1>3. TypeOK'
  <2>1. lane' \in [Lanes -> {"pending", "skipped", "active", "completed"}]
    BY DEF RoundInv, TypeOK
  <2> QED
    BY <1>1, <2>1 DEF RoundInv, TypeOK, MemTypes
<1>4. \A m \in Lanes : RowInv(m)'
  <2>1. RowInv(l)'
    <3>1. TypeOK /\ RowInv(l) /\ step'[l] = step[l]
      BY DEF RoundInv
    <3> QED
      BY <1>1, <1>2, <3>1, RowMarked
  <2>2. \A m \in Lanes \ {l} : SameRow(m)
    BY <1>1, <1>2 DEF SameRow
  <2>3. unknowns' \in Nat /\ unknowns' >= unknowns
    BY <1>1 DEF RoundInv, TypeOK
  <2> QED
    BY <2>1, <2>2, <2>3, OneRow
<1>5. LaneIsOpen' /\ ItemIsNext' /\ ExchangeIsKnown' /\ OpenedIsCounted' /\ ~InLane'
  BY OutOfLane
<1>6. SkipsArePending'
  <2>1. mem.skips \subseteq Lanes
    BY DEF MemTypes
  <2>2. \A s \in mem.skips : lane[s] = "pending"
    BY DEF RoundInv, MemInv, SkipsArePending
  <2> QED
    BY <1>2, <1>5, <2>1, <2>2 DEF SkipsArePending
<1>7. RoundIsOpen'
  BY DEF RoundIsOpen
<1> QED
  BY <1>3, <1>4, <1>5, <1>6, <1>7 DEF RoundInv, MemInv

\* resume_liepin_round_work_plan skips a lane whose target is met.
LEMMA SkipNowKeeps == RoundInv /\ SkipNow => RoundInv'
<1> SUFFICES ASSUME RoundInv, SkipNow
             PROVE  RoundInv'
  OBVIOUS
<1>1. InBarrier
  BY DEF SkipNow
<1>2. PICK l \in Lanes : l = mem.lane + 1
  BY <1>1, NextLane
<1>3. /\ lane[l] = "pending" /\ lane' = [lane EXCEPT ![l] = "skipped"]
      /\ mem' = [mem EXCEPT !.lane = l]
      /\ UNCHANGED <<run, barrier, step, at, epoch, ops, want, prep, past>>
  BY <1>2 DEF SkipNow
<1>4. /\ mem \in MemTypes /\ mem.lane \in Nat /\ mem.pc = "lanes" /\ barrier = "active"
      /\ run = "running"
      /\ \A s \in mem.skips : s \in Nat /\ lane[s] = "pending" /\ s <= mem.lane
  BY <1>1, NextLane, Zenon
<1>5. mem' \in MemTypes
  BY <1>3, <1>4 DEF MemTypes
<1>6. mem'.pc = "lanes" /\ mem'.lane = l /\ mem'.skips = mem.skips
  BY <1>3, <1>4 DEF MemTypes
<1>7. mem'.skips \subseteq mem.skips \ {l} /\ \A s \in mem'.skips : s <= mem'.lane
  <2>1. \A s \in mem.skips : s <= l /\ s # l
    BY <1>2, <1>4
  <2> QED
    BY <1>6, <2>1
<1> QED
  BY <1>3, <1>4, <1>5, <1>6, <1>7, SkipsLane

\* skip_workflow_barrier_lane, after all lanes.
LEMMA SkipKeeps == RoundInv /\ Skip => RoundInv'
<1> SUFFICES ASSUME RoundInv, Skip
             PROVE  RoundInv'
  OBVIOUS
<1>1. mem \in MemTypes /\ mem.pc = "skips" /\ run = "running" /\ mem.skips # {}
  BY MemIsTyped DEF RoundInv, Skip, At
<1>2. mem.skips \subseteq Lanes /\ Lanes \subseteq Nat
  BY <1>1, PlanAssumption DEF MemTypes, Lanes
<1>3. Min(mem.skips) \in mem.skips
  BY <1>1, <1>2, MinIsLeast
<1>4. PICK l \in Lanes : l = Min(mem.skips)
  BY <1>2, <1>3
<1>5. /\ lane' = [lane EXCEPT ![l] = "skipped"] /\ mem' = [mem EXCEPT !.skips = @ \ {l}]
      /\ UNCHANGED <<run, barrier, step, at, epoch, ops, want, prep, past>>
  BY <1>4 DEF Skip
<1>6. \A s \in mem.skips : lane[s] = "pending" /\ s <= mem.lane
  BY DEF RoundInv, MemInv, SkipsArePending
<1>7. barrier # "none"
  BY <1>1 DEF RoundInv, MemInv, RoundIsOpen
<1>8. mem' \in MemTypes
  BY <1>1, <1>5 DEF MemTypes
<1>9. mem'.pc = "skips" /\ mem'.lane = mem.lane /\ mem'.skips = mem.skips \ {l}
  BY <1>1, <1>5 DEF MemTypes
<1>10. \A s \in mem'.skips : s <= mem'.lane
  BY <1>6, <1>9
<1>11. lane[l] = "pending"
  BY <1>3, <1>4, <1>6
<1> QED
  BY <1>1, <1>5, <1>7, <1>8, <1>9, <1>10, <1>11, SkipsLane

-----------------------------------------------------------------------------
(* The end of an attempt, and the next one.                                *)

\* A dispatched lane without a target fails the run.
LEMMA RefuseLaneKeeps == RoundInv /\ RefuseLane => RoundInv'
<1> SUFFICES ASSUME RoundInv, RefuseLane
             PROVE  RoundInv'
  OBVIOUS
<1>1. /\ run' = "failed" /\ mem' = Idle
      /\ UNCHANGED <<barrier, transitions, ops, want, prep, past>>
  BY DEF RefuseLane, Fails
<1>2. run' \in Runs /\ barrier' \in Barriers /\ prep' \in Preps /\ unknowns' = unknowns
      /\ crashes' \in 0 .. MaxCrashes /\ attended' \in BOOLEAN
  BY <1>1 DEF RoundInv, TypeOK, Runs, Barriers, Preps, past
<1> QED
  BY <1>1, <1>2, EndsAttempt

\* _checkpoint_workflow_round_barrier ends the round.
LEMMA WriteCheckpointKeeps == RoundInv /\ WriteCheckpoint => RoundInv'
<1> SUFFICES ASSUME RoundInv, WriteCheckpoint
             PROVE  RoundInv'
  OBVIOUS
<1>1. /\ mem' = Idle /\ UNCHANGED <<transitions, ops, want, past>>
      /\ run' \in {"done", "failed"} /\ barrier' \in {"checkpointed", barrier}
      /\ prep' \in {"committed", prep}
  BY DEF WriteCheckpoint, Fails
<1>2. run' \in Runs /\ barrier' \in Barriers /\ prep' \in Preps /\ unknowns' = unknowns
      /\ crashes' \in 0 .. MaxCrashes /\ attended' \in BOOLEAN /\ (barrier' = "none" => barrier = "none")
  BY <1>1 DEF RoundInv, TypeOK, Runs, Barriers, Preps, past
<1> QED
  BY <1>1, <1>2, EndsAttempt

\* The attempt gives the run back.
LEMMA YieldKeeps == RoundInv /\ Yield => RoundInv'
<1> SUFFICES ASSUME RoundInv, Yield
             PROVE  RoundInv'
  OBVIOUS
<1>1. /\ run' = "resumable" /\ mem' = Idle
      /\ UNCHANGED <<barrier, transitions, ops, want, prep, past>>
  BY DEF Yield
<1>2. run' \in Runs /\ barrier' \in Barriers /\ prep' \in Preps /\ unknowns' = unknowns
      /\ crashes' \in 0 .. MaxCrashes /\ attended' \in BOOLEAN
  BY <1>1 DEF RoundInv, TypeOK, Runs, Barriers, Preps, past
<1> QED
  BY <1>1, <1>2, EndsAttempt

\* The worker dies: its locals are lost, the rows stay.
LEMMA CrashKeeps == RoundInv /\ Crash => RoundInv'
<1> SUFFICES ASSUME RoundInv, Crash
             PROVE  RoundInv'
  OBVIOUS
<1>1. /\ mem' = Idle /\ crashes < MaxCrashes /\ crashes' = crashes + 1
      /\ UNCHANGED <<run, attended, barrier, transitions, ops, want, prep, unknowns>>
  BY DEF Crash
<1>2. run' \in Runs /\ barrier' \in Barriers /\ prep' \in Preps /\ attended' \in BOOLEAN
  BY <1>1 DEF RoundInv, TypeOK, Runs, Barriers, Preps
<1>3. crashes' \in 0 .. MaxCrashes
  BY <1>1, PlanAssumption DEF RoundInv, TypeOK
<1> QED
  BY <1>1, <1>2, <1>3, EndsAttempt

\* settle_next_expired_executor_lease reads the rows and changes the run.
LEMMA LapseKeeps == RoundInv /\ Lapse => RoundInv'
<1> SUFFICES ASSUME RoundInv, Lapse
             PROVE  RoundInv'
  OBVIOUS
<1>1. /\ mem' = Idle /\ run' \in {"resumable", "attention"}
      /\ UNCHANGED <<barrier, transitions, ops, want, prep, past>>
  BY DEF Lapse
<1>2. run' \in Runs /\ barrier' \in Barriers /\ prep' \in Preps /\ unknowns' = unknowns
      /\ crashes' \in 0 .. MaxCrashes /\ attended' \in BOOLEAN
  BY <1>1 DEF RoundInv, TypeOK, Runs, Barriers, Preps, past
<1> QED
  BY <1>1, <1>2, EndsAttempt

\* The next attempt begins with nothing but the rows.
LEMMA ClaimKeeps == RoundInv /\ Claim => RoundInv'
<1> SUFFICES ASSUME RoundInv, Claim
             PROVE  RoundInv'
  OBVIOUS
<1>1. UNCHANGED <<barrier, transitions, ops, want, prep, past>>
  BY DEF Claim
<1>2. barrier' \in Barriers /\ prep' \in Preps /\ unknowns' = unknowns
      /\ crashes' \in 0 .. MaxCrashes /\ attended' \in BOOLEAN /\ barrier' = barrier
  BY <1>1 DEF RoundInv, TypeOK, Barriers, Preps, past
<1>3. /\ run' = "starting"
      /\ mem' = [Idle EXCEPT !.pc = "lanes", !.resumed = (barrier = "active")]
  BY DEF Claim
<1>4. mem' \in MemTypes
  <2>1. (barrier = "active") \in BOOLEAN
    OBVIOUS
  <2> QED
    BY <1>3, <2>1, IdleIsTyped DEF MemTypes
<1>5. mem'.pc = "lanes" /\ mem'.lane = 0 /\ mem'.skips = {}
  BY <1>3 DEF Idle
<1> QED
  BY <1>1, <1>2, <1>3, <1>4, <1>5, BetweenLanes

\* A resumed attempt reports running, or fails.
LEMMA ResumeKeeps == RoundInv /\ Resume => RoundInv'
<1> SUFFICES ASSUME RoundInv, Resume
             PROVE  RoundInv'
  OBVIOUS
<1>1. mem.pc = "lanes" /\ UNCHANGED <<barrier, transitions, ops, want, prep, past>>
  BY DEF Resume
<1>2. barrier' \in Barriers /\ prep' \in Preps /\ unknowns' = unknowns
      /\ crashes' \in 0 .. MaxCrashes /\ attended' \in BOOLEAN /\ barrier' = barrier
  BY <1>1 DEF RoundInv, TypeOK, Barriers, Preps, past
<1>3. CASE Recoverable
  <2>1. run' = "running" /\ mem' = mem
    BY <1>3 DEF Resume
  <2>2. mem' \in MemTypes
    BY <2>1, MemIsTyped DEF RoundInv
  <2>3. \A s \in mem'.skips : lane[s] = "pending" /\ s <= mem'.lane
    BY <2>1 DEF RoundInv, MemInv, SkipsArePending
  <2>4. barrier' = "none" => mem'.lane = 0 /\ mem'.skips = {}
    BY <1>1, <2>1 DEF RoundInv, MemInv, RoundIsOpen
  <2> QED
    BY <1>1, <1>2, <2>1, <2>2, <2>3, <2>4, BetweenLanes
<1>4. CASE ~Recoverable
  <2>1. mem' = Idle /\ run' \in Runs
    BY <1>4 DEF Resume, Fails, Runs
  <2> QED
    BY <1>1, <1>2, <2>1, EndsAttempt
<1> QED
  BY <1>3, <1>4

-----------------------------------------------------------------------------
(* Steps in memory within a lane.                                          *)

\* What every step within a lane finds.
LEMMA LaneAtWork ==
    ASSUME RoundInv, InLane
    PROVE  /\ mem \in MemTypes /\ Here = mem.lane /\ mem.pc # "idle"
           /\ run \in Runs /\ barrier \in Barriers /\ prep \in Preps
           /\ \E l \in Lanes : l = mem.lane
BY MemIsTyped DEF RoundInv, TypeOK, MemInv, LaneIsOpen, Here, InLane, OnItem,
                  Runs, Barriers, Preps

\* The labels of an attempt at work on a lane.
LEMMA PcIsInLane ==
    mem.pc \in {"item", "preparing", "ready", "send", "ack", "observe", "settled",
                "captures", "complete"} <=> InLane
BY DEF InLane, OnItem

\* prepare_readiness accepts an operation of its own.
LEMMA PrepareReadinessKeeps == RoundInv /\ PrepareReadiness => RoundInv'
<1> SUFFICES ASSUME RoundInv, PrepareReadiness
             PROVE  RoundInv'
  OBVIOUS
<1>1. /\ run = "running" /\ mem.pc = "item" /\ mem.item = Cards /\ mem.mode = "search"
      /\ prep' = "accepted" /\ mem' = [mem EXCEPT !.pc = "preparing"]
      /\ UNCHANGED <<run, barrier, transitions, ops, want, past>>
  BY DEF PrepareReadiness, At, Goto
<1>2. InLane /\ OnItem
  BY <1>1 DEF InLane, OnItem
<1>3. mem \in MemTypes
  BY <1>2, LaneAtWork
<1>4. mem' \in MemTypes /\ prep' \in Preps
  BY <1>1, <1>3 DEF MemTypes, Preps
<1>5. /\ mem'.pc = "preparing" /\ mem'.lane = mem.lane /\ mem'.item = mem.item
      /\ mem'.mode = mem.mode /\ mem'.opened = mem.opened /\ mem'.skips = mem.skips
      /\ mem'.stop = mem.stop
  BY <1>1, <1>3 DEF MemTypes
<1>6. ItemIsNext'
  <2>1. ~Follows(Here, Cards)
    BY ItemNames DEF Follows
  <2> QED
    BY <1>1, <1>2, <1>5, <2>1 DEF RoundInv, MemInv, ItemIsNext, Here, transitions
<1>7. ExchangeIsKnown'
  BY <1>1, <1>2, <1>5 DEF RoundInv, MemInv, ExchangeIsKnown
<1>8. OpenedIsCounted'
  BY <1>1, <1>2, <1>5, ItemNames DEF RoundInv, MemInv, OpenedIsCounted
<1> QED
  BY <1>1, <1>2, <1>4, <1>5, <1>6, <1>7, <1>8, WorksInMemory

\* The operation of a transition is not committed before the lane is completed.
LEMMA NotYetCommitted ==
    ASSUME RoundInv, NEW l \in Lanes, step[l] # "lane_completed"
    PROVE  ~Committed(l, at[l])
<1>1. step[l] \in {"none", "source_dispatch", "detail_queued", "detail_dispatch"}
      /\ RowShape(l)
  BY DEF RoundInv, TypeOK, RowInv
<1> QED
  BY <1>1 DEF RowShape, Absent, Committed

\* The item at work that has an operation is the one of the transition.
LEMMA ItemOfTransition ==
    ASSUME RoundInv, OnItem, NEW l \in Lanes, l = mem.lane, NEW i \in Items, i = mem.item,
           mem.pc # "item" \/ ~Absent(l, i)
    PROVE  /\ i = at[l] /\ step[l] # "lane_completed" /\ ~Committed(l, i)
           /\ i = Cards => mem.mode = "search" /\ lane[l] # "skipped"
           /\ i # Cards => step[l] \in {"detail_queued", "detail_dispatch"}
<1>1. /\ i = at[l] /\ step[l] # "lane_completed"
      /\ i = Cards => mem.mode = "search" /\ lane[l] # "skipped"
      /\ i # Cards => step[l] \in {"detail_queued", "detail_dispatch"}
  BY DEF RoundInv, MemInv, ItemIsNext, Here, Follows
<1> QED
  BY <1>1, NotYetCommitted

\* The attempt goes on with the item of the transition: the rows are untouched.
LEMMA SameItem ==
    ASSUME RoundInv, OnItem, run = "running",
           NEW l \in Lanes, l = mem.lane, NEW i \in Items, i = mem.item,
           mem.pc # "item" \/ ~Absent(l, i),
           NEW p \in {"item", "send", "observe", "settled"},
           mem' \in MemTypes, mem'.pc = p, mem'.lane = mem.lane, mem'.item = mem.item,
           mem'.mode = mem.mode, mem'.opened = mem.opened, mem'.skips = mem.skips,
           mem'.stop = FALSE,
           p = "send" => op[l][i].phase = "pending",
           p = "observe" => op[l][i].phase \in {"pending", "acked"},
           p = "settled" => op[l][i].phase \in {"absent", "observed"},
           prep' \in Preps,
           UNCHANGED <<run, barrier, transitions, ops, want, past>>
    PROVE  RoundInv'
<1>1. /\ i = at[l] /\ step[l] # "lane_completed"
      /\ i = Cards => mem.mode = "search" /\ lane[l] # "skipped"
      /\ i # Cards => step[l] \in {"detail_queued", "detail_dispatch"}
  BY ItemOfTransition
<1>2. OnItem' /\ InLane
  BY DEF OnItem, InLane
<1>3. ItemIsNext'
  BY <1>1 DEF ItemIsNext, Here, transitions
<1>4. ExchangeIsKnown'
  BY DEF ExchangeIsKnown, Op, Here, ops
<1>5. OpenedIsCounted'
  <2>1. OkCaptures(l)' = OkCaptures(l)
    BY DEF OkCaptures, ops
  <2> QED
    BY <1>2, <2>1 DEF RoundInv, MemInv, OpenedIsCounted, Here
<1> QED
  BY <1>2, <1>3, <1>4, <1>5, WorksInMemory

\* What a step on an item finds.
LEMMA ItemAtWork ==
    ASSUME RoundInv, OnItem
    PROVE  /\ mem \in MemTypes /\ prep \in Preps
           /\ \E l \in Lanes, i \in Items : l = mem.lane /\ i = mem.item /\ Op = op[l][i]
           /\ mem.pc # "observe" => mem.stop = FALSE
<1>1. InLane
  BY DEF InLane
<1>2. mem \in MemTypes /\ prep \in Preps
  BY <1>1, LaneAtWork
<1>3. mem.lane \in Lanes /\ mem.item \in Items
  BY <1>1 DEF RoundInv, MemInv, LaneIsOpen, ItemIsNext, Here
<1>4. mem.pc # "observe" => mem.stop = FALSE
  BY <1>1, <1>2 DEF RoundInv, MemInv, ExchangeIsKnown, MemTypes
<1> QED
  BY <1>2, <1>3, <1>4 DEF Op, Here

\* prepare_readiness ends.
LEMMA PreparedKeeps == RoundInv /\ Prepared => RoundInv'
<1> SUFFICES ASSUME RoundInv, Prepared
             PROVE  RoundInv'
  OBVIOUS
<1>1. /\ run = "running" /\ mem.pc = "preparing" /\ prep' = "observed"
      /\ UNCHANGED <<run, barrier, transitions, ops, want, past>>
  BY DEF Prepared, At
<1>2. PICK p \in {"item", "lanes"} : mem' = [mem EXCEPT !.prepared = TRUE, !.pc = p]
  BY DEF Prepared
<1>3. OnItem
  BY <1>1 DEF OnItem
<1>4. PICK l \in Lanes, i \in Items : l = mem.lane /\ i = mem.item /\ Op = op[l][i]
  BY <1>3, ItemAtWork
<1>5. mem \in MemTypes /\ mem.stop = FALSE
  BY <1>1, <1>3, ItemAtWork, Zenon
<1>6. mem' \in MemTypes /\ prep' \in Preps
  BY <1>1, <1>2, <1>5 DEF MemTypes, Preps
<1>7. /\ mem'.pc = p /\ mem'.lane = mem.lane /\ mem'.item = mem.item
      /\ mem'.mode = mem.mode /\ mem'.opened = mem.opened /\ mem'.skips = mem.skips
      /\ mem'.stop = FALSE
  BY <1>2, <1>5 DEF MemTypes
<1>8. CASE p = "item"
  BY <1>1, <1>3, <1>4, <1>6, <1>7, <1>8, SameItem
<1>9. CASE p = "lanes"
  BY <1>1, <1>6, <1>7, <1>9, LeavesLane
<1> QED
  BY <1>8, <1>9

\* _replay_committed_cards and _replay_committed_details find the answer.
LEMMA ReplayKeeps == RoundInv /\ Replay => RoundInv'
<1> SUFFICES ASSUME RoundInv, Replay
             PROVE  RoundInv'
  OBVIOUS
<1>1. /\ run = "running" /\ mem.pc = "item" /\ mem' = [mem EXCEPT !.pc = "settled"]
      /\ Op.phase \in {"observed", "committed"}
      /\ UNCHANGED <<run, barrier, transitions, ops, want, prep, past>>
  BY DEF Replay, At, Goto, Settled
<1>2. OnItem
  BY <1>1 DEF OnItem
<1>3. PICK l \in Lanes, i \in Items : l = mem.lane /\ i = mem.item /\ Op = op[l][i]
  BY <1>2, ItemAtWork
<1>4. mem \in MemTypes /\ mem.stop = FALSE /\ prep \in Preps
  BY <1>1, <1>2, ItemAtWork, Zenon
<1>5. mem' \in MemTypes /\ prep' \in Preps
  BY <1>1, <1>4 DEF MemTypes
<1>6. /\ mem'.pc = "settled" /\ mem'.lane = mem.lane /\ mem'.item = mem.item
      /\ mem'.mode = mem.mode /\ mem'.opened = mem.opened /\ mem'.skips = mem.skips
      /\ mem'.stop = FALSE
  BY <1>1, <1>4 DEF MemTypes
<1>7. ~Absent(l, i) /\ op[l][i].phase \in {"observed", "committed"}
  BY <1>1, <1>3 DEF Absent
<1>8. op[l][i].phase = "observed"
  <2>1. ~Committed(l, i)
    BY <1>2, <1>3, <1>7, ItemOfTransition
  <2> QED
    BY <1>7, <2>1 DEF Committed
<1> QED
  BY <1>1, <1>2, <1>3, <1>5, <1>6, <1>7, <1>8, SameItem

\* An accepted operation is sent again.
LEMMA RedeliverKeeps == RoundInv /\ Redeliver => RoundInv'
<1> SUFFICES ASSUME RoundInv, Redeliver
             PROVE  RoundInv'
  OBVIOUS
<1>1. /\ run = "running" /\ mem.pc = "item" /\ mem' = [mem EXCEPT !.pc = "send"]
      /\ Op.phase = "pending"
      /\ UNCHANGED <<run, barrier, transitions, ops, want, prep, past>>
  BY DEF Redeliver, At, Goto
<1>2. OnItem
  BY <1>1 DEF OnItem
<1>3. PICK l \in Lanes, i \in Items : l = mem.lane /\ i = mem.item /\ Op = op[l][i]
  BY <1>2, ItemAtWork
<1>4. mem \in MemTypes /\ mem.stop = FALSE /\ prep \in Preps
  BY <1>1, <1>2, ItemAtWork, Zenon
<1>5. mem' \in MemTypes /\ prep' \in Preps
  BY <1>1, <1>4 DEF MemTypes
<1>6. /\ mem'.pc = "send" /\ mem'.lane = mem.lane /\ mem'.item = mem.item
      /\ mem'.mode = mem.mode /\ mem'.opened = mem.opened /\ mem'.skips = mem.skips
      /\ mem'.stop = FALSE
  BY <1>1, <1>4 DEF MemTypes
<1>7. ~Absent(l, i) /\ op[l][i].phase = "pending"
  BY <1>1, <1>3 DEF Absent
<1> QED
  BY <1>1, <1>2, <1>3, <1>5, <1>6, <1>7, SameItem

\* The journal is asked about an acknowledged operation.
LEMMA QueryHistoryKeeps == RoundInv /\ QueryHistory => RoundInv'
<1> SUFFICES ASSUME RoundInv, QueryHistory
             PROVE  RoundInv'
  OBVIOUS
<1>1. /\ run = "running" /\ mem.pc = "item" /\ mem' = [mem EXCEPT !.pc = "observe"]
      /\ Op.phase = "acked"
      /\ UNCHANGED <<run, barrier, transitions, ops, want, prep, past>>
  BY DEF QueryHistory, At, Goto
<1>2. OnItem
  BY <1>1 DEF OnItem
<1>3. PICK l \in Lanes, i \in Items : l = mem.lane /\ i = mem.item /\ Op = op[l][i]
  BY <1>2, ItemAtWork
<1>4. mem \in MemTypes /\ mem.stop = FALSE /\ prep \in Preps
  BY <1>1, <1>2, ItemAtWork, Zenon
<1>5. mem' \in MemTypes /\ prep' \in Preps
  BY <1>1, <1>4 DEF MemTypes
<1>6. /\ mem'.pc = "observe" /\ mem'.lane = mem.lane /\ mem'.item = mem.item
      /\ mem'.mode = mem.mode /\ mem'.opened = mem.opened /\ mem'.skips = mem.skips
      /\ mem'.stop = FALSE
  BY <1>1, <1>4 DEF MemTypes
<1>7. ~Absent(l, i) /\ op[l][i].phase = "acked"
  BY <1>1, <1>3 DEF Absent
<1> QED
  BY <1>1, <1>2, <1>3, <1>5, <1>6, <1>7, SameItem

\* The sidecar is not ready: no cards end the lane, a detail counts as failed.
LEMMA NotReadyKeeps == RoundInv /\ NotReady => RoundInv'
<1> SUFFICES ASSUME RoundInv, NotReady
             PROVE  RoundInv'
  OBVIOUS
<1>1. /\ run = "running" /\ mem.pc = "ready"
      /\ UNCHANGED <<run, barrier, transitions, ops, want, prep, past>>
  BY DEF NotReady, At
<1>2. PICK p \in {"lanes", "settled"} : mem' = [mem EXCEPT !.pc = p]
  BY DEF NotReady, Blocked, Goto
<1>3. OnItem
  BY <1>1 DEF OnItem
<1>4. PICK l \in Lanes, i \in Items : l = mem.lane /\ i = mem.item /\ Op = op[l][i]
  BY <1>3, ItemAtWork
<1>5. mem \in MemTypes /\ mem.stop = FALSE /\ prep \in Preps
  BY <1>1, <1>3, ItemAtWork, Zenon
<1>6. mem' \in MemTypes /\ prep' \in Preps
  BY <1>1, <1>2, <1>5 DEF MemTypes
<1>7. /\ mem'.pc = p /\ mem'.lane = mem.lane /\ mem'.item = mem.item
      /\ mem'.mode = mem.mode /\ mem'.opened = mem.opened /\ mem'.skips = mem.skips
      /\ mem'.stop = FALSE
  BY <1>2, <1>5 DEF MemTypes
<1>8. CASE p = "settled"
  <2>1. op[l][i].phase = "absent"
    BY <1>1, <1>4 DEF RoundInv, MemInv, ExchangeIsKnown, Absent, Here
  <2> QED
    BY <1>1, <1>3, <1>4, <1>6, <1>7, <1>8, <2>1, SameItem
<1>9. CASE p = "lanes"
  BY <1>1, <1>6, <1>7, <1>9, LeavesLane
<1> QED
  BY <1>8, <1>9

\* Only an attempt that waits for an answer is told to stop.
LEMMA StopIsOver ==
    ASSUME RoundInv, InLane, mem.pc # "observe"
    PROVE  mem.stop = FALSE
<1>1. mem \in MemTypes
  BY LaneAtWork
<1> QED
  BY <1>1 DEF RoundInv, MemInv, ExchangeIsKnown, MemTypes

\* A lane whose items are through.
LEMMA ToComplete ==
    ASSUME RoundInv, InLane, run = "running", mem.pc # "observe",
           mem' = [mem EXCEPT !.pc = "complete"],
           UNCHANGED <<run, barrier, transitions, ops, want, prep, past>>
    PROVE  RoundInv'
<1>1. mem \in MemTypes /\ prep \in Preps
  BY LaneAtWork
<1>2. mem.stop = FALSE
  BY StopIsOver
<1>3. mem' \in MemTypes
  BY <1>1 DEF MemTypes
<1>4. /\ mem'.pc = "complete" /\ mem'.lane = mem.lane /\ mem'.mode = mem.mode
      /\ mem'.skips = mem.skips /\ mem'.stop = FALSE
  BY <1>1, <1>2 DEF MemTypes
<1>5. ~OnItem'
  BY <1>4 DEF OnItem
<1>6. ItemIsNext' /\ ExchangeIsKnown' /\ OpenedIsCounted'
  BY <1>4, <1>5 DEF ItemIsNext, ExchangeIsKnown, OpenedIsCounted
<1> QED
  BY <1>1, <1>3, <1>4, <1>6, WorksInMemory

\* A lane that is left.
LEMMA ToLanes ==
    ASSUME RoundInv, InLane, run = "running", mem' = [mem EXCEPT !.pc = "lanes"],
           UNCHANGED <<run, barrier, transitions, ops, want, prep, past>>
    PROVE  RoundInv'
<1>1. mem \in MemTypes /\ prep \in Preps
  BY LaneAtWork
<1>2. mem' \in MemTypes /\ prep' \in Preps
  BY <1>1 DEF MemTypes
<1>3. mem'.pc = "lanes" /\ mem'.lane = mem.lane /\ mem'.skips = mem.skips
  BY <1>1 DEF MemTypes
<1> QED
  BY <1>2, <1>3, LeavesLane

\* An attempt that fails the run leaves the rows.
LEMMA Failing ==
    ASSUME RoundInv, run' = "failed", mem' = Idle,
           UNCHANGED <<barrier, transitions, ops, want, prep, past>>
    PROVE  RoundInv'
<1>1. run' \in Runs /\ barrier' \in Barriers /\ prep' \in Preps /\ unknowns' = unknowns
      /\ crashes' \in 0 .. MaxCrashes /\ attended' \in BOOLEAN
  BY DEF RoundInv, TypeOK, Runs, Barriers, Preps, past
<1> QED
  BY <1>1, EndsAttempt

\* _persist_detail_dispatch_transition refuses another item.
LEMMA DetailMismatchKeeps == RoundInv /\ DetailMismatch => RoundInv'
<1> SUFFICES ASSUME RoundInv, DetailMismatch
             PROVE  RoundInv'
  OBVIOUS
<1>1. /\ run = "running" /\ mem.pc = "item"
      /\ UNCHANGED <<barrier, transitions, ops, want, prep, past>>
  BY DEF DetailMismatch, DetailAbsent, At
<1>2. InLane
  BY <1>1, PcIsInLane
<1>3. CASE mem.mode = "search"
  <2>1. run' = run /\ mem' = [mem EXCEPT !.pc = "lanes"]
    BY <1>3 DEF DetailMismatch, Blocked, Goto
  <2> QED
    BY <1>1, <1>2, <2>1, ToLanes
<1>4. CASE mem.mode # "search"
  <2>1. run' = "failed" /\ mem' = Idle
    BY <1>4 DEF DetailMismatch, Fails
  <2> QED
    BY <1>1, <2>1, Failing
<1> QED
  BY <1>3, <1>4

\* The cards failed: the lane ends here, with the run or without it.
LEMMA CardsFailedKeeps == RoundInv /\ CardsFailed => RoundInv'
<1> SUFFICES ASSUME RoundInv, CardsFailed
             PROVE  RoundInv'
  OBVIOUS
<1>1. /\ run = "running" /\ mem.pc = "settled" /\ mem' = [mem EXCEPT !.pc = "lanes"]
      /\ UNCHANGED <<run, barrier, transitions, ops, want, prep, past>>
  BY DEF CardsFailed, At, Blocked, Goto
<1> QED
  BY <1>1, PcIsInLane, ToLanes

\* A lane without cards is complete.
LEMMA NoCardsKeeps == RoundInv /\ NoCards => RoundInv'
<1> SUFFICES ASSUME RoundInv, NoCards
             PROVE  RoundInv'
  OBVIOUS
<1>1. /\ run = "running" /\ mem.pc = "settled" /\ mem' = [mem EXCEPT !.pc = "complete"]
      /\ UNCHANGED <<run, barrier, transitions, ops, want, prep, past>>
  BY DEF NoCards, At, Goto
<1> QED
  BY <1>1, PcIsInLane, ToComplete

\* No capture is left to do.
LEMMA CapturesDoneKeeps == RoundInv /\ CapturesDone => RoundInv'
<1> SUFFICES ASSUME RoundInv, CapturesDone
             PROVE  RoundInv'
  OBVIOUS
<1>1. /\ run = "running" /\ mem.pc = "captures"
      /\ UNCHANGED <<run, barrier, transitions, ops, want, prep, past>>
      /\ \/ mem' = [mem EXCEPT !.pc = "lanes"]
         \/ mem' = [mem EXCEPT !.pc = "complete"]
  BY DEF CapturesDone, At, Blocked, Goto
<1> QED
  BY <1>1, PcIsInLane, ToLanes, ToComplete

\* The locator the attempt has settled, and where its transition stands.
LEMMA AtLocator ==
    ASSUME RoundInv, At("settled"), IsLocator
    PROVE  /\ OnItem /\ InLane /\ mem \in MemTypes /\ prep \in Preps /\ run = "running"
           /\ mem.stop = FALSE /\ mem.opened = 0
           /\ \E l \in Lanes, k \in Ranks :
                 /\ l = mem.lane /\ k = Rank /\ mem.item = Locator(k) /\ at[l] = Locator(k)
                 /\ k \in Nat /\ found[l] \in Nat /\ RowInv(l) /\ OkCaptures(l) = {}
                 /\ step[l] \in {"detail_queued", "detail_dispatch"}
<1>1. mem.pc = "settled" /\ run = "running" /\ mem.item[1] = "locator"
  BY DEF At, IsLocator
<1>2. OnItem /\ InLane
  BY <1>1 DEF OnItem, InLane
<1>3. PICK l \in Lanes, i \in Items : l = mem.lane /\ i = mem.item
  BY <1>2, ItemAtWork
<1>4. mem \in MemTypes /\ prep \in Preps /\ mem.stop = FALSE
  BY <1>1, <1>2, ItemAtWork, Zenon
<1>5. PICK k \in Ranks : i = Locator(k)
  BY <1>1, <1>3, ItemKinds, ItemNames
<1>6. k = Rank
  BY <1>3, <1>5, ItemNames DEF Rank
<1>7. mem.opened = 0
  BY <1>1, <1>2 DEF RoundInv, MemInv, OpenedIsCounted
<1>8. /\ i = at[l]
      /\ i # Cards => step[l] \in {"detail_queued", "detail_dispatch"}
  BY <1>1, <1>2, <1>3, ItemOfTransition
<1>9. i # Cards
  BY <1>5, ItemNames
<1>10. RowInv(l) /\ found[l] \in Nat /\ k \in Nat
  BY FoundHaveRanks, RankFacts DEF RoundInv
<1>11. at[l] = Locator(k)
  BY <1>5, <1>8
<1>12. OkCaptures(l) = {}
  <2>1. \A j \in Ranks : Absent(l, Capture(j))
    BY <1>10, <1>11, OrderAtLocator
  <2> QED
    BY <1>10, <2>1, NothingOpened DEF RoundInv
<1>13. /\ l = mem.lane /\ k = Rank /\ mem.item = Locator(k) /\ at[l] = Locator(k)
       /\ k \in Nat /\ found[l] \in Nat /\ RowInv(l) /\ OkCaptures(l) = {}
       /\ step[l] \in {"detail_queued", "detail_dispatch"}
  BY <1>3, <1>5, <1>6, <1>8, <1>9, <1>10, <1>11, <1>12
<1> QED
  BY <1>1, <1>2, <1>4, <1>7, <1>13, Zenon

\* The workflow goes to the locator after a settled one.
LEMMA NextLocatorKeeps == RoundInv /\ NextLocator => RoundInv'
<1> SUFFICES ASSUME RoundInv, NextLocator
             PROVE  RoundInv'
  OBVIOUS
<1>1. At("settled") /\ IsLocator
  BY DEF NextLocator
<1>2. /\ OnItem /\ InLane /\ mem \in MemTypes /\ prep \in Preps /\ run = "running"
      /\ mem.stop = FALSE /\ mem.opened = 0
  BY <1>1, AtLocator, Zenon
<1>3. PICK l \in Lanes, k \in Ranks :
          /\ l = mem.lane /\ k = Rank /\ mem.item = Locator(k) /\ at[l] = Locator(k)
          /\ k \in Nat /\ found[l] \in Nat /\ RowInv(l)
          /\ step[l] \in {"detail_queued", "detail_dispatch"}
  BY <1>1, AtLocator
<1>4. /\ k < found[l]
      /\ mem' = [mem EXCEPT !.pc = "item", !.item = Locator(k + 1),
                            !.mode = IF @ = "resume" THEN "queue" ELSE @]
      /\ UNCHANGED <<run, barrier, transitions, ops, want, prep, past>>
  BY <1>3 DEF NextLocator, Here
<1>5. k + 1 \in Ranks /\ Locator(k + 1) \in Items /\ k + 1 > k
  <2>1. k + 1 \in 1 .. found[l]
    BY <1>3, <1>4
  <2> QED
    BY <1>3, <2>1, FoundHaveRanks, ItemKinds DEF RoundInv
<1>6. mem' \in MemTypes
  BY <1>2, <1>4, <1>5 DEF MemTypes
<1>7. /\ mem'.pc = "item" /\ mem'.lane = l /\ mem'.item = Locator(k + 1)
      /\ mem'.mode # "resume" /\ (mem'.mode = "search" => mem.mode = "search")
      /\ mem'.opened = 0 /\ mem'.skips = mem.skips /\ mem'.stop = FALSE
  BY <1>2, <1>3, <1>4 DEF MemTypes
<1>8. Follows(l, Locator(k + 1))
  BY <1>3, <1>4, <1>5, OrderAtLocator, ItemNames DEF Follows
<1>9. ItemIsNext'
  <2>1. Follows(l, Locator(k + 1))'
    <3>1. CapturePlan(l)' = CapturePlan(l)
      BY <1>4 DEF CapturePlan, Settled, ops
    <3> QED
      BY <1>4, <1>8, <3>1 DEF Follows, Absent, Committed, transitions, ops
  <2> QED
    BY <1>3, <1>4, <1>5, <1>7, <2>1, ItemNames DEF ItemIsNext, Here, transitions
<1>10. ExchangeIsKnown'
  BY <1>7 DEF ExchangeIsKnown
<1>11. OpenedIsCounted'
  BY <1>7, ItemNames DEF OpenedIsCounted
<1> QED
  BY <1>2, <1>3, <1>4, <1>6, <1>7, <1>9, <1>10, <1>11, WorksInMemory

\* All locators are settled, the captures begin.
LEMMA BindCapturesKeeps == RoundInv /\ BindCaptures => RoundInv'
<1> SUFFICES ASSUME RoundInv, BindCaptures
             PROVE  RoundInv'
  OBVIOUS
<1>1. At("settled") /\ IsLocator
  BY DEF BindCaptures, LastLocator
<1>2. /\ OnItem /\ InLane /\ mem \in MemTypes /\ prep \in Preps /\ run = "running"
      /\ mem.stop = FALSE /\ mem.opened = 0
  BY <1>1, AtLocator, Zenon
<1>3. PICK l \in Lanes, k \in Ranks :
          /\ l = mem.lane /\ k = Rank /\ mem.item = Locator(k) /\ at[l] = Locator(k)
          /\ k \in Nat /\ found[l] \in Nat /\ RowInv(l) /\ OkCaptures(l) = {}
          /\ step[l] \in {"detail_queued", "detail_dispatch"}
  BY <1>1, AtLocator
<1>4. /\ k = found[l]
      /\ mem' = [mem EXCEPT !.pc = "captures", !.item = Capture(0),
                            !.mode = IF @ = "resume" THEN "queue" ELSE @]
      /\ UNCHANGED <<run, barrier, transitions, ops, want, prep, past>>
  BY <1>3 DEF BindCaptures, LastLocator, Here
<1>5. mem' \in MemTypes
  BY <1>2, <1>4 DEF MemTypes
<1>6. /\ mem'.pc = "captures" /\ mem'.lane = l /\ mem'.item = Capture(0)
      /\ mem'.mode # "resume" /\ (mem'.mode = "search" => mem.mode = "search")
      /\ mem'.opened = 0 /\ mem'.skips = mem.skips /\ mem'.stop = FALSE
  BY <1>2, <1>3, <1>4 DEF MemTypes
<1>7. ~OnItem'
  BY <1>6 DEF OnItem
<1>8. ItemIsNext' /\ ExchangeIsKnown'
  BY <1>6, <1>7 DEF ItemIsNext, ExchangeIsKnown
<1>9. OpenedIsCounted'
  <2>1. OkCaptures(l)' = {}
    BY <1>3, <1>4 DEF OkCaptures, ops
  <2>2. Cardinality(OkCaptures(l)') <= mem'.opened
    BY <1>6, <2>1, FS_EmptySet
  <2>3. /\ at'[l] = Locator(found'[l]) /\ step'[l] \in {"detail_queued", "detail_dispatch"}
        /\ 0 \in 0 .. found'[l]
    BY <1>3, <1>4 DEF transitions, ops
  <2> QED
    BY <1>6, <1>7, <2>2, <2>3 DEF OpenedIsCounted, Here
<1> QED
  BY <1>2, <1>3, <1>4, <1>5, <1>6, <1>8, <1>9, WorksInMemory

\* The counter of opened resumes is a number.
LEMMA OpenedIsNumber == mem \in MemTypes => mem.opened \in Nat
<1>1. mem \in MemTypes => mem.opened \in Ranks \cup {0}
  BY DEF MemTypes
<1>2. Ranks \cup {0} \subseteq Nat
  BY RankFacts
<1> QED
  BY <1>1, <1>2

\* A settled capture: what it adds to the resumes opened.
LEMMA CaptureSettledKeeps == RoundInv /\ CaptureSettled => RoundInv'
<1> SUFFICES ASSUME RoundInv, CaptureSettled
             PROVE  RoundInv'
  OBVIOUS
<1>1. /\ run = "running" /\ mem.pc = "settled" /\ mem.item[1] = "capture"
      /\ UNCHANGED <<run, barrier, transitions, ops, want, prep, past>>
  BY DEF CaptureSettled, At
<1>2. OnItem /\ InLane
  BY <1>1 DEF OnItem, InLane
<1>3. PICK l \in Lanes, i \in Items : l = mem.lane /\ i = mem.item /\ Op = op[l][i]
  BY <1>2, ItemAtWork
<1>4. mem \in MemTypes /\ prep \in Preps /\ mem.stop = FALSE
  BY <1>1, <1>2, ItemAtWork, Zenon
<1>5. PICK k \in Ranks : i = Capture(k)
  BY <1>1, <1>3, ItemKinds, ItemNames
<1>6. i # Cards /\ k \in Nat \ {0} /\ (\A j \in Ranks : j \in Nat \ {0})
  BY <1>5, ItemNames, RankFacts
<1>7. /\ at[l] = Capture(k) /\ step[l] \in {"detail_queued", "detail_dispatch"}
  BY <1>1, <1>2, <1>3, <1>5, <1>6, ItemOfTransition
<1>8. /\ k <= found[l] /\ \A j \in Ranks : j > k => Absent(l, Capture(j))
  BY <1>7, OrderAtCapture DEF RoundInv
<1>9. op[l][Capture(k)].phase \in {"absent", "observed"}
  BY <1>1, <1>3, <1>5 DEF RoundInv, MemInv, ExchangeIsKnown
<1>10. /\ 1 .. found[l] \subseteq Ranks /\ found[l] \in Nat
  BY FoundHaveRanks DEF RoundInv
<1>11. \A j \in Items : Absent(l, j) => op[l][j].res = "none"
  BY DEF RoundInv, RowInv, RowOperations, NoOperation
<1> DEFINE O == OkCaptures(l)
           S == SettledCaptures(l)
<1>12. S \subseteq 1 .. k
  <2> SUFFICES ASSUME NEW j \in S
               PROVE  j \in 1 .. k
    OBVIOUS
  <2>1. j \in Ranks /\ op[l][Capture(j)].phase \in {"observed", "committed"} /\ j \in Nat \ {0}
    BY <1>6, <1>10 DEF SettledCaptures, Settled
  <2>2. ~Absent(l, Capture(j))
    BY <2>1 DEF Absent
  <2> QED
    BY <1>6, <1>8, <2>1, <2>2
<1>13. IsFiniteSet(S) /\ Cardinality(S) \in Nat /\ Cardinality(S) <= k
  BY <1>6, <1>12, CountUpTo
<1>14. O \subseteq S
  <2> SUFFICES ASSUME NEW j \in Ranks, op[l][Capture(j)].res = "ok"
               PROVE  j \in S
    BY DEF OkCaptures
  <2>1. ~Absent(l, Capture(j))
    BY <1>11, ItemKinds
  <2>2. j <= k /\ j \in 1 .. found[l]
    BY <1>6, <1>8, <1>10, <2>1
  <2>3. op[l][Capture(j)].phase \in {"observed", "committed"}
    <3>1. CASE j = k
      BY <1>9, <2>1, <3>1 DEF Absent
    <3>2. CASE j # k
      <4>1. Capture(j) # at[l] /\ Capture(j) \in Items
        BY <1>7, <3>2, ItemNames, ItemKinds
      <4> QED
        BY <2>1, <4>1 DEF RoundInv, RowInv, RowOperations, Absent, Committed
    <3> QED
      BY <3>1, <3>2
  <2> QED
    BY <2>2, <2>3 DEF SettledCaptures, Settled
<1>15. IsFiniteSet(O) /\ Cardinality(O) \in Nat /\ Cardinality(O) <= Cardinality(S)
  BY <1>13, <1>14, FS_Subset, FS_CardinalityType
<1>16. PICK n \in Nat :
          /\ n <= k /\ Cardinality(O) <= n
          /\ mem' = [mem EXCEPT !.pc = "captures", !.opened = n,
                                !.mode = IF @ = "resume" THEN "queue" ELSE @]
  <2>1. CASE mem.mode = "resume"
    <3>1. Cardinality(SettledCaptures(Here)) = Cardinality(S)
      BY <1>3 DEF Here
    <3>2. mem' = [mem EXCEPT !.pc = "captures", !.opened = Cardinality(S),
                             !.mode = IF @ = "resume" THEN "queue" ELSE @]
      BY <2>1, <3>1 DEF CaptureSettled
    <3> QED
      BY <1>13, <1>15, <3>2
  <2>2. CASE mem.mode # "resume"
    <3> DEFINE m == IF Ok THEN mem.opened + 1 ELSE mem.opened
    <3>1. /\ mem.opened \in Nat /\ mem.opened < k /\ Cardinality(O \ {k}) <= mem.opened
      <4>1. mem.opened \in Nat
        BY <1>4, OpenedIsNumber
      <4> QED
        BY <1>2, <1>3, <1>5, <2>2, <4>1 DEF RoundInv, MemInv, OpenedIsCounted, Here
    <3>2. mem' = [mem EXCEPT !.pc = "captures", !.opened = m,
                             !.mode = IF @ = "resume" THEN "queue" ELSE @]
      BY <2>2 DEF CaptureSettled
    <3>3. IsFiniteSet(O \ {k}) /\ Cardinality(O \ {k}) \in Nat
      BY <1>15, FS_Subset, FS_CardinalityType
    <3>4. CASE Ok
      <4>1. Cardinality(O) <= Cardinality(O \ {k}) + 1
        BY <1>15, FS_RemoveElement
      <4>2. m = mem.opened + 1
        BY <3>4
      <4>3. m \in Nat /\ m <= k /\ Cardinality(O) <= m
        BY <1>6, <1>15, <3>1, <3>3, <4>1, <4>2
      <4> HIDE DEF m, O
      <4> QED
        BY <3>2, <4>3
    <3>5. CASE ~Ok
      <4>1. op[l][Capture(k)].res # "ok"
        <5>1. CASE Absent(l, Capture(k))
          BY <1>11, <5>1, ItemKinds
        <5>2. CASE ~Absent(l, Capture(k))
          BY <1>3, <1>5, <1>9, <3>5, <5>2 DEF Ok, Settled, Absent
        <5> QED
          BY <5>1, <5>2
      <4>2. O = O \ {k}
        BY <4>1 DEF OkCaptures
      <4>3. m = mem.opened
        BY <3>5
      <4>4. m \in Nat /\ m <= k /\ Cardinality(O) <= m
        BY <1>6, <3>1, <4>2, <4>3
      <4> HIDE DEF m, O
      <4> QED
        BY <3>2, <4>4
    <3> QED
      BY <3>4, <3>5
  <2> QED
    BY <2>1, <2>2
<1>17. n \in Ranks \cup {0}
  <2>1. \A j \in 1 .. k : j \in Ranks
    BY RankFacts
  <2> QED
    BY <1>6, <1>16, <2>1
<1>18. mem' \in MemTypes
  BY <1>4, <1>16, <1>17 DEF MemTypes
<1>19. /\ mem'.pc = "captures" /\ mem'.lane = l /\ mem'.item = Capture(k)
       /\ mem'.mode # "resume" /\ (mem'.mode = "search" => mem.mode = "search")
       /\ mem'.opened = n /\ mem'.skips = mem.skips /\ mem'.stop = FALSE
  BY <1>3, <1>4, <1>5, <1>16 DEF MemTypes
<1>20. ~OnItem'
  BY <1>19 DEF OnItem
<1>21. ItemIsNext' /\ ExchangeIsKnown'
  BY <1>19, <1>20 DEF ItemIsNext, ExchangeIsKnown
<1>22. OpenedIsCounted'
  <2>1. OkCaptures(l)' = O
    BY <1>1 DEF OkCaptures, ops
  <2>2. Cardinality(OkCaptures(l)') <= n
    BY <1>16, <2>1
  <2>3. /\ at'[l] = Capture(k) /\ step'[l] \in {"detail_queued", "detail_dispatch"}
        /\ k \in 0 .. found'[l] /\ n <= k /\ k # 0
    BY <1>1, <1>6, <1>7, <1>8, <1>10, <1>16 DEF transitions, ops
  <2> HIDE DEF O
  <2> QED
    BY <1>19, <1>20, <2>2, <2>3 DEF OpenedIsCounted, Here
<1> QED
  BY <1>1, <1>2, <1>3, <1>4, <1>18, <1>19, <1>21, <1>22, WorksInMemory

\* The next capture is untouched, and nothing untried lies before it.
LEMMA NextCaptureKeeps == RoundInv /\ NextCapture => RoundInv'
<1> SUFFICES ASSUME RoundInv, NextCapture
             PROVE  RoundInv'
  OBVIOUS
<1>1. /\ run = "running" /\ mem.pc = "captures" /\ mem.opened < want[Here] /\ Untried # {}
      /\ mem' = [mem EXCEPT !.pc = "item", !.item = Capture(Min(Untried))]
      /\ UNCHANGED <<run, barrier, transitions, ops, want, prep, past>>
  BY DEF NextCapture, At
<1>2. InLane
  BY <1>1, PcIsInLane
<1>3. PICK l \in Lanes : l = mem.lane
  BY <1>2, LaneAtWork
<1>4. mem \in MemTypes /\ prep \in Preps /\ mem.stop = FALSE
  BY <1>1, <1>2, LaneAtWork, StopIsOver
<1>5. /\ 1 .. found[l] \subseteq Ranks /\ found[l] \in Nat
  BY FoundHaveRanks DEF RoundInv
<1>6. /\ mem.mode # "resume" /\ step[l] \in {"detail_queued", "detail_dispatch"}
      /\ Cardinality(OkCaptures(l)) <= mem.opened
  BY <1>1, <1>3 DEF RoundInv, MemInv, OpenedIsCounted, Here
<1>7. PICK r \in 0 .. found[l] :
          /\ mem.item = Capture(r) /\ mem.opened <= r
          /\ r > 0 => at[l] = Capture(r)
          /\ r = 0 => \/ at[l] = Locator(found[l])
                      \/ \E m \in CapturePlan(l) :
                            /\ at[l] = Capture(m) /\ step[l] = "detail_queued"
                            /\ \A j \in CapturePlan(l) : m <= j
  BY <1>1, <1>3 DEF RoundInv, MemInv, OpenedIsCounted, Here
<1>8. Untried = {j \in CapturePlan(l) : j > r /\ <<l, j>> \notin Seen}
  <2>1. Rank = r
    BY <1>7, ItemNames DEF Rank
  <2> QED
    BY <1>3, <2>1 DEF Untried, Here
<1>9. CapturePlan(l) \subseteq 1 .. found[l]
  BY DEF CapturePlan
<1>10. PICK k \in CapturePlan(l) :
          /\ k = Min(Untried) /\ k > r /\ \A j \in Untried : k <= j
  <2>1. Untried \subseteq Nat
    BY <1>5, <1>8, <1>9
  <2>2. Min(Untried) \in Untried /\ \A j \in Untried : Min(Untried) <= j
    BY <1>1, <2>1, MinIsLeast
  <2> QED
    BY <1>8, <2>2
<1>11. /\ k \in Ranks /\ k <= found[l] /\ k \in Nat /\ r \in Nat /\ Capture(k) \in Items
       /\ \A j \in CapturePlan(l) : j \in Nat /\ j \in Ranks
       /\ \A j \in Ranks : j \in Nat
  BY <1>5, <1>7, <1>9, <1>10, ItemKinds, RankFacts
<1>12. \A j \in CapturePlan(l) : j < k /\ <<l, j>> \notin Seen => j <= r
  BY <1>8, <1>10, <1>11
<1>13. RowInv(l) /\ TypeOK
  BY DEF RoundInv
<1>14. \/ Capture(k) = at[l] /\ Absent(l, at[l])
       \/ Follows(l, Capture(k))
  <2>1. CASE r > 0
    <3>1. at[l] = Capture(r) /\ r \in Ranks
      BY <1>5, <1>7, <2>1
    <3>2. Absent(l, Capture(k))
      BY <1>10, <1>11, <1>13, <3>1, OrderAtCapture
    <3>3. \A j \in CapturePlan(l) :
             j < k /\ <<l, j>> \notin Seen => Committed(l, Capture(j)) \/ at[l] = Capture(j)
      <4> SUFFICES ASSUME NEW j \in CapturePlan(l), j < k, <<l, j>> \notin Seen, j # r
                   PROVE  Committed(l, Capture(j))
        BY <3>1
      <4>1. j < r
        BY <1>11, <1>12
      <4> QED
        BY <1>13, <3>1, <4>1, OrderAtCapture
    <3> QED
      BY <1>6, <1>10, <1>11, <3>1, <3>2, <3>3, ItemNames DEF Follows
  <2>2. CASE r = 0
    <3>1. CASE at[l] = Locator(found[l])
      <4>1. found[l] \in Ranks
        BY <1>5, <1>11
      <4>2. Absent(l, Capture(k))
        BY <1>11, <1>13, <3>1, <4>1, OrderAtLocator
      <4>3. \A j \in CapturePlan(l) : ~(j < k /\ <<l, j>> \notin Seen)
        BY <1>9, <1>11, <1>12, <2>2
      <4> QED
        BY <1>6, <1>11, <3>1, <4>2, <4>3, ItemNames DEF Follows
    <3>2. ASSUME NEW m \in CapturePlan(l), at[l] = Capture(m), step[l] = "detail_queued",
                 \A j \in CapturePlan(l) : m <= j
          PROVE  \/ Capture(k) = at[l] /\ Absent(l, at[l])
                 \/ Follows(l, Capture(k))
      <4>1. m <= k /\ m \in Ranks /\ m \in Nat
        BY <1>11, <3>2
      <4>2. CASE m = k
        BY <1>13, <3>2, <4>2 DEF RowInv, RowShape
      <4>3. CASE m < k
        <5>1. Absent(l, Capture(k))
          BY <1>11, <1>13, <3>2, <4>1, <4>3, OrderAtCapture
        <5>2. \A j \in CapturePlan(l) : ~(j < k /\ <<l, j>> \notin Seen)
          BY <1>9, <1>11, <1>12, <2>2
        <5> QED
          BY <1>6, <1>11, <3>2, <4>1, <4>3, <5>1, <5>2, ItemNames DEF Follows
      <4> QED
        BY <1>11, <4>1, <4>2, <4>3
    <3> QED
      BY <1>7, <2>2, <3>1, <3>2
  <2> QED
    BY <1>7, <1>11, <2>1, <2>2
<1>15. mem' \in MemTypes
  BY <1>1, <1>4, <1>10, <1>11 DEF MemTypes
<1>16. /\ mem'.pc = "item" /\ mem'.lane = l /\ mem'.item = Capture(k) /\ mem'.mode = mem.mode
       /\ mem'.opened = mem.opened /\ mem'.skips = mem.skips /\ mem'.stop = FALSE
  BY <1>1, <1>3, <1>4, <1>10 DEF MemTypes
<1>17. ItemIsNext'
  <2>1. Follows(l, Capture(k)) => Follows(l, Capture(k))'
    <3>1. CapturePlan(l)' = CapturePlan(l)
      BY <1>1 DEF CapturePlan, Settled, ops
    <3> QED
      BY <1>1, <3>1 DEF Follows, Absent, Committed, transitions, ops
  <2> QED
    BY <1>1, <1>3, <1>6, <1>11, <1>14, <1>16, <2>1, ItemNames
       DEF ItemIsNext, Here, transitions
<1>18. ExchangeIsKnown'
  BY <1>16 DEF ExchangeIsKnown
<1>19. OpenedIsCounted'
  <2>1. OkCaptures(l)' = OkCaptures(l) /\ want'[l] = want[l]
    BY <1>1 DEF OkCaptures, ops
  <2>2. Cardinality(OkCaptures(l) \ {k}) <= mem.opened
    <3>1. IsFiniteSet(OkCaptures(l))
      BY RankFacts, FS_Subset DEF OkCaptures
    <3>2. /\ Cardinality(OkCaptures(l) \ {k}) <= Cardinality(OkCaptures(l))
          /\ Cardinality(OkCaptures(l)) \in Nat /\ Cardinality(OkCaptures(l) \ {k}) \in Nat
      BY <3>1, FS_Subset, FS_CardinalityType
    <3>3. mem.opened \in Nat
      BY <1>4, OpenedIsNumber
    <3> QED
      BY <1>6, <3>2, <3>3
  <2>3. mem.opened < k
    <3>1. mem.opened \in Nat
      BY <1>4, OpenedIsNumber
    <3> QED
      BY <1>7, <1>10, <1>11, <3>1
  <2>4. mem.opened < want[l]
    BY <1>1, <1>3 DEF Here
  <2>5. \A j \in Ranks : mem'.item = Capture(j) => j = k
    BY <1>16, ItemNames
  <2>6. mem'.item[1] = "capture" /\ mem'.pc # "captures"
    BY <1>16, ItemNames
  <2> QED
    BY <1>16, <2>1, <2>2, <2>3, <2>4, <2>5, <2>6 DEF OpenedIsCounted, Here
<1> QED
  BY <1>1, <1>2, <1>3, <1>4, <1>15, <1>16, <1>17, <1>18, <1>19, WorksInMemory

-----------------------------------------------------------------------------
(* Exchanges about an item.                                                *)

\* An operation under way has an active lane, and the epoch its transition names.
LEMMA UnderWay ==
    ASSUME RoundInv, NEW l \in Lanes, NEW i \in Items, i = at[l],
           ~Absent(l, i), ~Committed(l, i)
    PROVE  /\ lane[l] = "active" /\ epoch[l] = op[l][i].ord
           /\ step[l] = IF i = Cards THEN "source_dispatch" ELSE "detail_dispatch"
<1>1. step[l] \in {"none", "source_dispatch", "detail_queued", "detail_dispatch",
                   "lane_completed"} /\ RowShape(l)
  BY DEF RoundInv, TypeOK, RowInv
<1> QED
  BY <1>1 DEF RowShape

\* What a step of an exchange does: operation i of lane l, the one of the transition,
\* becomes o and the attempt goes to p.
ExchangeRows(l, i, o) ==
    /\ op' \in [Lanes -> [Items -> Operation]] /\ op'[l][i] = o
    /\ \A j \in Items \ {i} : op'[l][j] = op[l][j]
    /\ \A m \in Lanes \ {l} : op'[m] = op[m]
    /\ step' = [step EXCEPT ![l] = IF i = Cards THEN "source_dispatch" ELSE "detail_dispatch"]
    /\ epoch' = [epoch EXCEPT ![l] = o.ord]
    /\ \/ found' = found
       \/ i = Cards /\ \E n \in 0 .. MaxCards[l] : found' = [found EXCEPT ![l] = n]
    /\ unknowns' \in 0 .. MaxUnknowns /\ unknowns' >= unknowns /\ o.ord <= unknowns' + 1
    /\ o.phase \in {"unknown", "safe_retry"} => o.ord <= unknowns'
    /\ UNCHANGED <<run, attended, barrier, lane, at, want, prep, crashes>>

ExchangeMem(o, p) ==
    /\ mem' \in MemTypes /\ mem'.pc = p /\ mem'.lane = mem.lane /\ mem'.item = mem.item
    /\ mem'.mode = mem.mode /\ mem'.opened = mem.opened /\ mem'.skips = mem.skips
    /\ p \in {"send", "ack"} => o.phase = "pending"
    /\ p = "observe" => o.phase \in {"pending", "acked"}
    /\ p = "observe" /\ mem'.stop => o.ord <= unknowns'
    /\ p = "settled" => o.phase = "observed"
    /\ mem'.stop => p \in {"observe", "lanes"}

\* An exchange about the item of the transition, as a step of rows and locals.
LEMMA Exchange ==
    ASSUME RoundInv, OnItem, run = "running",
           NEW l \in Lanes, l = mem.lane, NEW i \in Items, i = mem.item, i = at[l],
           lane[l] = "active", i = Cards => mem.mode = "search",
           NEW o \in Operation, o.phase \notin {"absent", "committed"},
           ExchangeRows(l, i, o),
           NEW p \in {"send", "ack", "observe", "settled", "lanes"}, ExchangeMem(o, p)
    PROVE  RoundInv'
<1> DEFINE s == IF i = Cards THEN "source_dispatch" ELSE "detail_dispatch"
<1>1. /\ step'[l] = s /\ epoch'[l] = o.ord
      /\ \A m \in Lanes \ {l} : /\ step'[m] = step[m] /\ epoch'[m] = epoch[m]
                                /\ found'[m] = found[m]
  BY DEF ExchangeRows, RoundInv, TypeOK
<1>2. /\ found' = found \/ (i = Cards /\ \E n \in 0 .. MaxCards[l] :
                                        found' = [found EXCEPT ![l] = n])
      /\ found'[l] = found[l] \/ (i = Cards /\ found'[l] <= MaxCards[l])
  <2>1. CASE found' = found
    BY <2>1
  <2>2. ASSUME NEW n \in 0 .. MaxCards[l], i = Cards, found' = [found EXCEPT ![l] = n]
        PROVE  found'[l] <= MaxCards[l]
    <3>1. found'[l] = n
      BY <2>2 DEF RoundInv, TypeOK
    <3> QED
      BY <2>2, <3>1, RankFacts
  <2> QED
    BY <2>1, <2>2 DEF ExchangeRows
<1>3. TypeOK'
  <2>1. step' \in [Lanes -> {"none", "source_dispatch", "detail_queued", "detail_dispatch",
                             "lane_completed"}]
    BY DEF ExchangeRows, RoundInv, TypeOK
  <2>2. epoch' \in [Lanes -> 0 .. (MaxUnknowns + 1)]
    BY DEF ExchangeRows, RoundInv, TypeOK, Operation
  <2>3. found' \in [Lanes -> Ranks \cup {0}]
    <3>1. CASE found' = found
      BY <3>1 DEF RoundInv, TypeOK
    <3>2. ASSUME NEW n \in 0 .. MaxCards[l], found' = [found EXCEPT ![l] = n]
          PROVE  found' \in [Lanes -> Ranks \cup {0}]
      <4>1. n \in Ranks \cup {0}
        <5>1. MaxCards[l] \in Nat /\ 1 .. MaxCards[l] \subseteq Ranks
          BY RankFacts
        <5>2. n = 0 \/ n \in 1 .. MaxCards[l]
          BY <5>1
        <5> QED
          BY <5>1, <5>2
      <4> QED
        BY <3>2, <4>1 DEF RoundInv, TypeOK
    <3> QED
      BY <1>2, <3>1, <3>2
  <2>4. op' \in [Lanes -> [Items ->
                  [phase : {"absent", "pending", "acked", "observed", "committed", "unknown",
                            "safe_retry", "concluded"},
                   ord : 0 .. (MaxUnknowns + 1), res : {"none", "ok", "failed"}]]]
    BY DEF ExchangeRows, Operation, Phases
  <2> QED
    BY <2>1, <2>2, <2>3, <2>4 DEF ExchangeRows, ExchangeMem, RoundInv, TypeOK, MemTypes
<1>4. \A m \in Lanes \ {l} : SameRow(m)
  BY <1>1 DEF SameRow, ExchangeRows
<1>5. \A m \in Lanes : RowInv(m)'
  <2>1. unknowns' \in Nat /\ unknowns' >= unknowns
    BY PlanAssumption DEF ExchangeRows
  <2>2. RowInv(l) /\ TypeOK
    BY DEF RoundInv
  <2>3. RowInv(l)'
    BY <1>1, <1>2, <2>1, <2>2, RowExchanged DEF ExchangeRows
  <2> QED
    BY <1>4, <2>1, <2>3, OneRow
<1>6. LaneIsOpen' /\ SkipsArePending' /\ RoundIsOpen'
  <2>1. /\ InLane /\ run' = run /\ barrier' = barrier /\ mem'.lane = mem.lane
        /\ mem'.skips = mem.skips /\ mem'.pc # "idle" /\ mem'.mode = mem.mode
    BY DEF InLane, ExchangeRows, ExchangeMem
  <2> QED
    BY <1>4, <2>1, StaysInLane
<1>7. /\ mem'.lane = l /\ mem'.item = i /\ mem'.pc = p /\ at'[l] = i /\ lane'[l] = "active"
      /\ op'[l][i] = o /\ mem'.mode = mem.mode /\ mem'.opened = mem.opened
      /\ want' = want /\ \A j \in Items \ {i} : op'[l][j] = op[l][j]
  BY DEF ExchangeRows, ExchangeMem
<1>8. ItemIsNext'
  BY <1>1, <1>7 DEF ItemIsNext, Here
<1>9. ExchangeIsKnown'
  <2>1. Op' = o
    BY <1>7 DEF Op, Here
  <2>2. mem'.pc \notin {"preparing", "ready"} /\ (InLane' => p # "lanes")
    BY <1>7 DEF InLane, OnItem
  <2> QED
    BY <1>7, <2>1, <2>2, Zenon DEF ExchangeIsKnown, ExchangeMem
<1>10. OpenedIsCounted'
  <2>1. \A k \in Ranks : i = Capture(k) => OkCaptures(l)' \ {k} = OkCaptures(l) \ {k}
    <3> SUFFICES ASSUME NEW k \in Ranks, i = Capture(k)
                 PROVE  OkCaptures(l)' \ {k} = OkCaptures(l) \ {k}
      OBVIOUS
    <3>1. \A j \in Ranks \ {k} : Capture(j) \in Items \ {i}
      BY ItemKinds, ItemNames
    <3> QED
      BY <1>7, <3>1 DEF OkCaptures
  <2>2. i[1] # "capture" => mem'.opened = 0
    BY <1>7 DEF RoundInv, MemInv, OpenedIsCounted
  <2>3. mem'.mode # "resume" => \A k \in Ranks : i = Capture(k) =>
            /\ mem'.opened < k /\ mem'.opened < want'[l]
            /\ Cardinality(OkCaptures(l)' \ {k}) <= mem'.opened
    BY <1>7, <2>1 DEF RoundInv, MemInv, OpenedIsCounted, Here
  <2> QED
    BY <1>7, <2>2, <2>3 DEF OpenedIsCounted, Here
<1> QED
  BY <1>3, <1>5, <1>6, <1>8, <1>9, <1>10 DEF RoundInv, MemInv

\* accept_source_operation creates the operation.
LEMMA AcceptKeeps == RoundInv /\ Accept => RoundInv'
<1> SUFFICES ASSUME RoundInv, Accept
             PROVE  RoundInv'
  OBVIOUS
<1>1. run = "running" /\ mem.pc = "ready"
  BY DEF Accept, At
<1>2. OnItem
  BY <1>1 DEF OnItem
<1>3. PICK l \in Lanes, i \in Items : l = mem.lane /\ i = mem.item /\ Op = op[l][i]
  BY <1>2, ItemAtWork
<1>4. mem \in MemTypes /\ mem.stop = FALSE
  BY <1>1, <1>2, ItemAtWork, Zenon
<1>5. PICK o \in Operation : o = [phase |-> "pending", ord |-> 1, res |-> "none"]
  <2>1. 1 \in 0 .. (MaxUnknowns + 1)
    BY PlanAssumption
  <2> QED
    BY <2>1 DEF Operation, Phases
<1>6. /\ op' = [op EXCEPT ![l][i] = o]
      /\ step' = [step EXCEPT ![l] = IF i = Cards THEN "source_dispatch"
                                                  ELSE "detail_dispatch"]
      /\ epoch' = [epoch EXCEPT ![l] = o.ord] /\ o.ord = 1 /\ o.phase = "pending"
      /\ mem' = [mem EXCEPT !.pc = "send"]
      /\ UNCHANGED <<run, barrier, lane, at, found, want, prep, past>>
  BY <1>3, <1>5 DEF Accept, Here, Goto
<1>7. mem' \in MemTypes
  BY <1>4, <1>6 DEF MemTypes
<1>8. /\ mem'.pc = "send" /\ mem'.lane = mem.lane /\ mem'.item = mem.item
      /\ mem'.mode = mem.mode /\ mem'.opened = mem.opened /\ mem'.skips = mem.skips
      /\ mem'.stop = FALSE
  BY <1>4, <1>6 DEF MemTypes
<1>9. /\ i = at[l]
      /\ i = Cards => mem.mode = "search"
      /\ i # Cards => step[l] \in {"detail_queued", "detail_dispatch"}
  BY <1>1, <1>2, <1>3, ItemOfTransition
<1>10. lane[l] = "active"
  <2>1. i = Cards => step[l] = "source_dispatch"
    BY <1>1, <1>3 DEF RoundInv, MemInv, ExchangeIsKnown, Here
  <2> QED
    BY <1>9, <2>1 DEF RoundInv, RowInv, RowShape
<1>11. /\ op' \in [Lanes -> [Items -> Operation]] /\ op'[l][i] = o
       /\ \A j \in Items \ {i} : op'[l][j] = op[l][j]
       /\ \A m \in Lanes \ {l} : op'[m] = op[m]
  BY <1>6 DEF RoundInv, TypeOK, Operation, Phases
<1>12. unknowns' \in 0 .. MaxUnknowns /\ unknowns' >= unknowns /\ crashes' = crashes /\ attended' = attended
       /\ o.ord <= unknowns' + 1
  <2>1. unknowns' = unknowns /\ unknowns \in 0 .. MaxUnknowns /\ crashes' = crashes /\ attended' = attended
    BY <1>6 DEF past, RoundInv, TypeOK
  <2> QED
    BY <1>6, <2>1, PlanAssumption
<1>13. ExchangeRows(l, i, o)
  BY <1>6, <1>11, <1>12 DEF ExchangeRows
<1>14. ExchangeMem(o, "send")
  BY <1>6, <1>7, <1>8, Zenon DEF ExchangeMem
<1> QED
  BY <1>1, <1>2, <1>3, <1>6, <1>9, <1>10, <1>13, <1>14, Exchange

\* The item of an exchange that is under way.
LEMMA ExchangeAtWork ==
    ASSUME RoundInv, OnItem, Op.phase \notin {"absent", "committed"}
    PROVE  \E l \in Lanes, i \in Items :
              /\ l = mem.lane /\ i = mem.item /\ Op = op[l][i] /\ i = at[l]
              /\ lane[l] = "active" /\ epoch[l] = op[l][i].ord
              /\ step[l] = IF i = Cards THEN "source_dispatch" ELSE "detail_dispatch"
              /\ i = Cards => mem.mode = "search"
              /\ op[l][i].ord \in 0 .. (MaxUnknowns + 1) /\ op[l][i].ord <= unknowns + 1
              /\ op[l][i].phase \in {"unknown", "safe_retry"} => op[l][i].ord <= unknowns
<1>1. PICK l \in Lanes, i \in Items : l = mem.lane /\ i = mem.item /\ Op = op[l][i]
  BY ItemAtWork
<1>2. ~Absent(l, i) /\ ~Committed(l, i)
  BY <1>1 DEF Absent, Committed
<1>3. i = at[l] /\ (i = Cards => mem.mode = "search")
  BY <1>1, <1>2, ItemOfTransition
<1>4. /\ lane[l] = "active" /\ epoch[l] = op[l][i].ord
      /\ step[l] = IF i = Cards THEN "source_dispatch" ELSE "detail_dispatch"
  BY <1>2, <1>3, UnderWay
<1>5. /\ op[l][i].ord \in 0 .. (MaxUnknowns + 1) /\ op[l][i].ord <= unknowns + 1
      /\ op[l][i].phase \in {"unknown", "safe_retry"} => op[l][i].ord <= unknowns
  BY DEF RoundInv, TypeOK, RowInv, RowOperations
<1> QED
  BY <1>1, <1>3, <1>4, <1>5

\* The rows of an exchange that leaves the transition as it is.
LEMMA SameTransition ==
    ASSUME RoundInv, NEW l \in Lanes, NEW i \in Items, epoch[l] = op[l][i].ord,
           step[l] = IF i = Cards THEN "source_dispatch" ELSE "detail_dispatch",
           NEW o \in Operation, o.ord = op[l][i].ord,
           step' = step, epoch' = epoch
    PROVE  /\ step' = [step EXCEPT ![l] = IF i = Cards THEN "source_dispatch"
                                                       ELSE "detail_dispatch"]
           /\ epoch' = [epoch EXCEPT ![l] = o.ord]
<1>1. DOMAIN step = Lanes /\ DOMAIN epoch = Lanes
      /\ step = [m \in Lanes |-> step[m]] /\ epoch = [m \in Lanes |-> epoch[m]]
  BY DEF RoundInv, TypeOK
<1> QED
  BY <1>1

\* An operation that only moves to another phase.
LEMMA PhaseRows ==
    ASSUME RoundInv, NEW l \in Lanes, NEW i \in Items, epoch[l] = op[l][i].ord,
           step[l] = IF i = Cards THEN "source_dispatch" ELSE "detail_dispatch",
           NEW q \in Phases, op' = [op EXCEPT ![l][i].phase = q],
           op[l][i].ord <= unknowns + 1,
           q \in {"unknown", "safe_retry"} => op[l][i].ord <= unknowns,
           UNCHANGED <<run, barrier, transitions, found, want, prep, past>>
    PROVE  \E o \in Operation : o.phase = q /\ o.ord = op[l][i].ord /\ ExchangeRows(l, i, o)
<1>1. /\ op' \in [Lanes -> [Items -> Operation]]
      /\ op'[l][i].phase = q /\ op'[l][i].ord = op[l][i].ord
      /\ \A j \in Items \ {i} : op'[l][j] = op[l][j]
      /\ \A m \in Lanes \ {l} : op'[m] = op[m]
  <2>1. TypeOK
    BY DEF RoundInv
  <2> QED
    BY <2>1, PhaseReplaced
<1>2. PICK o \in Operation : op'[l][i] = o
  BY <1>1
<1>3. o.phase = q /\ o.ord = op[l][i].ord
  BY <1>1, <1>2
<1>4. /\ step' = step /\ epoch' = epoch /\ lane' = lane /\ at' = at
      /\ crashes' = crashes /\ attended' = attended /\ unknowns' = unknowns
  BY DEF transitions, past
<1>5. /\ step' = [step EXCEPT ![l] = IF i = Cards THEN "source_dispatch"
                                                  ELSE "detail_dispatch"]
      /\ epoch' = [epoch EXCEPT ![l] = o.ord]
  BY <1>3, <1>4, SameTransition
<1>6. unknowns' \in 0 .. MaxUnknowns /\ unknowns' >= unknowns
  BY <1>4 DEF RoundInv, TypeOK
<1>7. o.ord <= unknowns' + 1 /\ (o.phase \in {"unknown", "safe_retry"} => o.ord <= unknowns')
  BY <1>3, <1>4
<1>8. ExchangeRows(l, i, o)
  BY <1>1, <1>2, <1>4, <1>5, <1>6, <1>7 DEF ExchangeRows
<1> QED
  BY <1>3, <1>8

\* The work of the sidecar, with or without the loss of its answer.
LEMMA EffectRows ==
    ASSUME RoundInv, NEW l \in Lanes, NEW i \in Items, epoch[l] = op[l][i].ord,
           l = mem.lane, i = mem.item,
           step[l] = IF i = Cards THEN "source_dispatch" ELSE "detail_dispatch",
           Effect \/ UNCHANGED ops, op[l][i].phase = "pending",
           op[l][i].ord <= unknowns + 1,
           unknowns' \in 0 .. MaxUnknowns, unknowns' >= unknowns,
           UNCHANGED <<run, attended, barrier, transitions, want, prep, crashes>>
    PROVE  \E o \in Operation :
              o.phase = "pending" /\ o.ord = op[l][i].ord /\ ExchangeRows(l, i, o)
<1>1. /\ op' \in [Lanes -> [Items -> Operation]]
      /\ op'[l][i].phase = "pending" /\ op'[l][i].ord = op[l][i].ord
      /\ \A j \in Items \ {i} : op'[l][j] = op[l][j]
      /\ \A m \in Lanes \ {l} : op'[m] = op[m]
      /\ \/ found' = found
         \/ i = Cards /\ \E n \in 0 .. MaxCards[l] : found' = [found EXCEPT ![l] = n]
  <2>1. CASE UNCHANGED ops
    BY <2>1 DEF ops, RoundInv, TypeOK, Operation, Phases
  <2>2. ASSUME NEW r \in {"ok", "failed"}, op' = [op EXCEPT ![l][i].res = r]
        PROVE  /\ op' \in [Lanes -> [Items -> Operation]]
               /\ op'[l][i].phase = "pending" /\ op'[l][i].ord = op[l][i].ord
               /\ \A j \in Items \ {i} : op'[l][j] = op[l][j]
               /\ \A m \in Lanes \ {l} : op'[m] = op[m]
    <3>1. op \in [Lanes -> [Items -> Operation]]
      BY DEF RoundInv, TypeOK, Operation, Phases
    <3>2. op[l][i] \in Operation /\ op[l][i].phase = "pending"
      BY <3>1
    <3> DEFINE o == [op[l][i] EXCEPT !.res = r]
    <3>3. o \in Operation /\ o.phase = "pending" /\ o.ord = op[l][i].ord
      BY <3>2 DEF Operation
    <3>4. op' = [op EXCEPT ![l] = [op[l] EXCEPT ![i] = o]]
      BY <2>2
    <3> HIDE DEF o
    <3> QED
      BY <3>1, <3>3, <3>4
  <2>3. CASE ~UNCHANGED ops
    <3>1. \E r \in {"ok", "failed"} :
             /\ op' = [op EXCEPT ![l][i].res = r]
             /\ \/ found' = found
                \/ i = Cards /\ \E n \in 0 .. MaxCards[l] : found' = [found EXCEPT ![l] = n]
      <4>1. PICK r \in {"ok", "failed"} :
               /\ op' = [op EXCEPT ![Here][mem.item].res = r]
               /\ IF mem.item = Cards /\ r = "ok"
                    THEN \E n \in 0 .. MaxCards[Here] : found' = [found EXCEPT ![Here] = n]
                    ELSE UNCHANGED found
        BY <2>3, Zenon DEF Effect
      <4>2. op' = [op EXCEPT ![l][i].res = r]
        BY <4>1 DEF Here
      <4>3. \/ found' = found
            \/ i = Cards /\ \E n \in 0 .. MaxCards[l] : found' = [found EXCEPT ![l] = n]
        BY <4>1 DEF Here
      <4> QED
        BY <4>2, <4>3
    <3> QED
      BY <2>2, <3>1
  <2> QED
    BY <2>1, <2>3
<1>2. PICK o \in Operation : op'[l][i] = o
  BY <1>1
<1>3. o.phase = "pending" /\ o.ord = op[l][i].ord
  BY <1>1, <1>2
<1>4. step' = step /\ epoch' = epoch /\ lane' = lane /\ at' = at
  BY DEF transitions
<1>5. /\ step' = [step EXCEPT ![l] = IF i = Cards THEN "source_dispatch"
                                                  ELSE "detail_dispatch"]
      /\ epoch' = [epoch EXCEPT ![l] = o.ord]
  BY <1>3, <1>4, SameTransition
<1>6. o.ord <= unknowns' + 1
  <2>1. unknowns \in Nat /\ unknowns' \in Nat /\ o.ord \in Nat
    BY PlanAssumption DEF RoundInv, TypeOK, Operation
  <2> QED
    BY <1>3, <2>1
<1>7. ExchangeRows(l, i, o)
  BY <1>1, <1>2, <1>3, <1>4, <1>5, <1>6 DEF ExchangeRows
<1> QED
  BY <1>3, <1>7

\* The acknowledgement is recorded.
LEMMA AckKeeps == RoundInv /\ Ack => RoundInv'
<1> SUFFICES ASSUME RoundInv, Ack
             PROVE  RoundInv'
  OBVIOUS
<1>1. /\ run = "running" /\ mem.pc = "ack" /\ mem' = [mem EXCEPT !.pc = "observe"]
      /\ op' = [op EXCEPT ![Here][mem.item].phase = "acked"]
      /\ UNCHANGED <<run, barrier, transitions, found, want, prep, past>>
  BY DEF Ack, At, Goto
<1>2. OnItem /\ Op.phase \notin {"absent", "committed"}
  BY <1>1 DEF OnItem, RoundInv, MemInv, ExchangeIsKnown
<1>3. PICK l \in Lanes, i \in Items :
          /\ l = mem.lane /\ i = mem.item /\ Op = op[l][i] /\ i = at[l]
          /\ lane[l] = "active" /\ epoch[l] = op[l][i].ord
          /\ step[l] = IF i = Cards THEN "source_dispatch" ELSE "detail_dispatch"
          /\ i = Cards => mem.mode = "search"
          /\ op[l][i].ord \in 0 .. (MaxUnknowns + 1) /\ op[l][i].ord <= unknowns + 1
          /\ op[l][i].phase \in {"unknown", "safe_retry"} => op[l][i].ord <= unknowns
  BY <1>2, ExchangeAtWork
<1>4. mem \in MemTypes /\ mem.stop = FALSE
  BY <1>1, <1>2, ItemAtWork, Zenon
<1>5. mem' \in MemTypes
  BY <1>1, <1>4 DEF MemTypes
<1>6. /\ mem'.pc = "observe" /\ mem'.lane = mem.lane /\ mem'.item = mem.item
      /\ mem'.mode = mem.mode /\ mem'.opened = mem.opened /\ mem'.skips = mem.skips
      /\ mem'.stop = FALSE
  BY <1>1, <1>4 DEF MemTypes
<1>7. /\ op' = [op EXCEPT ![l][i].phase = "acked"] /\ "acked" \in Phases
  BY <1>1, <1>3 DEF Here, Phases
<1>9. PICK o \in Operation :
          o.phase = "acked" /\ o.ord = op[l][i].ord /\ ExchangeRows(l, i, o)
  BY <1>1, <1>3, <1>7, PhaseRows
<1>10. ExchangeMem(o, "observe")
  BY <1>5, <1>6, <1>9, Zenon DEF ExchangeMem
<1> QED
  BY <1>1, <1>2, <1>3, <1>9, <1>10, Exchange

\* The answer is recorded as observed.
LEMMA ObserveKeeps == RoundInv /\ Observe => RoundInv'
<1> SUFFICES ASSUME RoundInv, Observe
             PROVE  RoundInv'
  OBVIOUS
<1>1. /\ run = "running" /\ mem.pc = "observe" /\ mem' = [mem EXCEPT !.pc = "settled"]
      /\ op' = [op EXCEPT ![Here][mem.item].phase = "observed"]
      /\ UNCHANGED <<run, barrier, transitions, found, want, prep, past>>
  BY DEF Observe, At, Goto
<1>2. OnItem /\ Op.phase \notin {"absent", "committed"}
  BY <1>1 DEF OnItem, RoundInv, MemInv, ExchangeIsKnown
<1>3. PICK l \in Lanes, i \in Items :
          /\ l = mem.lane /\ i = mem.item /\ Op = op[l][i] /\ i = at[l]
          /\ lane[l] = "active" /\ epoch[l] = op[l][i].ord
          /\ step[l] = IF i = Cards THEN "source_dispatch" ELSE "detail_dispatch"
          /\ i = Cards => mem.mode = "search"
          /\ op[l][i].ord \in 0 .. (MaxUnknowns + 1) /\ op[l][i].ord <= unknowns + 1
          /\ op[l][i].phase \in {"unknown", "safe_retry"} => op[l][i].ord <= unknowns
  BY <1>2, ExchangeAtWork
<1>4. mem \in MemTypes /\ mem.stop = FALSE
  <2>1. mem \in MemTypes
    BY <1>2, ItemAtWork, Zenon
  <2> QED
    BY <2>1 DEF MemTypes, Observe
<1>5. mem' \in MemTypes
  BY <1>1, <1>4 DEF MemTypes
<1>6. /\ mem'.pc = "settled" /\ mem'.lane = mem.lane /\ mem'.item = mem.item
      /\ mem'.mode = mem.mode /\ mem'.opened = mem.opened /\ mem'.skips = mem.skips
      /\ mem'.stop = FALSE
  BY <1>1, <1>4 DEF MemTypes
<1>7. /\ op' = [op EXCEPT ![l][i].phase = "observed"] /\ "observed" \in Phases
  BY <1>1, <1>3 DEF Here, Phases
<1>9. PICK o \in Operation :
          o.phase = "observed" /\ o.ord = op[l][i].ord /\ ExchangeRows(l, i, o)
  BY <1>1, <1>3, <1>7, PhaseRows
<1>10. ExchangeMem(o, "settled")
  BY <1>5, <1>6, <1>9, Zenon DEF ExchangeMem
<1> QED
  BY <1>1, <1>2, <1>3, <1>9, <1>10, Exchange

\* The outcome is recorded as unknown.
LEMMA RecordUnknownKeeps == RoundInv /\ RecordUnknown => RoundInv'
<1> SUFFICES ASSUME RoundInv, RecordUnknown
             PROVE  RoundInv'
  OBVIOUS
<1>1. /\ run = "running" /\ mem.pc = "observe" /\ mem' = [mem EXCEPT !.pc = "lanes"]
      /\ op' = [op EXCEPT ![Here][mem.item].phase = "unknown"]
      /\ UNCHANGED <<run, barrier, transitions, found, want, prep, past>>
  BY DEF RecordUnknown, At, Goto, Blocked
<1>2. OnItem /\ Op.phase \notin {"absent", "committed"}
  BY <1>1 DEF OnItem, RoundInv, MemInv, ExchangeIsKnown
<1>3. PICK l \in Lanes, i \in Items :
          /\ l = mem.lane /\ i = mem.item /\ Op = op[l][i] /\ i = at[l]
          /\ lane[l] = "active" /\ epoch[l] = op[l][i].ord
          /\ step[l] = IF i = Cards THEN "source_dispatch" ELSE "detail_dispatch"
          /\ i = Cards => mem.mode = "search"
          /\ op[l][i].ord \in 0 .. (MaxUnknowns + 1) /\ op[l][i].ord <= unknowns + 1
          /\ op[l][i].phase \in {"unknown", "safe_retry"} => op[l][i].ord <= unknowns
  BY <1>2, ExchangeAtWork
<1>4. mem \in MemTypes /\ mem.stop \in BOOLEAN
  <2>1. mem \in MemTypes
    BY <1>2, ItemAtWork, Zenon
  <2> QED
    BY <2>1 DEF MemTypes
<1>5. mem' \in MemTypes
  BY <1>1, <1>4 DEF MemTypes
<1>6. /\ mem'.pc = "lanes" /\ mem'.lane = mem.lane /\ mem'.item = mem.item
      /\ mem'.mode = mem.mode /\ mem'.opened = mem.opened /\ mem'.skips = mem.skips
      /\ mem'.stop = mem.stop
  BY <1>1, <1>4 DEF MemTypes
<1>7. /\ op' = [op EXCEPT ![l][i].phase = "unknown"] /\ "unknown" \in Phases
  BY <1>1, <1>3 DEF Here, Phases
<1>8. op[l][i].ord <= unknowns
  BY <1>1, <1>3, Zenon DEF RecordUnknown, RoundInv, MemInv, ExchangeIsKnown
<1>9. PICK o \in Operation :
          o.phase = "unknown" /\ o.ord = op[l][i].ord /\ ExchangeRows(l, i, o)
  BY <1>1, <1>3, <1>7, <1>8, PhaseRows
<1>10. ExchangeMem(o, "lanes")
  BY <1>5, <1>6, <1>9, Zenon DEF ExchangeMem
<1> QED
  BY <1>1, <1>2, <1>3, <1>9, <1>10, Exchange

\* The command is sent and answered.
LEMMA SendKeeps == RoundInv /\ Send => RoundInv'
<1> SUFFICES ASSUME RoundInv, Send
             PROVE  RoundInv'
  OBVIOUS
<1>1. /\ run = "running" /\ mem.pc = "send" /\ mem' = [mem EXCEPT !.pc = "ack"] /\ Effect
      /\ UNCHANGED <<run, barrier, transitions, want, prep, past>>
  BY DEF Send, At, Goto
<1>2. OnItem /\ Op.phase = "pending" /\ Op.phase \notin {"absent", "committed"}
  BY <1>1 DEF OnItem, RoundInv, MemInv, ExchangeIsKnown
<1>3. PICK l \in Lanes, i \in Items :
          /\ l = mem.lane /\ i = mem.item /\ Op = op[l][i] /\ i = at[l]
          /\ lane[l] = "active" /\ epoch[l] = op[l][i].ord
          /\ step[l] = IF i = Cards THEN "source_dispatch" ELSE "detail_dispatch"
          /\ i = Cards => mem.mode = "search"
          /\ op[l][i].ord \in 0 .. (MaxUnknowns + 1) /\ op[l][i].ord <= unknowns + 1
          /\ op[l][i].phase \in {"unknown", "safe_retry"} => op[l][i].ord <= unknowns
  BY <1>2, ExchangeAtWork
<1>4. mem \in MemTypes /\ mem.stop = FALSE
  BY <1>1, <1>2, ItemAtWork, Zenon
<1>5. mem' \in MemTypes
  BY <1>1, <1>4 DEF MemTypes
<1>6. /\ mem'.pc = "ack" /\ mem'.lane = mem.lane /\ mem'.item = mem.item
      /\ mem'.mode = mem.mode /\ mem'.opened = mem.opened /\ mem'.skips = mem.skips
      /\ mem'.stop = FALSE
  BY <1>1, <1>4 DEF MemTypes
<1>7. /\ unknowns' \in 0 .. MaxUnknowns /\ unknowns' >= unknowns /\ crashes' = crashes /\ attended' = attended
  BY <1>1 DEF past, RoundInv, TypeOK
<1>8. PICK o \in Operation :
          o.phase = "pending" /\ o.ord = op[l][i].ord /\ ExchangeRows(l, i, o)
  BY <1>1, <1>2, <1>3, <1>7, EffectRows
<1>9. ExchangeMem(o, "ack")
  BY <1>5, <1>6, <1>8, Zenon DEF ExchangeMem
<1> QED
  BY <1>1, <1>2, <1>3, <1>8, <1>9, Exchange

\* The command is sent and its answer lost.
LEMMA SendLostKeeps == RoundInv /\ SendLost => RoundInv'
<1> SUFFICES ASSUME RoundInv, SendLost
             PROVE  RoundInv'
  OBVIOUS
<1>1. /\ run = "running" /\ mem.pc = "send" /\ mem' = [mem EXCEPT !.pc = "observe", !.stop = TRUE]
      /\ Effect \/ UNCHANGED ops
      /\ unknowns < MaxUnknowns /\ unknowns' = unknowns + 1
      /\ UNCHANGED <<run, attended, barrier, transitions, want, prep, crashes>>
  BY DEF SendLost, At
<1>2. OnItem /\ Op.phase = "pending" /\ Op.phase \notin {"absent", "committed"}
  BY <1>1 DEF OnItem, RoundInv, MemInv, ExchangeIsKnown
<1>3. PICK l \in Lanes, i \in Items :
          /\ l = mem.lane /\ i = mem.item /\ Op = op[l][i] /\ i = at[l]
          /\ lane[l] = "active" /\ epoch[l] = op[l][i].ord
          /\ step[l] = IF i = Cards THEN "source_dispatch" ELSE "detail_dispatch"
          /\ i = Cards => mem.mode = "search"
          /\ op[l][i].ord \in 0 .. (MaxUnknowns + 1) /\ op[l][i].ord <= unknowns + 1
          /\ op[l][i].phase \in {"unknown", "safe_retry"} => op[l][i].ord <= unknowns
  BY <1>2, ExchangeAtWork
<1>4. mem \in MemTypes
  BY <1>2, ItemAtWork, Zenon
<1>5. mem' \in MemTypes
  BY <1>1, <1>4 DEF MemTypes
<1>6. /\ mem'.pc = "observe" /\ mem'.lane = mem.lane /\ mem'.item = mem.item
      /\ mem'.mode = mem.mode /\ mem'.opened = mem.opened /\ mem'.skips = mem.skips
      /\ mem'.stop = TRUE
  BY <1>1, <1>4 DEF MemTypes
<1>7. unknowns' \in 0 .. MaxUnknowns /\ unknowns' >= unknowns
  BY <1>1, PlanAssumption DEF RoundInv, TypeOK
<1>8. PICK o \in Operation :
          o.phase = "pending" /\ o.ord = op[l][i].ord /\ ExchangeRows(l, i, o)
  BY <1>1, <1>2, <1>3, <1>7, EffectRows
<1>9. o.ord <= unknowns'
  BY <1>1, <1>3, <1>8
<1>10. ExchangeMem(o, "observe")
  BY <1>5, <1>6, <1>8, <1>9, Zenon DEF ExchangeMem
<1> QED
  BY <1>1, <1>2, <1>3, <1>8, <1>10, Exchange

\* A second authorization is minted after a lost answer.
LEMMA MintRetryKeeps == RoundInv /\ MintRetry => RoundInv'
<1> SUFFICES ASSUME RoundInv, MintRetry
             PROVE  RoundInv'
  OBVIOUS
<1>1. /\ run = "running" /\ mem.pc = "item" /\ mem' = [mem EXCEPT !.pc = "send"]
      /\ op' = [op EXCEPT ![Here][mem.item].phase = "pending", ![Here][mem.item].ord = @ + 1]
      /\ epoch' = [epoch EXCEPT ![Here] = op[Here][mem.item].ord + 1]
      /\ Op.phase = "safe_retry"
      /\ UNCHANGED <<run, barrier, lane, step, at, found, want, prep, past>>
  BY DEF MintRetry, At, Goto
<1>2. OnItem /\ Op.phase \notin {"absent", "committed"}
  BY <1>1 DEF OnItem
<1>3. PICK l \in Lanes, i \in Items :
          /\ l = mem.lane /\ i = mem.item /\ Op = op[l][i] /\ i = at[l]
          /\ lane[l] = "active" /\ epoch[l] = op[l][i].ord
          /\ step[l] = IF i = Cards THEN "source_dispatch" ELSE "detail_dispatch"
          /\ i = Cards => mem.mode = "search"
          /\ op[l][i].ord \in 0 .. (MaxUnknowns + 1) /\ op[l][i].ord <= unknowns + 1
          /\ op[l][i].phase \in {"unknown", "safe_retry"} => op[l][i].ord <= unknowns
  BY <1>2, ExchangeAtWork
<1>4. mem \in MemTypes /\ mem.stop = FALSE
  BY <1>1, <1>2, ItemAtWork, Zenon
<1>5. mem' \in MemTypes
  BY <1>1, <1>4 DEF MemTypes
<1>6. /\ mem'.pc = "send" /\ mem'.lane = mem.lane /\ mem'.item = mem.item
      /\ mem'.mode = mem.mode /\ mem'.opened = mem.opened /\ mem'.skips = mem.skips
      /\ mem'.stop = FALSE
  BY <1>1, <1>4 DEF MemTypes
<1>7. /\ unknowns' = unknowns /\ unknowns \in 0 .. MaxUnknowns /\ crashes' = crashes /\ attended' = attended
  BY <1>1 DEF past, RoundInv, TypeOK
<1>8. op[l][i].ord <= unknowns /\ op[l][i].ord + 1 \in 0 .. (MaxUnknowns + 1)
  <2>1. op[l][i].ord <= unknowns
    BY <1>1, <1>3
  <2> QED
    BY <1>3, <1>7, <2>1, PlanAssumption
<1> DEFINE o == [[op[l][i] EXCEPT !.phase = "pending"] EXCEPT !.ord = op[l][i].ord + 1]
<1>9. o \in Operation /\ o.phase = "pending" /\ o.ord = op[l][i].ord + 1
  <2>1. op[l][i] \in Operation
    BY DEF RoundInv, TypeOK, Operation, Phases
  <2> QED
    BY <1>8, <2>1 DEF Operation, Phases
<1>10. op' = [op EXCEPT ![l] = [op[l] EXCEPT ![i] = o]]
  <2>1. op[l][i] \in Operation /\ op \in [Lanes -> [Items -> Operation]]
    BY DEF RoundInv, TypeOK, Operation, Phases
  <2> DEFINE half == [op EXCEPT ![l] = [op[l] EXCEPT ![i] = [op[l][i] EXCEPT !.phase = "pending"]]]
  <2>2. op' = [half EXCEPT ![l] = [half[l] EXCEPT ![i] = [half[l][i] EXCEPT !.ord = @ + 1]]]
    BY <1>1, <1>3 DEF Here
  <2>3. /\ half \in [Lanes -> [Items -> Operation]]
        /\ half[l] = [op[l] EXCEPT ![i] = [op[l][i] EXCEPT !.phase = "pending"]]
        /\ half[l][i] = [op[l][i] EXCEPT !.phase = "pending"]
    BY <2>1 DEF Operation, Phases
  <2>4. [half[l][i] EXCEPT !.ord = @ + 1] = o
    BY <2>1, <2>3 DEF Operation
  <2>5. [half[l] EXCEPT ![i] = o] = [op[l] EXCEPT ![i] = o]
    BY <2>1, <2>3
  <2>6. [half EXCEPT ![l] = [op[l] EXCEPT ![i] = o]] = [op EXCEPT ![l] = [op[l] EXCEPT ![i] = o]]
    BY <2>1, <2>3
  <2> HIDE DEF half, o
  <2> QED
    BY <2>2, <2>4, <2>5, <2>6
<1> HIDE DEF o
<1>11. PICK q \in Operation : q = o
  BY <1>9
<1>12. /\ op' \in [Lanes -> [Items -> Operation]] /\ op'[l][i] = q
       /\ \A j \in Items \ {i} : op'[l][j] = op[l][j]
       /\ \A m \in Lanes \ {l} : op'[m] = op[m]
  <2>1. op \in [Lanes -> [Items -> Operation]]
    BY DEF RoundInv, TypeOK, Operation, Phases
  <2>2. op' = [op EXCEPT ![l] = [op[l] EXCEPT ![i] = q]]
    BY <1>10, <1>11
  <2> QED
    BY <2>1, <2>2
<1>13. /\ step' = [step EXCEPT ![l] = IF i = Cards THEN "source_dispatch"
                                                   ELSE "detail_dispatch"]
       /\ epoch' = [epoch EXCEPT ![l] = q.ord]
  <2>1. step = [m \in Lanes |-> step[m]]
    BY DEF RoundInv, TypeOK
  <2> QED
    BY <1>1, <1>3, <1>9, <1>11, <2>1 DEF Here
<1>14. /\ unknowns' \in 0 .. MaxUnknowns /\ unknowns' >= unknowns /\ q.ord <= unknowns' + 1
  BY <1>7, <1>8, <1>9, <1>11, <1>3, PlanAssumption
<1>15. ExchangeRows(l, i, q)
  BY <1>1, <1>7, <1>9, <1>11, <1>12, <1>13, <1>14 DEF ExchangeRows
<1>16. ExchangeMem(q, "send")
  BY <1>5, <1>6, <1>9, <1>11, Zenon DEF ExchangeMem
<1> QED
  BY <1>1, <1>2, <1>3, <1>9, <1>11, <1>15, <1>16, Exchange

-----------------------------------------------------------------------------
(* Steps that move the transition of a lane.                               *)

\* _ensure_source_dispatch_transition makes the cards the item of the lane.
LEMMA PersistCardsKeeps == RoundInv /\ PersistCards => RoundInv'
<1> SUFFICES ASSUME RoundInv, PersistCards
             PROVE  RoundInv'
  OBVIOUS
<1>1. /\ run = "running" /\ mem.pc = "item" /\ mem.item = Cards
      /\ mem' = [mem EXCEPT !.pc = "ready"]
      /\ UNCHANGED <<run, barrier, at, epoch, ops, want, prep, past>>
  BY DEF PersistCards, At, Goto
<1>2. OnItem /\ InLane
  BY <1>1 DEF OnItem, InLane
<1>3. PICK l \in Lanes, i \in Items : l = mem.lane /\ i = mem.item /\ Op = op[l][i]
  BY <1>2, ItemAtWork
<1>4. mem \in MemTypes /\ mem.stop = FALSE
  BY <1>1, <1>2, ItemAtWork, Zenon
<1>5. /\ lane' = [lane EXCEPT ![l] = "active"] /\ step' = [step EXCEPT ![l] = "source_dispatch"]
      /\ Absent(l, Cards)
  BY <1>1, <1>3 DEF PersistCards, Here, Absent
<1>6. /\ at[l] = Cards /\ step[l] # "lane_completed" /\ mem.mode = "search"
  <2>1. ~Follows(l, Cards)
    BY ItemNames DEF Follows
  <2> QED
    BY <1>1, <1>2, <1>3, <2>1 DEF RoundInv, MemInv, ItemIsNext, Here
<1>7. step[l] \in {"none", "source_dispatch"}
  <2>1. step[l] \in {"none", "source_dispatch", "detail_queued", "detail_dispatch",
                     "lane_completed"} /\ RowShape(l)
    BY DEF RoundInv, TypeOK, RowInv
  <2> QED
    BY <1>6, <2>1 DEF RowShape
<1>8. /\ lane'[l] = "active" /\ step'[l] = "source_dispatch" /\ op' = op /\ found' = found
      /\ unknowns' = unknowns /\ crashes' = crashes /\ attended' = attended
      /\ \A m \in Lanes \ {l} : lane'[m] = lane[m] /\ step'[m] = step[m]
  BY <1>1, <1>5 DEF RoundInv, TypeOK, ops, past
<1>9. mem' \in MemTypes
  BY <1>1, <1>4 DEF MemTypes
<1>10. /\ mem'.pc = "ready" /\ mem'.lane = l /\ mem'.item = Cards /\ mem'.mode = "search"
       /\ mem'.opened = mem.opened /\ mem'.skips = mem.skips /\ mem'.stop = FALSE
  BY <1>1, <1>3, <1>4, <1>6 DEF MemTypes
<1>11. TypeOK'
  <2>1. lane' \in [Lanes -> {"pending", "skipped", "active", "completed"}]
    BY <1>5 DEF RoundInv, TypeOK
  <2>2. step' \in [Lanes -> {"none", "source_dispatch", "detail_queued", "detail_dispatch",
                             "lane_completed"}]
    BY <1>5 DEF RoundInv, TypeOK
  <2> QED
    BY <1>1, <1>8, <1>9, <2>1, <2>2 DEF RoundInv, TypeOK, MemTypes
<1>12. \A m \in Lanes \ {l} : SameRow(m)
  BY <1>1, <1>8 DEF SameRow
<1>13. \A m \in Lanes : RowInv(m)'
  <2>1. unknowns' \in Nat /\ unknowns' >= unknowns
    BY <1>8 DEF RoundInv, TypeOK
  <2>2. TypeOK /\ RowInv(l)
    BY DEF RoundInv
  <2>3. RowInv(l)'
    BY <1>1, <1>5, <1>7, <1>8, <2>2, RowMarked
  <2> QED
    BY <1>12, <2>1, <2>3, OneRow
<1>14. LaneIsOpen' /\ SkipsArePending' /\ RoundIsOpen'
  BY <1>1, <1>2, <1>3, <1>6, <1>10, <1>12, StaysInLane
<1>15. ItemIsNext'
  BY <1>1, <1>6, <1>8, <1>10, ItemKinds DEF ItemIsNext, Here
<1>16. ExchangeIsKnown'
  BY <1>5, <1>8, <1>10 DEF ExchangeIsKnown, Absent, Here
<1>17. OpenedIsCounted'
  <2>1. mem'.opened = 0
    BY <1>1, <1>2, <1>10, ItemNames DEF RoundInv, MemInv, OpenedIsCounted
  <2>2. \A k \in Ranks : mem'.item # Capture(k)
    BY <1>10, ItemNames
  <2> QED
    BY <1>10, <2>1, <2>2 DEF OpenedIsCounted
<1> QED
  BY <1>11, <1>13, <1>14, <1>15, <1>16, <1>17 DEF RoundInv, MemInv

\* What the queueing of an item does to the rows.
LEMMA QueueFacts ==
    ASSUME RoundInv, NEW l \in Lanes, NEW i \in Items, Queue(l, i)
    PROVE  /\ op' \in [Lanes -> [Items -> Operation]]
           /\ step' \in [Lanes -> {"none", "source_dispatch", "detail_queued",
                                   "detail_dispatch", "lane_completed"}]
           /\ at' \in [Lanes -> Items] /\ epoch' \in [Lanes -> 0 .. (MaxUnknowns + 1)]
           /\ step'[l] = "detail_queued" /\ at'[l] = i /\ lane' = lane /\ found' = found
           /\ \A m \in Lanes \ {l} : /\ op'[m] = op[m] /\ step'[m] = step[m]
                                     /\ at'[m] = at[m] /\ epoch'[m] = epoch[m]
           /\ OkCaptures(l)' = OkCaptures(l)
           /\ CapturePlan(l)' = CapturePlan(l)
           /\ Absent(l, i) => Absent(l, i)'
<1>1. /\ op[l][at[l]].phase = "observed"
      /\ op' = [op EXCEPT ![l][at[l]].phase = "committed"]
      /\ step' = [step EXCEPT ![l] = "detail_queued"]
      /\ at' = [at EXCEPT ![l] = i] /\ epoch' = [epoch EXCEPT ![l] = 0]
      /\ lane' = lane /\ found' = found
  BY DEF Queue
<1>2. PICK b \in Items : b = at[l]
  BY DEF RoundInv, TypeOK
<1>3. /\ op' \in [Lanes -> [Items -> Operation]]
      /\ op'[l][b].phase = "committed" /\ op'[l][b].res = op[l][b].res
      /\ \A j \in Items \ {b} : op'[l][j] = op[l][j]
      /\ \A m \in Lanes \ {l} : op'[m] = op[m]
  <2>1. op' = [op EXCEPT ![l][b].phase = "committed"]
    BY <1>1, <1>2
  <2>2. TypeOK
    BY DEF RoundInv
  <2> QED
    BY <2>1, <2>2, PhaseReplaced DEF Phases
<1>4. \A j \in Items : /\ op'[l][j].res = op[l][j].res
                       /\ op'[l][j].phase \in {"observed", "committed"} <=>
                             op[l][j].phase \in {"observed", "committed"}
  BY <1>1, <1>2, <1>3
<1>5. OkCaptures(l)' = OkCaptures(l)
  BY <1>4, ItemKinds DEF OkCaptures
<1>6. CapturePlan(l)' = CapturePlan(l)
  <2>1. 1 .. found[l] \subseteq Ranks
    BY FoundHaveRanks DEF RoundInv
  <2> QED
    BY <1>1, <1>4, <2>1, ItemKinds DEF CapturePlan, Settled
<1>7. Absent(l, i) => Absent(l, i)'
  BY <1>1, <1>2, <1>3 DEF Absent
<1>8. /\ step' \in [Lanes -> {"none", "source_dispatch", "detail_queued",
                              "detail_dispatch", "lane_completed"}]
      /\ at' \in [Lanes -> Items]
      /\ step'[l] = "detail_queued" /\ at'[l] = i
      /\ \A m \in Lanes \ {l} : step'[m] = step[m] /\ at'[m] = at[m]
  BY <1>1 DEF RoundInv, TypeOK
<1>9. /\ epoch' \in [Lanes -> 0 .. (MaxUnknowns + 1)]
      /\ \A m \in Lanes \ {l} : epoch'[m] = epoch[m]
  BY <1>1, PlanAssumption DEF RoundInv, TypeOK
<1> QED
  BY <1>1, <1>3, <1>5, <1>6, <1>7, <1>8, <1>9

\* The lane goes on with an item that is queued.
LEMMA Queueing ==
    ASSUME RoundInv, InLane, run = "running", NEW l \in Lanes, l = mem.lane,
           NEW i \in Items, i # Cards, Absent(l, i), Queue(l, i),
           want' \in [Lanes -> Nat], \A m \in Lanes : want'[m] <= Target[m],
           \A m \in Lanes \ {l} : want'[m] = want[m], want'[l] > 0,
           \/ at[l] = Cards /\ i = Locator(1) /\ found[l] > 0
           \/ /\ Follows(l, i) /\ want'[l] = want[l]
              /\ \A k \in Ranks : i = Capture(k) => Cardinality(OkCaptures(l) \ {k}) < want[l],
           mem' \in MemTypes, mem'.lane = mem.lane, mem'.skips = mem.skips, mem'.pc # "idle",
           mem'.mode = "search" => mem.mode = "search",
           UNCHANGED <<run, barrier, prep, past>>,
           ItemIsNext', ExchangeIsKnown', OpenedIsCounted'
    PROVE  RoundInv'
<1>1. /\ op' \in [Lanes -> [Items -> Operation]]
      /\ step' \in [Lanes -> {"none", "source_dispatch", "detail_queued",
                              "detail_dispatch", "lane_completed"}]
      /\ at' \in [Lanes -> Items] /\ epoch' \in [Lanes -> 0 .. (MaxUnknowns + 1)]
      /\ lane' = lane /\ found' = found
      /\ \A m \in Lanes \ {l} : /\ op'[m] = op[m] /\ step'[m] = step[m]
                                /\ at'[m] = at[m] /\ epoch'[m] = epoch[m]
  BY QueueFacts
<1>2. unknowns' = unknowns /\ crashes' = crashes /\ attended' = attended
  BY DEF past
<1>3. TypeOK'
  <2>1. op' \in [Lanes -> [Items ->
                  [phase : {"absent", "pending", "acked", "observed", "committed", "unknown",
                            "safe_retry", "concluded"},
                   ord : 0 .. (MaxUnknowns + 1), res : {"none", "ok", "failed"}]]]
    BY <1>1 DEF Operation, Phases
  <2> QED
    BY <1>1, <1>2, <2>1 DEF RoundInv, TypeOK, MemTypes
<1>4. \A m \in Lanes \ {l} : SameRow(m)
  BY <1>1 DEF SameRow
<1>5. \A m \in Lanes : RowInv(m)'
  <2>1. unknowns' \in Nat /\ unknowns' >= unknowns
    BY <1>2 DEF RoundInv, TypeOK
  <2>2. TypeOK /\ RowInv(l)
    BY DEF RoundInv
  <2>3. RowInv(l)'
    BY <1>2, <2>2, RowQueued
  <2> QED
    BY <1>4, <2>1, <2>3, OneRow
<1>6. LaneIsOpen' /\ SkipsArePending' /\ RoundIsOpen'
  BY <1>4, StaysInLane
<1> QED
  BY <1>3, <1>5, <1>6 DEF RoundInv, MemInv

\* A lane beyond its cards has something to want.
LEMMA WantIsPositive ==
    ASSUME RoundInv, NEW l \in Lanes, at[l] # Cards
    PROVE  want[l] > 0
BY DEF RoundInv, RowInv, RowOrder

\* No lane wants more than the target of its query.
LEMMA WantIsTyped ==
    ASSUME RoundInv
    PROVE  want \in [Lanes -> Nat] /\ \A m \in Lanes : want[m] <= Target[m]
BY DEF RoundInv, TypeOK

\* _persist_detail_dispatch_transition dispatches the queued item.
LEMMA PersistDetailKeeps == RoundInv /\ PersistDetail => RoundInv'
<1> SUFFICES ASSUME RoundInv, PersistDetail
             PROVE  RoundInv'
  OBVIOUS
<1>1. /\ run = "running" /\ mem.pc = "item" /\ mem.item # Cards /\ Op.phase = "absent"
      /\ mem' = [mem EXCEPT !.pc = "ready"]
      /\ UNCHANGED <<run, barrier, want, prep, past>>
  BY DEF PersistDetail, DetailAbsent, At, Goto
<1>2. OnItem /\ InLane
  BY <1>1 DEF OnItem, InLane
<1>3. PICK l \in Lanes, i \in Items : l = mem.lane /\ i = mem.item /\ Op = op[l][i]
  BY <1>2, ItemAtWork
<1>4. mem \in MemTypes /\ mem.stop = FALSE /\ prep \in Preps
  BY <1>1, <1>2, ItemAtWork, Zenon
<1>5. mem' \in MemTypes
  BY <1>1, <1>4 DEF MemTypes
<1>6. /\ mem'.pc = "ready" /\ mem'.lane = l /\ mem'.item = i /\ mem'.mode = mem.mode
      /\ mem'.opened = mem.opened /\ mem'.skips = mem.skips /\ mem'.stop = FALSE
  BY <1>1, <1>3, <1>4 DEF MemTypes
<1>7. Absent(l, i) /\ i # Cards
  BY <1>1, <1>3 DEF Absent
<1>8. OnItem'
  BY <1>6 DEF OnItem
<1>9. ASSUME Absent(l, i)', at'[l] = i, step'[l] = "detail_queued",
             OkCaptures(l)' = OkCaptures(l)
      PROVE  ItemIsNext' /\ ExchangeIsKnown' /\ OpenedIsCounted'
  <2>1. ItemIsNext'
    BY <1>6, <1>7, <1>9 DEF ItemIsNext, Here
  <2>2. ExchangeIsKnown'
    BY <1>6, <1>7, <1>9 DEF ExchangeIsKnown, Here
  <2>3. want' = want
    BY <1>1
  <2>4. OpenedIsCounted'
    BY <1>2, <1>3, <1>6, <1>9, <2>3 DEF RoundInv, MemInv, OpenedIsCounted, Here
  <2> QED
    BY <2>1, <2>2, <2>4
<1>10. CASE step[l] = "detail_queued" /\ at[l] = i /\ UNCHANGED <<transitions, ops>>
  <2>1. /\ Absent(l, i)' /\ at'[l] = i /\ step'[l] = "detail_queued"
        /\ OkCaptures(l)' = OkCaptures(l)
    BY <1>7, <1>10 DEF transitions, ops, Absent, OkCaptures
  <2>2. ItemIsNext' /\ ExchangeIsKnown' /\ OpenedIsCounted'
    BY <1>9, <2>1
  <2> QED
    BY <1>1, <1>2, <1>3, <1>4, <1>5, <1>6, <1>10, <2>2, WorksInMemory
<1>11. CASE step[l] = "detail_dispatch" /\ Queue(l, i)
  <2>1. /\ step'[l] = "detail_queued" /\ at'[l] = i /\ Absent(l, i)'
        /\ OkCaptures(l)' = OkCaptures(l)
    BY <1>7, <1>11, QueueFacts
  <2>2. ItemIsNext' /\ ExchangeIsKnown' /\ OpenedIsCounted'
    BY <1>9, <2>1
  <2>3. i # at[l]
    BY <1>7, <1>11 DEF RoundInv, RowInv, RowShape
  <2>4. Follows(l, i) /\ mem.mode # "resume"
    BY <1>2, <1>3, <2>3 DEF RoundInv, MemInv, ItemIsNext, Here
  <2>5. \A k \in Ranks : i = Capture(k) => Cardinality(OkCaptures(l) \ {k}) < want[l]
    <3> SUFFICES ASSUME NEW k \in Ranks, i = Capture(k)
                 PROVE  Cardinality(OkCaptures(l) \ {k}) < want[l]
      OBVIOUS
    <3>1. mem.opened < want[l] /\ Cardinality(OkCaptures(l) \ {k}) <= mem.opened
      BY <1>2, <1>3, <2>4 DEF RoundInv, MemInv, OpenedIsCounted, Here
    <3>2. mem.opened \in Nat /\ want[l] \in Nat
      BY <1>4, OpenedIsNumber, WantIsTyped
    <3>3. Cardinality(OkCaptures(l) \ {k}) \in Nat
      BY RankFacts, FS_Subset, FS_CardinalityType DEF OkCaptures
    <3> QED
      BY <3>1, <3>2, <3>3
  <2>6. want'[l] > 0 /\ want' = want
    BY <1>1, <2>4, WantIsPositive DEF Follows
  <2> QED
    BY <1>1, <1>2, <1>3, <1>5, <1>6, <1>7, <1>11, <2>2, <2>4, <2>5, <2>6, WantIsTyped, Queueing
<1> QED
  BY <1>3, <1>10, <1>11 DEF PersistDetail, Here

\* The cards are settled, the first locator is queued with their commit.
LEMMA BindLocatorsKeeps == RoundInv /\ BindLocators => RoundInv'
<1> SUFFICES ASSUME RoundInv, BindLocators
             PROVE  RoundInv'
  OBVIOUS
<1>1. /\ run = "running" /\ mem.pc = "settled" /\ mem.item = Cards
      /\ mem' = [mem EXCEPT !.pc = "item", !.item = Locator(1)]
      /\ UNCHANGED <<run, barrier, prep, past>>
  BY DEF BindLocators, At
<1>2. OnItem /\ InLane
  BY <1>1 DEF OnItem, InLane
<1>3. PICK l \in Lanes, i \in Items : l = mem.lane /\ i = mem.item /\ Op = op[l][i]
  BY <1>2, ItemAtWork
<1>4. mem \in MemTypes /\ mem.stop = FALSE
  BY <1>1, <1>2, ItemAtWork, Zenon
<1>5. /\ found[l] > 0 /\ Queue(l, Locator(1)) /\ want' = [want EXCEPT ![l] = Remaining(l)]
  BY <1>3 DEF BindLocators, Here
<1>6. at[l] = Cards /\ mem.mode = "search"
  BY <1>1, <1>2, <1>3, ItemOfTransition
<1>7. Remaining(l) \in 0 .. Target[l] /\ Remaining(l) > 0
  <2>1. Remaining(l) > 0
    BY <1>2, <1>3, <1>6 DEF RoundInv, MemInv, LaneIsOpen, Here
  <2> QED
    BY <2>1, RemainingIsBounded DEF RoundInv
<1>8. /\ want' \in [Lanes -> Nat] /\ want'[l] = Remaining(l)
      /\ \A m \in Lanes \ {l} : want'[m] = want[m]
  <2>1. Remaining(l) \in Nat
    BY <1>7, PlanAssumption
  <2> QED
    BY <1>5, <2>1, WantIsTyped
<1>9. \A m \in Lanes : want'[m] <= Target[m]
  <2>1. Remaining(l) <= Target[l]
    BY <1>7
  <2> QED
    BY <1>8, <2>1, WantIsTyped
<1>10. PICK j \in Items : j = Locator(1)
  <2>1. 1 \in Ranks
    BY <1>5, FoundHaveRanks DEF RoundInv
  <2> QED
    BY <2>1, ItemKinds
<1>11. j # Cards /\ Absent(l, j) /\ \A k \in Ranks : j # Capture(k)
  BY <1>6, <1>10, ItemNames DEF RoundInv, RowInv, RowOrder
<1>12. mem' \in MemTypes
  BY <1>1, <1>4, <1>10 DEF MemTypes
<1>13. /\ mem'.pc = "item" /\ mem'.lane = l /\ mem'.item = j /\ mem'.mode = "search"
       /\ mem'.opened = mem.opened /\ mem'.skips = mem.skips /\ mem'.stop = FALSE
  BY <1>1, <1>3, <1>4, <1>6, <1>10 DEF MemTypes
<1>14. mem.opened = 0
  BY <1>1, <1>2, ItemNames DEF RoundInv, MemInv, OpenedIsCounted
<1>15. Queue(l, j)
  BY <1>5, <1>10
<1>16. step'[l] = "detail_queued" /\ at'[l] = j
  BY <1>15, QueueFacts
<1>17. ItemIsNext'
  BY <1>11, <1>13, <1>16 DEF ItemIsNext, Here
<1>18. ExchangeIsKnown'
  BY <1>13 DEF ExchangeIsKnown
<1>19. OpenedIsCounted'
  BY <1>11, <1>13, <1>14 DEF OpenedIsCounted
<1>20. want'[l] > 0
  BY <1>7, <1>8
<1> QED
  BY <1>1, <1>2, <1>3, <1>5, <1>6, <1>8, <1>9, <1>10, <1>11, <1>12, <1>13, <1>15, <1>17,
     <1>18, <1>19, <1>20, Queueing

\* The last locator is settled, the first capture is queued.
LEMMA QueueFirstCaptureKeeps == RoundInv /\ QueueFirstCapture => RoundInv'
<1> SUFFICES ASSUME RoundInv, QueueFirstCapture
             PROVE  RoundInv'
  OBVIOUS
<1>1. At("settled") /\ IsLocator
  BY DEF QueueFirstCapture, LastLocator
<1>2. /\ OnItem /\ InLane /\ mem \in MemTypes /\ prep \in Preps /\ run = "running"
      /\ mem.stop = FALSE /\ mem.opened = 0
  BY <1>1, AtLocator, Zenon
<1>3. PICK l \in Lanes, k \in Ranks :
          /\ l = mem.lane /\ k = Rank /\ mem.item = Locator(k) /\ at[l] = Locator(k)
          /\ k \in Nat /\ found[l] \in Nat /\ RowInv(l) /\ OkCaptures(l) = {}
          /\ step[l] \in {"detail_queued", "detail_dispatch"}
  BY <1>1, AtLocator
<1>4. /\ k = found[l] /\ CapturePlan(l) # {} /\ UNCHANGED <<barrier, want, prep, past>>
  BY <1>3 DEF QueueFirstCapture, LastLocator, Here
<1>5. CASE step[l] # "detail_dispatch"
  <2>1. run' = "failed" /\ mem' = Idle /\ UNCHANGED <<transitions, ops>>
    BY <1>3, <1>5 DEF QueueFirstCapture, Fails, Here
  <2> QED
    BY <1>4, <2>1, Failing
<1>6. CASE step[l] = "detail_dispatch"
  <2>1. CapturePlan(l) \subseteq 1 .. found[l] /\ 1 .. found[l] \subseteq Ranks
    BY FoundHaveRanks DEF CapturePlan, RoundInv
  <2>2. PICK n \in CapturePlan(l) :
           n = Min(CapturePlan(l)) /\ \A j \in CapturePlan(l) : n <= j
    <3>1. CapturePlan(l) \subseteq Nat
      BY <2>1
    <3> QED
      BY <1>4, <3>1, MinIsLeast
  <2>3. n \in Ranks /\ n <= found[l] /\ n \in Nat /\ (\A j \in CapturePlan(l) : j \in Nat)
    BY <1>3, <2>1, <2>2
  <2>4. PICK i \in Items : i = Capture(n)
    BY <2>3, ItemKinds
  <2>5. /\ Queue(l, i) /\ run' = run
        /\ mem' = [mem EXCEPT !.pc = "captures", !.item = Capture(0), !.mode = "queue"]
    BY <1>3, <1>6, <2>2, <2>4 DEF QueueFirstCapture, Here
  <2>6. Absent(l, i) /\ i # Cards
    BY <1>3, <2>3, <2>4, OrderAtLocator, ItemNames
  <2>7. Follows(l, i)
    <3>1. at[l] # Cards /\ at[l] = Locator(found[l])
      BY <1>3, <1>4, ItemNames
    <3>2. \A j \in CapturePlan(l) : ~(j < n)
      BY <2>2, <2>3
    <3> QED
      BY <1>6, <2>3, <2>4, <2>6, <3>1, <3>2 DEF Follows
  <2>8. want'[l] > 0 /\ want' = want /\ want[l] > 0
    BY <1>3, <1>4, OrderAtLocator
  <2>9. \A j \in Ranks : i = Capture(j) => Cardinality(OkCaptures(l) \ {j}) < want[l]
    <3>1. \A j \in Ranks : OkCaptures(l) \ {j} = {}
      BY <1>3
    <3> QED
      BY <2>8, <3>1, FS_EmptySet
  <2>10. mem' \in MemTypes
    BY <1>2, <2>5 DEF MemTypes
  <2>11. /\ mem'.pc = "captures" /\ mem'.lane = l /\ mem'.item = Capture(0)
         /\ mem'.mode = "queue" /\ mem'.opened = 0 /\ mem'.skips = mem.skips
         /\ mem'.stop = FALSE
    BY <1>2, <1>3, <2>5 DEF MemTypes
  <2>12. ~OnItem'
    BY <2>11 DEF OnItem
  <2>13. ItemIsNext' /\ ExchangeIsKnown'
    BY <2>11, <2>12 DEF ItemIsNext, ExchangeIsKnown
  <2>14. /\ at'[l] = Capture(n) /\ step'[l] = "detail_queued" /\ found' = found
         /\ CapturePlan(l)' = CapturePlan(l) /\ OkCaptures(l)' = {}
    BY <1>3, <2>4, <2>5, QueueFacts
  <2>15. OpenedIsCounted'
    <3>1. Cardinality(OkCaptures(l)') <= mem'.opened
      BY <2>11, <2>14, FS_EmptySet
    <3>2. 0 \in 0 .. found'[l]
      BY <1>3, <2>14
    <3>3. /\ n \in CapturePlan(l)' /\ at'[l] = Capture(n) /\ step'[l] = "detail_queued"
          /\ \A j \in CapturePlan(l)' : n <= j
      BY <2>2, <2>14
    <3> QED
      BY <2>11, <2>12, <3>1, <3>2, <3>3 DEF OpenedIsCounted, Here
  <2> QED
    BY <1>2, <1>3, <1>4, <2>4, <2>5, <2>6, <2>7, <2>8, <2>9, <2>10, <2>11, <2>13, <2>15,
       WantIsTyped, Queueing
<1> QED
  BY <1>5, <1>6

-----------------------------------------------------------------------------
(* The end of a lane, and the reconciliation of an operation.              *)

MovesTo(l, i, q) == op' = [op EXCEPT ![l][i].phase = q]

\* Moving one operation to another phase leaves all others alone.
LEMMA MovedTo ==
    ASSUME TypeOK, NEW l \in Lanes, NEW i \in Items, NEW q \in Phases, MovesTo(l, i, q)
    PROVE  /\ op' \in [Lanes -> [Items -> Operation]]
           /\ op'[l][i].phase = q
           /\ op'[l][i].ord = op[l][i].ord /\ op'[l][i].res = op[l][i].res
           /\ \A j \in Items \ {i} : op'[l][j] = op[l][j]
           /\ \A m \in Lanes \ {l} : op'[m] = op[m]
BY PhaseReplaced DEF MovesTo

\* An operation that only moves to another phase, whoever moves it.
LEMMA PhaseMoved ==
    ASSUME RoundInv, NEW l \in Lanes, NEW i \in Items, i = at[l],
           ~Absent(l, i), ~Committed(l, i),
           NEW q \in Phases, q \notin {"absent", "committed"},
           MovesTo(l, i, q),
           q \in {"unknown", "safe_retry"} => op[l][i].ord <= unknowns,
           run' \in Runs, attended' \in BOOLEAN,
           UNCHANGED <<barrier, transitions, found, want, prep, mem, crashes, unknowns>>
    PROVE  TypeOK' /\ \A m \in Lanes : RowInv(m)'
<1>1. /\ op' \in [Lanes -> [Items -> Operation]]
      /\ op'[l][i].phase = q /\ op'[l][i].ord = op[l][i].ord
      /\ \A j \in Items \ {i} : op'[l][j] = op[l][j]
      /\ \A m \in Lanes \ {l} : op'[m] = op[m]
  BY MovedTo DEF RoundInv
<1>2. /\ lane' = lane /\ step' = step /\ at' = at /\ epoch' = epoch
  BY DEF transitions
<1>3. TypeOK'
  <2>1. mem' \in MemTypes
    BY MemIsTyped DEF RoundInv
  <2> QED
    BY <1>1, <1>2, <2>1 DEF RoundInv, TypeOK, MemTypes, Runs, Operation, Phases
<1>4. \A m \in Lanes \ {l} : SameRow(m)
  BY <1>1, <1>2 DEF SameRow
<1>5. /\ lane[l] = "active" /\ epoch[l] = op[l][i].ord
      /\ step[l] = IF i = Cards THEN "source_dispatch" ELSE "detail_dispatch"
  BY UnderWay
<1>6. unknowns' \in Nat /\ unknowns' >= unknowns
  BY <1>2 DEF RoundInv, TypeOK
<1>7. op'[l][i].ord <= unknowns' + 1
  BY <1>1, <1>2 DEF RoundInv, RowInv, RowOperations
<1>8. op'[l][i].phase \in {"unknown", "safe_retry"} => op'[l][i].ord <= unknowns'
  BY <1>1, <1>2
<1>9. op'[l][i] \in Operation
  BY <1>1
<1>10. RowInv(l)'
  <2>1. TypeOK /\ RowInv(l)
    BY DEF RoundInv
  <2>2. /\ lane'[l] = "active" /\ at'[l] = at[l] /\ want'[l] = want[l] /\ found'[l] = found[l]
        /\ step'[l] = IF i = Cards THEN "source_dispatch" ELSE "detail_dispatch"
        /\ epoch'[l] = op'[l][i].ord
    BY <1>1, <1>2, <1>5
  <2>3. op'[l][i].phase \notin {"absent", "committed"}
    BY <1>1
  <2> QED
    BY <1>1, <1>5, <1>6, <1>7, <1>8, <1>9, <2>1, <2>2, <2>3, RowExchanged
<1> QED
  BY <1>3, <1>4, <1>6, <1>10, OneRow

\* commit_no_owner_source_reconciliation concludes an unknown operation, or lets it go
\* again.
LEMMA ReconcileKeeps ==
    ASSUME RoundInv, NEW x \in Lanes \X Items, Reconcile(x)
    PROVE  RoundInv'
<1>1. PICK l \in Lanes, i \in Items : x[1] = l /\ x[2] = i
  OBVIOUS
<1>2. /\ run \in {"resumable", "attention"} /\ op[l][i].phase = "unknown"
      /\ run' \in Runs /\ attended' \in BOOLEAN
      /\ UNCHANGED <<barrier, transitions, found, want, prep, mem, crashes, unknowns>>
  BY <1>1 DEF Reconcile, UnknownOperations, Runs, RoundInv, TypeOK
<1>3. PICK q \in {"concluded", "safe_retry"} : MovesTo(l, i, q)
  BY <1>1 DEF Reconcile, MovesTo
<1>4. /\ ~Absent(l, i) /\ ~Committed(l, i) /\ i = at[l] /\ op[l][i].ord <= unknowns
  BY <1>2 DEF RoundInv, RowInv, RowOperations, Absent, Committed
<1>5. q \in Phases /\ q \notin {"absent", "committed"}
  BY DEF Phases
<1>6. TypeOK' /\ \A m \in Lanes : RowInv(m)'
  BY <1>2, <1>3, <1>4, <1>5, PhaseMoved
<1>7. mem = Idle /\ mem' = Idle
  BY <1>2 DEF RoundInv, MemInv, RoundIsOpen
<1>8. mem'.pc = "idle" /\ mem'.skips = {} /\ mem'.lane = 0
  BY <1>7 DEF Idle
<1>9. LaneIsOpen' /\ ItemIsNext' /\ ExchangeIsKnown' /\ OpenedIsCounted'
  BY <1>8, OutOfLane
<1>10. SkipsArePending'
  BY <1>8 DEF SkipsArePending
<1>11. RoundIsOpen'
  BY <1>2, <1>7, <1>8 DEF RoundIsOpen, RoundInv, MemInv, transitions
<1> QED
  BY <1>6, <1>9, <1>10, <1>11 DEF RoundInv, MemInv

\* complete_lane commits the last operation with the lane.
LEMMA CompleteLaneKeeps == RoundInv /\ CompleteLane => RoundInv'
<1> SUFFICES ASSUME RoundInv, CompleteLane
             PROVE  RoundInv'
  OBVIOUS
<1>1. /\ run = "running" /\ mem.pc = "complete" /\ InLane
      /\ UNCHANGED <<barrier, found, want, prep, past>>
  BY DEF CompleteLane, At, InLane
<1>2. PICK l \in Lanes : l = mem.lane
  BY <1>1, LaneAtWork
<1>3. PICK b \in Items : b = at[l]
  BY DEF RoundInv, TypeOK
<1>4. CASE op[l][b].phase # "observed"
  <2>1. run' = "failed" /\ mem' = Idle /\ UNCHANGED <<transitions, op>>
    BY <1>2, <1>3, <1>4 DEF CompleteLane, Fails, Here
  <2> QED
    BY <1>1, <2>1, Failing DEF ops
<1>5. CASE op[l][b].phase = "observed"
  <2>1. /\ op' = [op EXCEPT ![l][b].phase = "committed"]
        /\ lane' = [lane EXCEPT ![l] = "completed"]
        /\ step' = [step EXCEPT ![l] = "lane_completed"]
        /\ mem' = [mem EXCEPT !.pc = "lanes"] /\ run' = run /\ at' = at /\ epoch' = epoch
    BY <1>2, <1>3, <1>5 DEF CompleteLane, Goto, Here
  <2>2. mem \in MemTypes
    BY <1>1, LaneAtWork
  <2>3. mem' \in MemTypes
    BY <2>1, <2>2 DEF MemTypes
  <2>4. /\ mem'.pc = "lanes" /\ mem'.lane = mem.lane /\ mem'.mode = mem.mode
        /\ mem'.skips = mem.skips
    BY <2>1, <2>2 DEF MemTypes
  <2>5. /\ op' \in [Lanes -> [Items -> Operation]] /\ \A m \in Lanes \ {l} : op'[m] = op[m]
    <3>1. TypeOK /\ "committed" \in Phases
      BY DEF RoundInv, Phases
    <3> QED
      BY <2>1, <3>1, PhaseReplaced
  <2>6. /\ lane' \in [Lanes -> {"pending", "skipped", "active", "completed"}]
        /\ lane'[l] = "completed" /\ \A m \in Lanes \ {l} : lane'[m] = lane[m]
    BY <2>1 DEF RoundInv, TypeOK
  <2>7. /\ step' \in [Lanes -> {"none", "source_dispatch", "detail_queued",
                                "detail_dispatch", "lane_completed"}]
        /\ step'[l] = "lane_completed" /\ \A m \in Lanes \ {l} : step'[m] = step[m]
    BY <2>1 DEF RoundInv, TypeOK
  <2>8. crashes' = crashes /\ attended' = attended /\ unknowns' = unknowns
    BY <1>1 DEF past
  <2>9. TypeOK'
    BY <1>1, <2>1, <2>3, <2>5, <2>6, <2>7, <2>8
       DEF RoundInv, TypeOK, MemTypes, Operation, Phases
  <2>10. \A m \in Lanes \ {l} : SameRow(m)
    BY <1>1, <2>1, <2>5, <2>6, <2>7 DEF SameRow
  <2>11. \A m \in Lanes : RowInv(m)'
    <3>1. TypeOK /\ RowInv(l) /\ found' = found /\ want' = want
      BY <1>1 DEF RoundInv
    <3>2. RowInv(l)'
      BY <1>3, <1>5, <2>1, <2>6, <2>7, <2>8, <3>1, RowCompleted
    <3>3. unknowns' \in Nat /\ unknowns' >= unknowns
      BY <2>8 DEF RoundInv, TypeOK
    <3> QED
      BY <2>10, <3>2, <3>3, OneRow
  <2>12. LaneIsOpen' /\ SkipsArePending' /\ RoundIsOpen'
    BY <1>1, <1>2, <2>1, <2>4, <2>10, StaysInLane
  <2>13. ItemIsNext' /\ ExchangeIsKnown' /\ OpenedIsCounted'
    BY <2>4, OutOfLane
  <2> QED
    BY <2>9, <2>11, <2>12, <2>13 DEF RoundInv, MemInv
<1> QED
  BY <1>4, <1>5

-----------------------------------------------------------------------------
(* The invariant holds of every behaviour.                                 *)

\* A run that enters the round satisfies the invariant.
LEMMA InitIsFine == Init => RoundInv
<1> SUFFICES ASSUME Init
             PROVE  RoundInv
  OBVIOUS
<1>1. mem.pc = "lanes" /\ mem.lane = 0 /\ mem.skips = {} /\ mem \in MemTypes
  BY IdleIsTyped DEF Init, Idle, MemTypes
<1>2. TypeOK
  <2>1. /\ lane \in [Lanes -> {"pending", "skipped", "active", "completed"}]
        /\ step \in [Lanes -> {"none", "source_dispatch", "detail_queued",
                               "detail_dispatch", "lane_completed"}]
        /\ at \in [Lanes -> Items] /\ epoch \in [Lanes -> 0 .. (MaxUnknowns + 1)]
        /\ found \in [Lanes -> Ranks \cup {0}] /\ want \in [Lanes -> Nat]
        /\ \A l \in Lanes : want[l] <= Target[l]
    BY ItemKinds, PlanAssumption DEF Init
  <2>2. op \in [Lanes -> [Items -> Operation]]
    <3>1. NoOperation \in Operation
      BY PlanAssumption DEF NoOperation, Operation, Phases
    <3> QED
      BY <3>1 DEF Init
  <2>3. crashes \in 0 .. MaxCrashes /\ unknowns \in 0 .. MaxUnknowns
    BY PlanAssumption DEF Init
  <2> QED
    BY <1>1, <2>1, <2>2, <2>3 DEF Init, TypeOK, MemTypes, Operation, Phases
<1>3. ASSUME NEW l \in Lanes
      PROVE  RowInv(l)
  <2>1. \A i \in Items : op[l][i] = NoOperation
    BY DEF Init
  <2>2. /\ lane[l] = "pending" /\ step[l] = "none" /\ at[l] = Cards /\ epoch[l] = 0
        /\ found[l] = 0 /\ unknowns = 0
    BY DEF Init
  <2>3. \A i \in Items : Absent(l, i)
    BY <2>1 DEF Absent, NoOperation
  <2>4. RowOperations(l)
    BY <2>1, <2>2, <2>3 DEF RowOperations, NoOperation
  <2>5. RowShape(l)
    BY <2>2, <2>3, ItemKinds DEF RowShape
  <2>6. RowOrder(l)
    BY <2>2, <2>3, ItemNames, PlanAssumption DEF RowOrder
  <2> QED
    BY <2>4, <2>5, <2>6 DEF RowInv
<1>4. LaneIsOpen /\ ItemIsNext /\ ExchangeIsKnown /\ OpenedIsCounted
  BY <1>1 DEF OnItem, InLane, LaneIsOpen, ItemIsNext, ExchangeIsKnown, OpenedIsCounted
<1>5. SkipsArePending /\ RoundIsOpen
  BY <1>1 DEF Init, SkipsArePending, RoundIsOpen
<1> QED
  BY <1>2, <1>3, <1>4, <1>5 DEF RoundInv, MemInv

\* Nothing happens.
LEMMA StutterKeeps == RoundInv /\ UNCHANGED vars => RoundInv'
<1> SUFFICES ASSUME RoundInv, UNCHANGED vars
             PROVE  RoundInv'
  OBVIOUS
<1>1. /\ run' = run /\ barrier' = barrier /\ lane' = lane /\ step' = step /\ at' = at
      /\ epoch' = epoch /\ op' = op /\ found' = found /\ want' = want /\ prep' = prep
      /\ mem' = mem /\ crashes' = crashes /\ attended' = attended /\ unknowns' = unknowns
  BY DEF vars, transitions, ops, past
<1>2. TypeOK'
  BY <1>1 DEF RoundInv, TypeOK
<1>3. \A l \in Lanes : RowInv(l)'
  BY <1>1, RowsKept DEF transitions, ops, RoundInv
<1>4. MemInv'
  BY <1>1 DEF RoundInv, MemInv, LaneIsOpen, SkipsArePending, RoundIsOpen, ItemIsNext,
              ExchangeIsKnown, OpenedIsCounted, InLane, OnItem, Here, Op, Remaining, Opened,
              SettledCaptures, Settled, OkCaptures, CapturePlan, Follows, Absent, Committed
<1> QED
  BY <1>2, <1>3, <1>4 DEF RoundInv

\* One case per step of the worker.
LEMMA WorkerStepKeeps == RoundInv /\ WorkerStep => RoundInv'
BY OpenBarrierKeeps, SearchLaneKeeps, SkipLaterKeeps, SkipNowKeeps, RefuseLaneKeeps,
   ResumeQueueKeeps, ReplayLaneKeeps, LanesDoneKeeps, PrepareReadinessKeeps, PreparedKeeps,
   ReplayKeeps, PersistCardsKeeps, PersistDetailKeeps, DetailMismatchKeeps, NotReadyKeeps,
   AcceptKeeps, RedeliverKeeps, MintRetryKeeps, SendKeeps, SendLostKeeps, AckKeeps,
   QueryHistoryKeeps, ObserveKeeps, RecordUnknownKeeps, CardsFailedKeeps, NoCardsKeeps,
   BindLocatorsKeeps, NextLocatorKeeps, BindCapturesKeeps, QueueFirstCaptureKeeps,
   CaptureSettledKeeps, NextCaptureKeeps, CapturesDoneKeeps, CompleteLaneKeeps, SkipKeeps,
   WriteCheckpointKeeps, YieldKeeps, ResumeKeeps DEF WorkerStep

\* Every step keeps the invariant.
LEMMA StepKeeps == RoundInv /\ [Next]_vars => RoundInv'
BY WorkerStepKeeps, CrashKeeps, LapseKeeps, ClaimKeeps, ReconcileKeeps, StutterKeeps DEF Next

\* At every moment of a round, whoever died and whatever answer was lost, the rows
\* of each lane are what its transition says of them and the attempt is where they
\* allow it to be (RoundInv, the conjunction of TypeOK, RowInv and MemInv).
THEOREM RoundIsInvariant == Spec => []RoundInv
<1>1. Init => RoundInv
  BY InitIsFine
<1>2. RoundInv /\ [Next]_vars => RoundInv'
  BY StepKeeps
<1> QED
  BY <1>1, <1>2, PTL DEF Spec

\* The rows of runtime_control_workflow_barrier_lanes and of the source operations
\* keep the statuses, step kinds and ordinals the code knows; in particular an
\* operation is authorized at most once more than answers were lost, a lane asks
\* for at most its query's target, and the counter of opened resumes never passes
\* the last rank.
THEOREM RoundTypes == Spec => []TypeOK
<1>1. RoundInv => TypeOK
  BY DEF RoundInv
<1> QED
  BY <1>1, RoundIsInvariant, PTL

-----------------------------------------------------------------------------
(* What the invariant says of the recovery service's checks.               *)

\* The operations that are not settled are those the transitions dispatched.
LEMMA UnresolvedAreDispatched ==
    ASSUME RoundInv
    PROVE  Unresolved = {<<l, at[l]>> : l \in InDispatch}
<1>1. ASSUME NEW l \in Lanes, NEW i \in Items, op[l][i].phase \notin {"absent", "committed"}
      PROVE  i = at[l] /\ l \in InDispatch
  <2>1. ~Absent(l, i) /\ ~Committed(l, i)
    BY <1>1 DEF Absent, Committed
  <2>2. i = at[l]
    BY <2>1 DEF RoundInv, RowInv, RowOperations
  <2>3. /\ lane[l] = "active"
        /\ step[l] = IF i = Cards THEN "source_dispatch" ELSE "detail_dispatch"
    BY <2>1, <2>2, UnderWay
  <2> QED
    BY <1>1, <2>2, <2>3 DEF InDispatch
<1>2. ASSUME NEW l \in InDispatch
      PROVE  l \in Lanes /\ at[l] \in Items /\ op[l][at[l]].phase \notin {"absent", "committed"}
  <2>1. l \in Lanes /\ at[l] \in Items
    BY DEF InDispatch, RoundInv, TypeOK
  <2>2. step[l] \in {"source_dispatch", "detail_dispatch"} /\ op[l][at[l]].phase # "absent"
    BY DEF InDispatch
  <2>3. RowShape(l)
    BY <2>1 DEF RoundInv, RowInv
  <2> QED
    BY <2>1, <2>2, <2>3 DEF RowShape, Absent, Committed
<1>3. Unresolved \subseteq {<<l, at[l]>> : l \in InDispatch}
  <2> SUFFICES ASSUME NEW x \in Unresolved
               PROVE  x \in {<<l, at[l]>> : l \in InDispatch}
    OBVIOUS
  <2>1. PICK l \in Lanes, i \in Items : x = <<l, i>>
    BY DEF Unresolved
  <2>2. op[l][i].phase \notin {"absent", "committed"}
    BY <2>1 DEF Unresolved
  <2> QED
    BY <1>1, <2>1, <2>2
<1>4. {<<l, at[l]>> : l \in InDispatch} \subseteq Unresolved
  BY <1>2 DEF Unresolved
<1> QED
  BY <1>3, <1>4

\* A lane satisfies what is asked of it unless its operation must be reconciled first.
LEMMA LaneIsRecoverable ==
    ASSUME RoundInv, NEW l \in Lanes,
           op[l][at[l]].phase \notin {"unknown", "concluded"}
    PROVE  LaneRecoverable(l)
<1>1. /\ step[l] \in {"none", "source_dispatch", "detail_queued", "detail_dispatch",
                      "lane_completed"}
      /\ at[l] \in Items /\ op[l][at[l]].phase \in Phases
      /\ RowShape(l) /\ RowOperations(l)
  BY DEF RoundInv, TypeOK, RowInv, Phases
<1> DEFINE o == op[l][at[l]]
<1>2. o.phase \in {"absent", "pending", "acked", "observed", "committed", "safe_retry"}
  BY <1>1 DEF Phases
<1>3. o.phase = "absent" => o.ord = 0
  BY <1>1 DEF RowOperations, Absent, NoOperation
<1>4. CASE step[l] = "none"
  BY <1>1, <1>4 DEF RowShape, LaneRecoverable
<1>5. CASE step[l] = "source_dispatch"
  BY <1>1, <1>2, <1>3, <1>5 DEF RowShape, LaneRecoverable, DispatchRecoverable, Committed
<1>6. CASE step[l] = "detail_queued"
  BY <1>1, <1>6 DEF RowShape, LaneRecoverable, Absent
<1>7. CASE step[l] = "detail_dispatch"
  BY <1>1, <1>2, <1>7 DEF RowShape, LaneRecoverable, DispatchRecoverable, Absent, Committed
<1>8. CASE step[l] = "lane_completed"
  BY <1>1, <1>8 DEF RowShape, LaneRecoverable, Committed
<1> QED
  BY <1>1, <1>4, <1>5, <1>6, <1>7, <1>8

\* _source_operations_recoverable_at_checkpoint holds between any two steps of the
\* worker, unless an operation's effect is unknown or prepare_readiness has an
\* operation of its own: a worker that dies leaves a round the next one can resume.
THEOREM RoundsAreRecoverable == Spec => []RoundIsRecoverable
<1>1. RoundInv => RoundIsRecoverable
  <2> SUFFICES ASSUME RoundInv, prep \in {"none", "committed"},
                      \A x \in Unresolved : op[x[1]][x[2]].phase \notin {"unknown", "concluded"}
               PROVE  Recoverable
    BY DEF RoundIsRecoverable
  <2>1. Unresolved = {<<l, at[l]>> : l \in InDispatch}
    BY UnresolvedAreDispatched
  <2>2. ASSUME barrier = "none"
        PROVE  Unresolved = {}
    <3>1. \A l \in Lanes : lane[l] = "pending"
      BY <2>2 DEF RoundInv, MemInv, RoundIsOpen
    <3>2. InDispatch = {}
      BY <3>1 DEF InDispatch
    <3> QED
      BY <2>1, <3>2
  <2>3. ASSUME NEW l \in Lanes
        PROVE  LaneRecoverable(l)
    <3>1. op[l][at[l]].phase \notin {"unknown", "concluded"}
      <4>1. CASE op[l][at[l]].phase \in {"absent", "committed"}
        BY <4>1
      <4>2. CASE op[l][at[l]].phase \notin {"absent", "committed"}
        <5>1. at[l] \in Items
          BY DEF RoundInv, TypeOK
        <5>2. <<l, at[l]>> \in Unresolved
          BY <4>2, <5>1 DEF Unresolved
        <5> QED
          BY <5>2
      <4> QED
        BY <4>1, <4>2
    <3> QED
      BY <3>1, LaneIsRecoverable
  <2> QED
    BY <2>1, <2>2, <2>3 DEF Recoverable
<1> QED
  BY <1>1, RoundIsInvariant, PTL

\* The watermark a queued or dispatched detail carries (detailCompletedHighWatermark
\* = detailCursor - 1) tells the truth: what is before the item is committed, what is
\* after it is untouched.
THEOREM WatermarksAreTrue == Spec => []WatermarkIsTrue
<1>1. RoundInv => WatermarkIsTrue
  <2> SUFFICES ASSUME RoundInv, NEW l \in Lanes,
                      step[l] \in {"detail_queued", "detail_dispatch"}
               PROVE  LET k == at[l][2]
                          committed(i) == op[l][i].phase = "committed"
                          absent(i) == op[l][i].phase = "absent"
                      IN /\ committed(Cards)
                         /\ at[l] = Locator(k) =>
                              /\ \A j \in 1 .. (k - 1) : committed(Locator(j))
                              /\ \A j \in (k + 1) .. found[l] : absent(Locator(j))
                              /\ \A j \in Ranks : absent(Capture(j))
                         /\ at[l] = Capture(k) =>
                              /\ \A j \in 1 .. found[l] : committed(Locator(j))
                              /\ \A j \in CapturePlan(l) :
                                  /\ j < k /\ <<l, j>> \notin Seen => committed(Capture(j))
                                  /\ j > k => absent(Capture(j))
    BY DEF WatermarkIsTrue
  <2>1. at[l] # Cards /\ at[l] \in Items /\ RowInv(l) /\ TypeOK
    BY DEF RoundInv, RowInv, RowShape, TypeOK
  <2>2. Committed(l, Cards)
    BY <2>1 DEF RowInv, RowOrder
  <2>3. /\ found[l] \in Nat /\ 1 .. found[l] \subseteq Ranks /\ \A j \in Ranks : j \in Nat
        /\ CapturePlan(l) \subseteq Ranks
    BY <2>1, FoundHaveRanks, RankFacts DEF CapturePlan
  <2>4. ASSUME NEW k \in Ranks, at[l] = Locator(k)
        PROVE  /\ \A j \in 1 .. (k - 1) : Committed(l, Locator(j))
               /\ \A j \in (k + 1) .. found[l] : Absent(l, Locator(j))
               /\ \A j \in Ranks : Absent(l, Capture(j))
    <3>1. /\ \A j \in Ranks : j < k => Committed(l, Locator(j))
          /\ \A j \in Ranks : j > k => Absent(l, Locator(j))
          /\ \A j \in Ranks : Absent(l, Capture(j))
      BY <2>1, <2>4, OrderAtLocator
    <3>2. \A j \in 1 .. (k - 1) : j \in Ranks /\ j < k
      BY <2>3, RankFacts
    <3>3. \A j \in (k + 1) .. found[l] : j \in Ranks /\ j > k
      BY <2>3
    <3> QED
      BY <3>1, <3>2, <3>3
  <2>5. ASSUME NEW k \in Ranks, at[l] = Capture(k)
        PROVE  /\ \A j \in 1 .. found[l] : Committed(l, Locator(j))
               /\ \A j \in CapturePlan(l) :
                    /\ j < k /\ <<l, j>> \notin Seen => Committed(l, Capture(j))
                    /\ j > k => Absent(l, Capture(j))
    BY <2>1, <2>3, <2>5, OrderAtCapture
  <2>6. \/ \E k \in Ranks : at[l] = Locator(k) /\ at[l][2] = k
        \/ \E k \in Ranks : at[l] = Capture(k) /\ at[l][2] = k
    BY <2>1, ItemKinds, ItemNames
  <2> QED
    BY <2>2, <2>4, <2>5, <2>6, ItemNames DEF Committed, Absent
<1> QED
  BY <1>1, RoundIsInvariant, PTL

\* complete_lane and the captures of a search count what a lane opened before it was
\* resumed: no crash and no retry makes it open more than requested_count.
THEOREM LanesOpenAtMostWanted == Spec => []OpensAtMostWanted
<1>1. RoundInv => OpensAtMostWanted
  <2> SUFFICES ASSUME RoundInv, NEW l \in Lanes
               PROVE  Cardinality(OkCaptures(l)) <= want[l]
    BY DEF OpensAtMostWanted, OkCaptures
  <2>1. at[l] \in Items /\ RowInv(l) /\ TypeOK /\ want[l] \in Nat
    BY DEF RoundInv, TypeOK
  <2>2. CASE at[l] = Cards
    <3>1. \A j \in Ranks : Absent(l, Capture(j))
      BY <2>1, <2>2, ItemKinds, ItemNames DEF RowInv, RowOrder
    <3> QED
      BY <2>1, <3>1, NothingOpened, FS_EmptySet
  <2>3. ASSUME NEW k \in Ranks, at[l] = Locator(k)
        PROVE  Cardinality(OkCaptures(l)) <= want[l]
    <3>1. \A j \in Ranks : Absent(l, Capture(j))
      BY <2>1, <2>3, OrderAtLocator
    <3> QED
      BY <2>1, <3>1, NothingOpened, FS_EmptySet
  <2>4. ASSUME NEW k \in Ranks, at[l] = Capture(k)
        PROVE  Cardinality(OkCaptures(l)) <= want[l]
    <3>1. Cardinality(OkCaptures(l) \ {k}) < want[l]
      BY <2>1, <2>4, OrderAtCapture
    <3>2. IsFiniteSet(OkCaptures(l)) /\ IsFiniteSet(OkCaptures(l) \ {k})
      BY RankFacts, FS_Subset DEF OkCaptures
    <3>3. Cardinality(OkCaptures(l)) \in Nat /\ Cardinality(OkCaptures(l) \ {k}) \in Nat
      BY <3>2, FS_CardinalityType
    <3>4. CASE k \in OkCaptures(l)
      <4>1. Cardinality(OkCaptures(l) \ {k}) = Cardinality(OkCaptures(l)) - 1
        BY <3>2, <3>4, FS_RemoveElement
      <4> QED
        BY <2>1, <3>1, <3>3, <4>1
    <3>5. CASE k \notin OkCaptures(l)
      <4>1. OkCaptures(l) \ {k} = OkCaptures(l)
        BY <3>5
      <4> QED
        BY <2>1, <3>1, <3>3, <4>1
    <3> QED
      BY <3>4, <3>5
  <2> QED
    BY <2>1, <2>2, <2>3, <2>4, ItemKinds
<1> QED
  BY <1>1, RoundIsInvariant, PTL

=============================================================================
