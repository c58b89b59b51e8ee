------------------------ MODULE SourceDispatchProofs ------------------------
(***************************************************************************)
(* Proofs about SourceDispatch for any set of operations and any bound on  *)
(* the attempts.                                                           *)
(*                                                                         *)
(* TypeOK needs to know where ordinals come from.  That the browser is     *)
(* driven once is a fact of the journal alone: one session is the newest,  *)
(* it has accepted at most one command, and a command with a successor was *)
(* accepted by an older session and never dispatched.                      *)
(***************************************************************************)
EXTENDS SourceDispatchRefinement, TLAPS

-----------------------------------------------------------------------------
(* The inductive invariant.                                                *)

\* Where an attempt has not yet written to its sidecar.
BeforeSend == {"none", "start", "lane", "inside", "accept", "mint", "send"}

\* Where an attempt knows no authorization yet.
BeforeRead == {"none", "start", "lane", "inside", "accept", "mint", "leave", "exit", "done",
               "finished", "gone"}

\* An authorization is minted at most once per attempt; an attempt that works
\* for one knows its number, and so does the coordinator that looked at it.
\* Nobody works for an operation that was never authorized.
OrdinalsAreMinted ==
    /\ \A o \in Operations : op[o].ord <= op[o].by /\ (op[o].phase # "absent" <=> op[o].ord # 0)
    /\ \A o \in Operations, a \in Attempts :
           /\ main[o][a].ord # 0 \/ side[o][a].ord # 0 => op[o].ord # 0
           /\ main[o][a].pc \notin BeforeRead => main[o][a].ord # 0
           /\ main[o][a].pc = "ack" => main[o][a].next # "none"
    /\ co.pc = "looked" => co.seen.ord # 0

\* A later attempt has not begun.
FutureAttempts ==
    \A o \in Operations, a \in Attempts : a > att[o] => main[o][a].pc = "none"

\* A sidecar works for nobody before its attempt sends the command, and a
\* process that has not started a session has no generation.
SidecarsWait ==
    \A o \in Operations, a \in Attempts :
        /\ side[o][a].st \in {"off", "boot"} => side[o][a].gen = "none"
        /\ side[o][a].ord = 0 => side[o][a].st \in {"off", "boot", "idle"}
        /\ main[o][a].pc \in BeforeSend => side[o][a].ord = 0

\* Every head was written by a session.
HeadsHaveSessions ==
    \A o \in Operations, n \in Ordinals : head[o][n].phase # "none" => head[o][n].gen # "none"

OneNewestSession ==
    \A o, p \in Operations, a, b \in Attempts :
        side[o][a].gen = "newest" /\ side[p][b].gen = "newest" => o = p /\ a = b

\* The newest session has accepted no command but the one it works for.
OneHeadPerSession ==
    \A o, p \in Operations, a \in Attempts, n \in Ordinals :
        /\ side[o][a].gen = "newest"
        /\ side[o][a].ord # 0 \/ main[o][a].pc \in BeforeSend
        /\ head[p][n].gen = "newest"
        => p = o /\ n = side[o][a].ord /\ side[o][a].st \notin {"boot", "idle"}

\* A head with a successor is one of an older session and has no intent.
SupersededIsUndispatched ==
    \A o \in Operations, n, k \in Ordinals :
        n < k /\ head[o][k].phase # "none" => head[o][n] = [phase |-> "accepted", gen |-> "old"]

JournalInv ==
    /\ FutureAttempts
    /\ SidecarsWait
    /\ HeadsHaveSessions
    /\ OneNewestSession
    /\ OneHeadPerSession
    /\ SupersededIsUndispatched

\* Every effect goes with the one intent of its operation.
EffectsAreIntended ==
    /\ \A o \in Operations :
           /\ effects[o] \in {0, 1}
           /\ effects[o] # 0 => \E n \in Ordinals : head[o][n].phase \in {"intent", "observed"}
    /\ \A o \in Operations, a \in Attempts :
           /\ side[o][a].st = "intent" =>
                  effects[o] = 0 /\ head[o][side[o][a].ord].phase = "intent"
           /\ side[o][a].st = "effected" => effects[o] = 1
    /\ \A o \in Operations, a, b \in Attempts :
           side[o][a].st = "intent" /\ side[o][b].st = "intent" => a = b

\* Whoever speaks of a result has seen it in the journal.
ResultsAreJournaled ==
    /\ \A o \in Operations : JournalHolds(o) => effects[o] = 1
    /\ \A o \in Operations, a \in Attempts :
           /\ side[o][a].st = "result" => JournalHolds(o)
           /\ main[o][a].pc \in {"ack", "observe"} /\ main[o][a].next = "observe"
                  => JournalHolds(o)
           /\ main[o][a].pc = "observe" => main[o][a].next = "observe"
    /\ co.pc = "looked" /\ co.found = "result" => co.op \in Operations /\ JournalHolds(co.op)
    /\ \A o \in Operations :
           /\ op[o].concl = "result" => JournalHolds(o)
           /\ op[o].phase \in {"observed", "committed"} => op[o].concl # "none"

\* The latest reconciliation row says what the operation says: it proves the
\* conclusion, or that nothing was dispatched of an operation that may go again.
RecordFits(row) ==
    /\ row.rec \in Conclusive => row.concl = row.rec
    /\ row.posture = "safe_retry" => row.rec \in NoDispatchProved

\* A conclusion belongs to an operation that is not to be retried.
ConclusionsSettle ==
    \A o \in Operations :
        /\ op[o].concl # "none" => op[o].posture = "no_retry"
        /\ op[o].phase \in {"absent", "accepted"} => op[o].concl = "none"
        /\ RecordFits(op[o])

\* Fencing tokens are unique, and a lane has the token of its last operation.
TokensAreUnique ==
    /\ \A o \in Operations, a \in Attempts :
           /\ main[o][a].token <= lane.token
           /\ main[o][a].token # 0 /\ main[o][a].token = lane.token => lane.op = o
           /\ main[o][a].pc = "exit" => side[o][a].st = "off"
    /\ lane.open => lane.token # 0

IInv ==
    /\ TypeOK
    /\ OrdinalsAreMinted
    /\ JournalInv
    /\ EffectsAreIntended
    /\ ResultsAreJournaled
    /\ ConclusionsSettle
    /\ TokensAreUnique

-----------------------------------------------------------------------------
(* Rows.                                                                   *)

\* accept_source_operation mints the first ordinal, whatever the bound.
LEMMA FirstOrdinal == 1 \in Ordinals
  BY MaxAttemptsPositive DEF Ordinals

\* A step of an attempt replaces its own row and no other.
LEMMA MainEffect ==
    ASSUME TypeOK, NEW o \in Operations, NEW a \in Attempts, NEW m \in MainRow, Step(o, a, m)
    PROVE  /\ main' \in [Operations -> [Attempts -> MainRow]]
           /\ main'[o][a] = m
           /\ \A p \in Operations, b \in Attempts : p # o \/ b # a => main'[p][b] = main[p][b]
  BY DEF TypeOK, Step

\* What happens to one sidecar leaves every other alone.
LEMMA SideEffect ==
    ASSUME TypeOK, NEW o \in Operations, NEW a \in Attempts, NEW s \in SideRow, Put(o, a, s)
    PROVE  /\ side' \in [Operations -> [Attempts -> SideRow]]
           /\ side'[o][a] = s
           /\ \A p \in Operations, b \in Attempts : p # o \/ b # a => side'[p][b] = side[p][b]
  BY DEF TypeOK, Put

\* An operation's row is replaced and no other.
LEMMA WriteEffect ==
    ASSUME TypeOK, NEW o \in Operations, NEW row \in OperationRow, Write(o, row)
    PROVE  /\ op' \in [Operations -> OperationRow]
           /\ op'[o] = row
           /\ \A p \in Operations : p # o => op'[p] = op[p]
  BY DEF TypeOK, Write

\* Every row has its type, those a call starts and ends with included.
LEMMA RowTypes ==
    ASSUME TypeOK
    PROVE  /\ \A o \in Operations, a \in Attempts : main[o][a] \in MainRow /\ side[o][a] \in SideRow
           /\ \A o \in Operations : op[o] \in OperationRow
           /\ \A o \in Operations, n \in Ordinals : head[o][n] \in HeadRow
           /\ NotStarted \in MainRow /\ Gone \in MainRow /\ Idle \in SideRow /\ NoRow \in OperationRow
  <1>1. \A o \in Operations, a \in Attempts : main[o][a] \in MainRow /\ side[o][a] \in SideRow
    BY DEF TypeOK
  <1>2. /\ \A o \in Operations : op[o] \in OperationRow
        /\ \A o \in Operations, n \in Ordinals : head[o][n] \in HeadRow
    BY DEF TypeOK
  <1>3. NotStarted \in MainRow
    BY DEF NotStarted, MainRow, MainLabel
  <1>4. Gone \in MainRow
    BY DEF NotStarted, Gone, MainRow, MainLabel
  <1>5. Idle \in SideRow
    BY DEF Idle, SideRow, Age
  <1>6. NoRow \in OperationRow
    BY DEF NoRow, OperationRow, Evidence
  <1>7. QED
    BY <1>1, <1>2, <1>3, <1>4, <1>5, <1>6

\* What every step of an attempt does to its own row.
MovesTo(o, a, m) ==
    /\ Step(o, a, m)
    /\ main[o][a].pc # "none"
    /\ m.pc \in BeforeSend => main[o][a].pc \in BeforeSend
    /\ m.pc \notin BeforeRead => m.ord # 0
    /\ m.ord # 0 => main[o][a].ord # 0 \/ op'[o].ord # 0
    /\ m.pc = "ack" => m.next # "none"
    /\ \/ m.token \in {0, main[o][a].token}
       \/ /\ m.token = lane.token + 1
          /\ lane' = [open |-> TRUE, overdue |-> FALSE, token |-> lane.token + 1, op |-> o]
    /\ m.pc = "exit" => side'[o][a].st = "off"
    /\ m.pc = "observe" => m.next = "observe"
    /\ m.pc \in {"ack", "observe"} /\ m.next = "observe" =>
           \/ main[o][a].pc = "ack" /\ main[o][a].next = "observe"
           \/ side[o][a].st = "result"

MainMoves(o, a) == \E m \in MainRow : MovesTo(o, a, m)

\* The call ends.
LEMMA LeaveMoves ==
    ASSUME TypeOK, NEW o \in Operations, NEW a \in Attempts,
           NEW out \in {"none", "ok", "unknown", "raised"},
           main[o][a].pc # "none", Leave(o, a, out)
    PROVE  MainMoves(o, a)
  <1> DEFINE m == [NotStarted EXCEPT !.pc = "leave", !.out = out, !.token = main[o][a].token]
  <1>1. main[o][a] \in MainRow
    BY RowTypes
  <1>2. /\ m \in MainRow
        /\ m.pc = "leave" /\ m.token = main[o][a].token /\ m.ord = 0
    BY <1>1 DEF MainRow, MainLabel, NotStarted
  <1>3. Step(o, a, m)
    BY DEF Leave
  <1> HIDE DEF m
  <1>4. MovesTo(o, a, m)
    BY <1>1, <1>2, <1>3 DEF MovesTo, BeforeSend, BeforeRead
  <1>5. QED
    BY <1>2, <1>4 DEF MainMoves

\* The guard is left.
LEMMA DoneMoves ==
    ASSUME TypeOK, NEW o \in Operations, NEW a \in Attempts,
           NEW out \in {"none", "ok", "busy", "unknown", "raised"},
           main[o][a].pc # "none", Done(o, a, out)
    PROVE  MainMoves(o, a)
  <1> DEFINE m == [NotStarted EXCEPT !.pc = "done", !.out = out]
  <1>1. main[o][a] \in MainRow
    BY RowTypes
  <1>2. m \in MainRow /\ m.pc = "done" /\ m.token = 0 /\ m.ord = 0
    BY <1>1 DEF MainRow, MainLabel, NotStarted
  <1>3. Step(o, a, m)
    BY DEF Done
  <1> HIDE DEF m
  <1>4. MovesTo(o, a, m)
    BY <1>1, <1>2, <1>3 DEF MovesTo, BeforeSend, BeforeRead
  <1>5. QED
    BY <1>2, <1>4 DEF MainMoves

\* The attempt goes to another label and keeps the rest of its row.
LEMMA GotoMoves ==
    ASSUME TypeOK, OrdinalsAreMinted, NEW o \in Operations, NEW a \in Attempts,
           NEW l \in MainLabel, main[o][a].pc # "none",
           l \in BeforeSend => main[o][a].pc \in BeforeSend,
           l \notin BeforeRead => main[o][a].ord # 0,
           l \notin {"ack", "observe"},
           l = "exit" => side'[o][a].st = "off",
           Goto(o, a, l)
    PROVE  MainMoves(o, a)
  <1> DEFINE m == [main[o][a] EXCEPT !.pc = l]
  <1>1. main[o][a] \in MainRow
    BY RowTypes
  <1>2. /\ m \in MainRow
        /\ m.pc = l /\ m.token = main[o][a].token /\ m.ord = main[o][a].ord
    BY <1>1 DEF MainRow
  <1>3. Step(o, a, m)
    BY DEF Goto
  <1> HIDE DEF m
  <1>4. MovesTo(o, a, m)
    BY <1>1, <1>2, <1>3 DEF MovesTo
  <1>5. QED
    BY <1>2, <1>4 DEF MainMoves

\* Every step of an attempt, and its death, moves its own row.
LEMMA StepsMove ==
    ASSUME TypeOK, OrdinalsAreMinted, NEW o \in Operations, NEW a \in Attempts,
           MainStep(o, a) \/ Crash(o, a)
    PROVE  MainMoves(o, a) \/ UNCHANGED main
  <1> DEFINE was == main[o][a]
  <1>1. was \in MainRow /\ op[o] \in OperationRow
    BY RowTypes
  <1>2. was.pc \notin BeforeRead => was.ord # 0
    BY DEF OrdinalsAreMinted
  <1>3. CASE Begin(o, a)
    <2>1. CASE op[o].phase \in {"observed", "committed"}
      <3> DEFINE m == [was EXCEPT !.pc = "done", !.out = "ok"]
      <3>1. m \in MainRow /\ m.pc = "done" /\ m.token = was.token /\ m.ord = was.ord
        BY <1>1 DEF MainRow, MainLabel
      <3>2. Step(o, a, m) /\ was.pc = "start"
        BY <1>3, <2>1 DEF Begin
      <3> HIDE DEF m
      <3>3. MovesTo(o, a, m)
        BY <3>1, <3>2 DEF MovesTo, BeforeSend, BeforeRead
      <3>4. QED
        BY <3>1, <3>3 DEF MainMoves
    <2>2. CASE op[o].phase \notin {"observed", "committed"}
      <3>1. \E l \in {"inside", "lane"} : Goto(o, a, l) /\ was.pc = "start"
        BY <1>3, <2>2 DEF Begin
      <3>2. QED
        BY <3>1, GotoMoves DEF MainLabel, BeforeSend, BeforeRead
    <2>3. QED
      BY <2>1, <2>2
  <1>4. CASE AcquireLane(o, a)
    <2> DEFINE m == [was EXCEPT !.pc = "inside", !.token = lane.token + 1]
    <2>1. lane.token + 1 \in Nat
      BY DEF TypeOK
    <2>2. m \in MainRow /\ m.pc = "inside" /\ m.token = lane.token + 1 /\ m.ord = was.ord
      BY <1>1, <2>1 DEF MainRow, MainLabel
    <2>3. /\ Step(o, a, m) /\ was.pc = "lane"
          /\ lane' = [open |-> TRUE, overdue |-> FALSE, token |-> lane.token + 1, op |-> o]
      BY <1>4 DEF AcquireLane
    <2> HIDE DEF m
    <2>4. MovesTo(o, a, m)
      BY <2>2, <2>3 DEF MovesTo, BeforeSend, BeforeRead
    <2>5. QED
      BY <2>2, <2>4 DEF MainMoves
  <1>5. CASE LaneBusy(o, a)
    <2> DEFINE m == [was EXCEPT !.pc = "done", !.out = "busy"]
    <2>1. m \in MainRow /\ m.pc = "done" /\ m.token = was.token /\ m.ord = was.ord
      BY <1>1 DEF MainRow, MainLabel
    <2>2. Step(o, a, m) /\ was.pc = "lane"
      BY <1>5 DEF LaneBusy
    <2> HIDE DEF m
    <2>3. MovesTo(o, a, m)
      BY <2>1, <2>2 DEF MovesTo, BeforeSend, BeforeRead
    <2>4. QED
      BY <2>1, <2>3 DEF MainMoves
  <1>6. CASE ReadContext(o, a)
    <2>1. CASE Leave(o, a, "none")
      BY <1>6, <2>1, LeaveMoves DEF ReadContext
    <2>2. CASE ~Leave(o, a, "none")
      <3>1. PICK next \in {"accept", "mint", "send", "query"} :
              /\ Step(o, a, [was EXCEPT !.pc = next, !.ord = op[o].ord, !.pend = Pending(o)])
              /\ next # "accept" => op[o].phase # "absent"
              /\ was.pc = "inside" /\ UNCHANGED op
        BY <1>6, <2>2 DEF ReadContext, ledgerVars
      <3> DEFINE m == [was EXCEPT !.pc = next, !.ord = op[o].ord, !.pend = Pending(o)]
      <3>2. Pending(o) \in BOOLEAN
        BY DEF Pending
      <3>3. m \in MainRow /\ m.pc = next /\ m.token = was.token /\ m.ord = op[o].ord
        BY <1>1, <3>2 DEF MainRow, MainLabel, OperationRow
      <3>4. next # "accept" => op[o].ord # 0
        BY <3>1 DEF OrdinalsAreMinted
      <3> HIDE DEF m
      <3>5. Step(o, a, m)
        BY <3>1 DEF m
      <3>6. MovesTo(o, a, m)
        BY <3>1, <3>3, <3>4, <3>5 DEF MovesTo, BeforeSend, BeforeRead
      <3>7. QED
        BY <3>3, <3>6 DEF MainMoves
    <2>3. QED
      BY <2>1, <2>2
  <1>7. CASE Accept(o, a)
    <2>1. CASE Leave(o, a, "raised")
      BY <1>7, <2>1, LeaveMoves DEF Accept
    <2>2. CASE ~Leave(o, a, "raised")
      <3> DEFINE m == [was EXCEPT !.pc = "send", !.ord = 1, !.pend = TRUE]
      <3>1. Step(o, a, m) /\ was.pc = "accept"
        BY <1>7, <2>2 DEF Accept
      <3>2. m \in MainRow /\ m.pc = "send" /\ m.token = was.token /\ m.ord = 1
        BY <1>1, FirstOrdinal DEF MainRow, MainLabel
      <3> DEFINE row == [NoRow EXCEPT !.phase = "accepted", !.ord = 1, !.by = a]
      <3>3. Write(o, row)
        BY <1>7, <2>2 DEF Accept
      <3>4. row \in OperationRow /\ row.ord = 1
        BY FirstOrdinal DEF NoRow, OperationRow, Evidence
      <3> HIDE DEF m, row
      <3>5. op'[o].ord = 1
        BY <3>3, <3>4, WriteEffect
      <3>6. MovesTo(o, a, m)
        BY <3>1, <3>2, <3>5 DEF MovesTo, BeforeSend, BeforeRead
      <3>7. QED
        BY <3>2, <3>6 DEF MainMoves
    <2>3. QED
      BY <2>1, <2>2
  <1>8. CASE Mint(o, a)
    <2>1. CASE Leave(o, a, "raised")
      BY <1>8, <2>1, LeaveMoves DEF Mint
    <2>2. CASE ~Leave(o, a, "raised")
      <3> DEFINE m == [was EXCEPT !.pc = "send", !.ord = op[o].ord + 1, !.pend = TRUE]
      <3>1. Step(o, a, m) /\ was.pc = "mint" /\ op[o].by < a
        BY <1>8, <2>2 DEF Mint
      <3>2. op[o].ord + 1 \in Ordinals
        BY <1>1, <3>1, MaxAttemptsPositive DEF OrdinalsAreMinted, OperationRow, Ordinals, Attempts
      <3>3. m \in MainRow /\ m.pc = "send" /\ m.token = was.token /\ m.ord = op[o].ord + 1
        BY <1>1, <3>2 DEF MainRow, MainLabel
      <3>4. m.ord # 0
        BY <3>2, <3>3 DEF Ordinals
      <3> DEFINE row == [op[o] EXCEPT !.posture = "no_retry", !.ord = op[o].ord + 1, !.by = a]
      <3>5. Write(o, row)
        BY <1>8, <2>2 DEF Mint
      <3>6. row \in OperationRow /\ row.ord = op[o].ord + 1
        BY <1>1, <3>2 DEF OperationRow
      <3> HIDE DEF m, row
      <3>7. op'[o].ord # 0
        BY <3>3, <3>4, <3>5, <3>6, WriteEffect
      <3>8. MovesTo(o, a, m)
        BY <3>1, <3>3, <3>4, <3>7 DEF MovesTo, BeforeSend, BeforeRead
      <3>9. QED
        BY <3>3, <3>8 DEF MainMoves
    <2>3. QED
      BY <2>1, <2>2
  <1>9. CASE Send(o, a)
    BY <1>9, <1>2, GotoMoves DEF Send, MainLabel, BeforeSend, BeforeRead
  <1>10. CASE Receive(o, a)
    <2>1. PICK next \in {"observe", "query"} :
            /\ Step(o, a, [was EXCEPT !.pc = "ack", !.next = next])
            /\ next = "observe" => side[o][a].st = "result"
      BY <1>10 DEF Receive
    <2> DEFINE m == [was EXCEPT !.pc = "ack", !.next = next]
    <2>2. m \in MainRow /\ m.pc = "ack" /\ m.token = was.token /\ m.next = next /\ m.ord = was.ord
      BY <1>1 DEF MainRow, MainLabel
    <2>3. was.pc = "await"
      BY <1>10 DEF Receive
    <2>4. Step(o, a, m)
      BY <2>1
    <2> HIDE DEF m
    <2>5. MovesTo(o, a, m)
      BY <1>2, <2>1, <2>2, <2>3, <2>4 DEF MovesTo, BeforeSend, BeforeRead
    <2>6. QED
      BY <2>2, <2>5 DEF MainMoves
  <1>11. CASE NoAnswer(o, a)
    BY <1>11, <1>2, GotoMoves DEF NoAnswer, MainLabel, BeforeSend, BeforeRead
  <1>12. CASE Query(o, a)
    <2>1. was.pc \in {"query", "recover"} /\ was.ord \in Ordinals
      BY <1>1, <1>2, <1>12 DEF Query, BeforeRead, MainRow
    <2>2. head[o][was.ord] \in HeadRow
      BY <2>1, RowTypes
    <2>3. PICK saw \in {"none", "intent", "observed"}, l \in {"replay", "ack", "unknown"} :
            Step(o, a, [was EXCEPT !.saw = saw, !.next = "unknown", !.pc = l])
      BY <1>12, <2>2 DEF Query, HeadRow
    <2> DEFINE m == [was EXCEPT !.saw = saw, !.next = "unknown", !.pc = l]
    <2>4. m \in MainRow /\ m.pc = l /\ m.token = was.token /\ m.next = "unknown" /\ m.ord = was.ord
      BY <1>1 DEF MainRow, MainLabel
    <2>5. Step(o, a, m)
      BY <2>3
    <2> HIDE DEF m
    <2>6. MovesTo(o, a, m)
      BY <1>2, <2>1, <2>4, <2>5 DEF MovesTo, BeforeSend, BeforeRead
    <2>7. QED
      BY <2>4, <2>6 DEF MainMoves
  <1>13. CASE Replay(o, a)
    BY <1>13, <1>2, GotoMoves DEF Replay, MainLabel, BeforeSend, BeforeRead
  <1>14. CASE ReplayEnds(o, a)
    <2>1. PICK l \in {"ack", "unknown"} :
            /\ Step(o, a, [was EXCEPT !.pc = l, !.next = "observe"])
            /\ l = "ack" => side[o][a].st = "result"
      BY <1>14 DEF ReplayEnds
    <2> DEFINE m == [was EXCEPT !.pc = l, !.next = "observe"]
    <2>2. m \in MainRow /\ m.pc = l /\ m.token = was.token /\ m.next = "observe" /\ m.ord = was.ord
      BY <1>1 DEF MainRow, MainLabel
    <2>3. was.pc = "replaying"
      BY <1>14 DEF ReplayEnds
    <2>4. Step(o, a, m)
      BY <2>1
    <2> HIDE DEF m
    <2>5. MovesTo(o, a, m)
      BY <1>2, <2>1, <2>2, <2>3, <2>4 DEF MovesTo, BeforeSend, BeforeRead
    <2>6. QED
      BY <2>2, <2>5 DEF MainMoves
  <1>15. CASE Ack(o, a)
    <2>1. CASE Leave(o, a, "raised")
      BY <1>15, <2>1, LeaveMoves DEF Ack
    <2>2. CASE ~Leave(o, a, "raised")
      <3> DEFINE m == [was EXCEPT !.pc = was.next, !.pend = FALSE]
      <3>1. Step(o, a, m) /\ was.pc = "ack"
        BY <1>15, <2>2 DEF Ack
      <3>2. was.next \in {"observe", "query", "unknown"}
        BY <1>1, <3>1 DEF OrdinalsAreMinted, MainRow
      <3>3. m \in MainRow /\ m.pc = was.next /\ m.token = was.token /\ m.next = was.next /\ m.ord = was.ord
        BY <1>1, <3>2 DEF MainRow, MainLabel
      <3> HIDE DEF m
      <3>4. MovesTo(o, a, m)
        BY <1>2, <3>1, <3>2, <3>3 DEF MovesTo, BeforeSend, BeforeRead
      <3>5. QED
        BY <3>3, <3>4 DEF MainMoves
    <2>3. QED
      BY <2>1, <2>2
  <1>16. CASE RecordUnknown(o, a)
    <2>1. was.pc = "unknown" /\ \E out \in {"unknown", "raised"} : Leave(o, a, out)
      BY <1>16 DEF RecordUnknown
    <2>2. QED
      BY <2>1, LeaveMoves
  <1>17. CASE Observe(o, a)
    <2>1. was.pc = "observe" /\ \E out \in {"ok", "raised"} : Leave(o, a, out)
      BY <1>17 DEF Observe
    <2>2. QED
      BY <2>1, LeaveMoves
  <1>18. CASE CloseSidecar(o, a)
    <2>1. Idle \in SideRow /\ Idle.st = "off"
      BY RowTypes DEF Idle
    <2>2. side'[o][a].st = "off"
      BY <1>18, <2>1, SideEffect DEF CloseSidecar
    <2>3. QED
      BY <1>18, <2>2, GotoMoves DEF CloseSidecar, MainLabel, BeforeSend, BeforeRead
  <1>19. CASE ExitLane(o, a)
    <2>1. was.pc = "exit" /\ \E out \in {was.out, "raised"} : Done(o, a, out)
      BY <1>19 DEF ExitLane
    <2>2. QED
      BY <1>1, <2>1, DoneMoves DEF MainRow
  <1>20. CASE ExitWithoutLane(o, a)
    BY <1>1, <1>20, DoneMoves DEF ExitWithoutLane, MainRow
  <1>21. CASE HeartbeatLost(o, a)
    BY <1>21 DEF HeartbeatLost
  <1>22. CASE Commit(o, a)
    BY <1>22, <1>2, GotoMoves DEF Commit, MainLabel, BeforeSend, BeforeRead
  <1>23. CASE RunEnds(o, a) \/ Crash(o, a)
    <2>1. Step(o, a, Gone) /\ was.pc # "none"
      BY <1>23 DEF RunEnds, Crash, Alive
    <2>2. Gone \in MainRow /\ Gone.pc = "gone" /\ Gone.token = 0 /\ Gone.ord = 0
      BY RowTypes DEF Gone, NotStarted
    <2>3. MovesTo(o, a, Gone)
      BY <2>1, <2>2 DEF MovesTo, BeforeSend, BeforeRead
    <2>4. QED
      BY <2>2, <2>3 DEF MainMoves
  <1>24. QED
    BY <1>3, <1>4, <1>5, <1>6, <1>7, <1>8, <1>9, <1>10, <1>11, <1>12, <1>13, <1>14, <1>15,
       <1>16, <1>17, <1>18, <1>19, <1>20, <1>21, <1>22, <1>23 DEF MainStep

\* What a step of an attempt, its death, or the end of the process does to the
\* sidecar: nothing, another process, a command on its input, an answer taken.
Serves(o, a, s) ==
    /\ Put(o, a, s)
    /\ \/ s = side[o][a]
       \/ /\ s.gen = "none" /\ s.st \in {"off", "boot"}
          /\ main'[o][a].pc \in BeforeSend => s.ord = 0
          /\ s.ord # 0 => main[o][a].ord # 0
          /\ main'[o][a].pc = "exit" => s.st = "off"
       \/ /\ main[o][a].pc = "send" /\ main'[o][a].pc = "await"
          /\ s = [side[o][a] EXCEPT !.ord = main[o][a].ord]
          /\ main[o][a].ord # 0
       \/ /\ main'[o][a].pc = "ack"
          /\ s = [side[o][a] EXCEPT !.st = "idle", !.ord = 0]

SideServes(o, a) == \E s \in SideRow : Serves(o, a, s)

\* The sidecar process is ended, for whatever reason.
LEMMA EndServes ==
    ASSUME TypeOK, NEW o \in Operations, NEW a \in Attempts, Put(o, a, Idle)
    PROVE  SideServes(o, a)
  <1>1. Idle \in SideRow /\ Idle.st = "off" /\ Idle.gen = "none" /\ Idle.ord = 0
    BY RowTypes DEF Idle
  <1>2. QED
    BY <1>1 DEF SideServes, Serves

\* What every step of an attempt and every end of the process does to its sidecar is
\* one of the four things Serves lists (_exchange, close, the finally clause).
LEMMA StepsServe ==
    ASSUME TypeOK, OrdinalsAreMinted, NEW o \in Operations, NEW a \in Attempts,
           MainStep(o, a) \/ Crash(o, a) \/ SideExits(o, a)
    PROVE  SideServes(o, a) \/ UNCHANGED side
  <1> DEFINE was == side[o][a]
  <1>1. was \in SideRow /\ main[o][a] \in MainRow /\ op[o] \in OperationRow
    BY RowTypes
  <1>2. CASE ReadContext(o, a)
    <2>1. CASE UNCHANGED side
      BY <2>1
    <2>2. CASE ~UNCHANGED side
      <3> DEFINE s == [Idle EXCEPT !.st = "boot"]
      <3> DEFINE m == [main[o][a] EXCEPT !.pc = "accept", !.ord = op[o].ord, !.pend = Pending(o)]
      <3>1. Put(o, a, s) /\ Step(o, a, m)
        BY <1>2, <2>2 DEF ReadContext
      <3>2. s \in SideRow /\ s.gen = "none" /\ s.st = "boot" /\ s.ord = 0
        BY DEF Idle, SideRow, Age
      <3>3. Pending(o) \in BOOLEAN
        BY DEF Pending
      <3>4. m \in MainRow /\ m.pc = "accept"
        BY <1>1, <3>3 DEF MainRow, MainLabel, OperationRow
      <3> HIDE DEF m, s
      <3>5. main'[o][a].pc = "accept"
        BY <3>1, <3>4, MainEffect
      <3>6. QED
        BY <3>1, <3>2, <3>5 DEF SideServes, Serves
    <2>3. QED
      BY <2>1, <2>2
  <1>3. CASE Send(o, a)
    <2> DEFINE m == [main[o][a] EXCEPT !.pc = "await"]
    <2>1. main[o][a].pc = "send" /\ Step(o, a, m)
      BY <1>3 DEF Send, Goto
    <2>2. m \in MainRow /\ m.pc = "await"
      BY <1>1 DEF MainRow, MainLabel
    <2> HIDE DEF m
    <2>3. main'[o][a].pc = "await"
      BY <2>1, <2>2, MainEffect
    <2>4. main[o][a].ord # 0 /\ main[o][a].ord \in {0} \cup Ordinals
      BY <1>1, <2>1 DEF OrdinalsAreMinted, BeforeRead, MainRow
    <2>5. CASE was.st = "off"
      <3> DEFINE s == [Idle EXCEPT !.st = "boot", !.ord = main[o][a].ord]
      <3>1. Put(o, a, s)
        BY <1>3, <2>5 DEF Send
      <3>2. s \in SideRow /\ s.gen = "none" /\ s.st = "boot"
        BY <2>4 DEF Idle, SideRow, Age
      <3> HIDE DEF s
      <3>3. QED
        BY <2>3, <2>4, <3>1, <3>2 DEF SideServes, Serves, BeforeSend
    <2>6. CASE was.st # "off"
      <3> DEFINE s == [was EXCEPT !.ord = main[o][a].ord]
      <3>1. Put(o, a, s)
        BY <1>3, <2>6 DEF Send
      <3>2. s \in SideRow
        BY <1>1, <2>4 DEF SideRow
      <3>3. QED
        BY <2>1, <2>3, <2>4, <3>1, <3>2 DEF SideServes, Serves
    <2>7. QED
      BY <2>5, <2>6
  <1>4. CASE Receive(o, a)
    <2>0. PICK next \in {"observe", "query"} :
            Step(o, a, [main[o][a] EXCEPT !.pc = "ack", !.next = next])
      BY <1>4 DEF Receive
    <2> DEFINE m == [main[o][a] EXCEPT !.pc = "ack", !.next = next]
    <2>1. Step(o, a, m)
      BY <2>0
    <2>2. m \in MainRow /\ m.pc = "ack"
      BY <1>1 DEF MainRow, MainLabel
    <2> HIDE DEF m
    <2>3. main'[o][a].pc = "ack"
      BY <2>1, <2>2, MainEffect
    <2>4. Put(o, a, [was EXCEPT !.st = "idle", !.ord = 0])
      BY <1>4 DEF Receive
    <2>5. [was EXCEPT !.st = "idle", !.ord = 0] \in SideRow
      BY <1>1 DEF SideRow
    <2>6. QED
      BY <2>3, <2>4, <2>5 DEF SideServes, Serves
  <1>5. CASE Replay(o, a)
    <2> DEFINE s == [Idle EXCEPT !.st = "boot", !.replay = TRUE, !.ord = main[o][a].ord]
    <2> DEFINE m == [main[o][a] EXCEPT !.pc = "replaying"]
    <2>1. Put(o, a, s) /\ Step(o, a, m)
      BY <1>5 DEF Replay, Goto
    <2>2. s \in SideRow /\ s.gen = "none" /\ s.st = "boot"
      BY <1>1 DEF Idle, SideRow, Age, MainRow
    <2>3. m \in MainRow /\ m.pc = "replaying"
      BY <1>1 DEF MainRow, MainLabel
    <2> HIDE DEF s, m
    <2>4. main'[o][a].pc = "replaying"
      BY <2>1, <2>3, MainEffect
    <2>5. main[o][a].ord # 0
      BY <1>5 DEF Replay, OrdinalsAreMinted, BeforeRead
    <2>6. QED
      BY <2>1, <2>2, <2>4, <2>5 DEF SideServes, Serves, BeforeSend
  <1>6. CASE Crash(o, a)
    <2>1. Put(o, a, Idle) \/ Put(o, a, was)
      BY <1>6 DEF Crash
    <2>2. QED
      BY <1>1, <2>1, EndServes DEF SideServes, Serves
  <1>7. CASE ReplayEnds(o, a) \/ CloseSidecar(o, a) \/ HeartbeatLost(o, a) \/ SideExits(o, a)
    <2>1. Put(o, a, Idle)
      BY <1>7 DEF ReplayEnds, CloseSidecar, HeartbeatLost, SideExits
    <2>2. QED
      BY <2>1, EndServes
  <1>8. QED
    <2>1. ASSUME Begin(o, a) \/ AcquireLane(o, a) \/ LaneBusy(o, a) \/ Accept(o, a)
                 \/ Mint(o, a) \/ NoAnswer(o, a) \/ Query(o, a) \/ Ack(o, a)
                 \/ RecordUnknown(o, a) \/ Observe(o, a) \/ ExitLane(o, a)
                 \/ ExitWithoutLane(o, a) \/ Commit(o, a) \/ RunEnds(o, a)
          PROVE  UNCHANGED side
      BY <2>1 DEF Begin, AcquireLane, LaneBusy, Accept, Mint, NoAnswer, Query, Ack,
         RecordUnknown, Observe, ExitLane, ExitWithoutLane, Commit, RunEnds
    <2>2. QED
      BY <1>2, <1>3, <1>4, <1>5, <1>6, <1>7, <2>1 DEF MainStep

-----------------------------------------------------------------------------
(* The ledger's row.                                                       *)

\* One transaction authorizes the operation once more, or concludes it, or does
\* neither; none does both.
Advances(was, row) ==
    \/ row.ord = was.ord + 1 /\ was.concl = "none" /\ row.concl = "none"
    \/ /\ row.ord = was.ord /\ row.ord # 0
       /\ was.concl = "none" /\ row.concl # "none" /\ row.phase # "committed"
    \/ row.ord = was.ord /\ row.concl = was.concl

\* What every write of an operation's row respects: an ordinal is at most its
\* attempt, and a conclusion is final, settles the operation and, if it is a
\* result, is in the journal.
GoodRow(o, row) ==
    /\ row.ord <= row.by /\ (row.phase # "absent" <=> row.ord # 0)
    /\ Advances(op[o], row)
    /\ row.concl # "none" => row.posture = "no_retry"
    /\ row.phase \in {"absent", "accepted"} => row.concl = "none"
    /\ row.concl = "result" => JournalHolds(o)
    /\ row.phase \in {"observed", "committed"} => row.concl # "none"
    /\ RecordFits(row)
    /\ op[o].concl # "none" =>
           /\ row.concl = op[o].concl /\ row.ord = op[o].ord
           /\ op[o].phase = "committed" => row.phase = "committed"

Writes(o) == \E row \in OperationRow : Write(o, row) /\ GoodRow(o, row)

LedgerInv == TypeOK /\ OrdinalsAreMinted /\ ResultsAreJournaled /\ ConclusionsSettle

\* The executor's transactions keep the ledger good: record_owned_source_operation_
\* observation, the minting of an epoch, the commit of a checkpoint and the others.
LEMMA StepsWrite ==
    ASSUME LedgerInv, NEW o \in Operations, NEW a \in Attempts,
           MainStep(o, a) \/ Crash(o, a)
    PROVE  Writes(o) \/ UNCHANGED op
  <1> USE DEF LedgerInv
  <1> DEFINE was == op[o]
  <1>1. was \in OperationRow /\ main[o][a] \in MainRow
    BY RowTypes
  <1>2. /\ was.ord <= was.by /\ (was.phase # "absent" <=> was.ord # 0)
        /\ was.concl # "none" => was.posture = "no_retry"
        /\ was.phase \in {"absent", "accepted"} => was.concl = "none"
        /\ was.concl = "result" => JournalHolds(o)
        /\ was.phase \in {"observed", "committed"} => was.concl # "none"
        /\ RecordFits(was)
    BY DEF OrdinalsAreMinted, ConclusionsSettle, ResultsAreJournaled
  <1>3. was.by \in 0..MaxAttempts /\ was.ord \in 0..MaxAttempts /\ MaxAttempts \in Nat
    BY <1>1, MaxAttemptsPositive DEF OperationRow, Attempts, Ordinals
  <1>4. CASE Accept(o, a)
    <2>1. CASE UNCHANGED op
      BY <2>1
    <2>2. CASE ~UNCHANGED op
      <3> DEFINE row == [NoRow EXCEPT !.phase = "accepted", !.ord = 1, !.by = a]
      <3>1. Write(o, row) /\ was.phase = "absent"
        BY <1>4, <2>2 DEF Accept
      <3>2. /\ row \in OperationRow /\ row.phase = "accepted" /\ row.ord = 1 /\ row.by = a
            /\ row.concl = "none" /\ RecordFits(row)
        BY FirstOrdinal DEF RecordFits, Conclusive, NoRow, OperationRow, Evidence
      <3> HIDE DEF row
      <3>3. row.ord <= row.by
        BY <3>2 DEF Attempts
      <3>4. QED
        BY <1>2, <1>3, <3>1, <3>2, <3>3 DEF Writes, GoodRow, Advances
    <2>3. QED
      BY <2>1, <2>2
  <1>5. CASE Mint(o, a)
    <2>1. CASE UNCHANGED op
      BY <2>1
    <2>2. CASE ~UNCHANGED op
      <3> DEFINE row == [was EXCEPT !.posture = "no_retry", !.ord = was.ord + 1, !.by = a]
      <3>1. /\ Write(o, row)
            /\ was.phase = "reconciled" /\ was.posture = "safe_retry" /\ was.by < a
        BY <1>5, <2>2 DEF Mint
      <3>2. was.ord + 1 \in Ordinals /\ was.ord + 1 <= a
        BY <1>2, <1>3, <3>1 DEF Ordinals, Attempts
      <3>3. /\ row \in OperationRow /\ row.phase = "reconciled" /\ row.ord = was.ord + 1 /\ row.by = a
            /\ row.concl = was.concl /\ row.posture = "no_retry" /\ row.rec = was.rec
        BY <1>1, <3>1, <3>2 DEF OperationRow
      <3> HIDE DEF row
      <3>4. was.concl = "none"
        BY <1>2, <3>1
      <3>5. row.ord # 0
        BY <3>2, <3>3 DEF Ordinals
      <3>6. QED
        BY <1>2, <3>1, <3>2, <3>3, <3>4, <3>5 DEF Writes, GoodRow, Advances, RecordFits
    <2>3. QED
      BY <2>1, <2>2
  <1>6. CASE Ack(o, a)
    <2>1. CASE UNCHANGED op
      BY <2>1
    <2>2. CASE ~UNCHANGED op
      <3> DEFINE row == [was EXCEPT !.acked = was.acked \cup {main[o][a].ord}]
      <3>1. Write(o, row) /\ main[o][a].pc = "ack"
        BY <1>6, <2>2 DEF Ack
      <3>2. main[o][a].ord \in Ordinals
        BY <1>1, <3>1 DEF OrdinalsAreMinted, BeforeRead, MainRow
      <3>3. was.acked \cup {main[o][a].ord} \in SUBSET Ordinals
        BY <1>1, <3>2 DEF OperationRow
      <3>4. /\ row \in OperationRow /\ row.phase = was.phase /\ row.ord = was.ord
            /\ row.by = was.by /\ row.concl = was.concl /\ row.posture = was.posture
            /\ row.rec = was.rec
        BY <1>1, <3>3 DEF OperationRow
      <3>5. QED
        BY <1>2, <3>1, <3>4 DEF Writes, GoodRow, Advances, RecordFits
    <2>3. QED
      BY <2>1, <2>2
  <1>7. CASE RecordUnknown(o, a)
    <2>1. CASE UNCHANGED op
      BY <2>1
    <2>2. CASE ~UNCHANGED op
      <3>1. /\ Write(o, [was EXCEPT !.phase = "reconciled", !.posture = "reconcile_first",
                                    !.intent = main[o][a].saw = "intent", !.rec = "unresolved"])
            /\ was.phase = "accepted"
        BY <1>7, <2>2 DEF RecordUnknown
      <3>2. PICK seen \in BOOLEAN : seen = (main[o][a].saw = "intent")
        OBVIOUS
      <3> DEFINE row == [was EXCEPT !.phase = "reconciled", !.posture = "reconcile_first",
                                    !.intent = seen, !.rec = "unresolved"]
      <3>3. Write(o, row)
        BY <3>1, <3>2
      <3>4. /\ row \in OperationRow /\ row.phase = "reconciled" /\ row.ord = was.ord
            /\ row.by = was.by /\ row.concl = was.concl /\ RecordFits(row)
        BY <1>1 DEF OperationRow, Evidence, RecordFits, Conclusive
      <3> HIDE DEF row
      <3>5. QED
        BY <1>2, <3>1, <3>3, <3>4 DEF Writes, GoodRow, Advances
    <2>3. QED
      BY <2>1, <2>2
  <1>8. CASE Observe(o, a)
    <2>1. CASE UNCHANGED op
      BY <2>1
    <2>2. CASE ~UNCHANGED op
      <3> DEFINE row == [was EXCEPT !.phase = "observed", !.posture = "no_retry",
                                    !.intent = TRUE, !.concl = "result"]
      <3>1. /\ Write(o, row)
            /\ was.phase \in {"accepted", "reconciled"} /\ was.concl = "none"
            /\ main[o][a].pc = "observe"
        BY <1>8, <2>2 DEF Observe
      <3>2. JournalHolds(o)
        BY <3>1 DEF ResultsAreJournaled
      <3>3. /\ row \in OperationRow /\ row.phase = "observed" /\ row.ord = was.ord
            /\ row.by = was.by /\ row.concl = "result" /\ row.posture = "no_retry"
            /\ row.rec = was.rec
        BY <1>1 DEF OperationRow, Conclusive
      <3> HIDE DEF row
      <3>4. was.rec \notin Conclusive
        BY <1>2, <3>1 DEF RecordFits, Conclusive
      <3>5. QED
        BY <1>2, <3>1, <3>2, <3>3, <3>4 DEF Writes, GoodRow, Advances, RecordFits
    <2>3. QED
      BY <2>1, <2>2
  <1>9. CASE Commit(o, a)
    <2> DEFINE row == [was EXCEPT !.phase = "committed"]
    <2>1. Write(o, row) /\ was.concl # "none"
      BY <1>9 DEF Commit
    <2>2. /\ row \in OperationRow /\ row.phase = "committed" /\ row.ord = was.ord
          /\ row.by = was.by /\ row.concl = was.concl /\ row.posture = was.posture
          /\ row.rec = was.rec
      BY <1>1 DEF OperationRow
    <2>3. was.phase # "absent"
      BY <1>2, <2>1
    <2> HIDE DEF row
    <2>4. QED
      BY <1>2, <2>1, <2>2, <2>3 DEF Writes, GoodRow, Advances, RecordFits
  <1>10. QED
    <2>1. ASSUME Begin(o, a) \/ AcquireLane(o, a) \/ LaneBusy(o, a) \/ ReadContext(o, a)
                 \/ Send(o, a) \/ Receive(o, a) \/ NoAnswer(o, a) \/ Query(o, a)
                 \/ Replay(o, a) \/ ReplayEnds(o, a) \/ CloseSidecar(o, a) \/ ExitLane(o, a)
                 \/ ExitWithoutLane(o, a) \/ HeartbeatLost(o, a) \/ RunEnds(o, a) \/ Crash(o, a)
          PROVE  UNCHANGED op
      BY <2>1 DEF Begin, AcquireLane, LaneBusy, ReadContext, Send, Receive, NoAnswer, Query,
         Replay, ReplayEnds, CloseSidecar, ExitLane, ExitWithoutLane, HeartbeatLost, RunEnds,
         Crash, ledgerVars
    <2>2. QED
      BY <1>4, <1>5, <1>6, <1>7, <1>8, <1>9, <2>1 DEF MainStep

\* What the coordinator writes of an operation it may reconcile.
LEMMA ReconciledRow ==
    ASSUME NEW row \in OperationRow, row.ord \in Ordinals,
           NEW found \in Evidence \cup {"unavailable"}, TransitionAllowed(row, found),
           row.concl # "none" => row.posture = "no_retry"
    PROVE  /\ Reconciled(row, found) \in OperationRow
           /\ Reconciled(row, found).phase = "reconciled"
           /\ Reconciled(row, found).ord = row.ord
           /\ Reconciled(row, found).by = row.by
           /\ row.concl = "none"
           /\ Reconciled(row, found).concl = IF found \in Conclusive THEN found ELSE "none"
           /\ found \in Conclusive => Reconciled(row, found).posture = "no_retry"
           /\ RecordFits(Reconciled(row, found))
  <1>1. row.concl = "none"
    BY DEF TransitionAllowed
  <1>2. row.acked \cup {row.ord} \in SUBSET Ordinals
    BY DEF OperationRow
  <1>3. CASE found \in NoDispatchProved
    <2>1. Reconciled(row, found) = [row EXCEPT !.phase = "reconciled", !.posture = "safe_retry", !.rec = found]
      BY <1>3 DEF Reconciled, NoDispatchProved, Conclusive
    <2> DEFINE new == [row EXCEPT !.phase = "reconciled", !.posture = "safe_retry", !.rec = found]
    <2>2. /\ new \in OperationRow /\ new.phase = "reconciled" /\ new.ord = row.ord
          /\ new.by = row.by /\ new.concl = row.concl /\ RecordFits(new)
      BY <1>3 DEF OperationRow, Evidence, NoDispatchProved, RecordFits, Conclusive
    <2>3. Reconciled(row, found) = new
      BY <2>1
    <2> HIDE DEF new
    <2>4. QED
      BY <1>1, <1>3, <2>2, <2>3 DEF NoDispatchProved, Conclusive
  <1>4. CASE found \in Conclusive
    <2> DEFINE new == [row EXCEPT !.phase = "reconciled", !.posture = "no_retry",
                                  !.intent = TRUE, !.concl = found, !.rec = found,
                                  !.acked = row.acked \cup {row.ord}]
    <2>1. Reconciled(row, found) = new
      BY <1>4 DEF Reconciled, Conclusive, NoDispatchProved
    <2>2. /\ new \in OperationRow /\ new.phase = "reconciled" /\ new.ord = row.ord
          /\ new.by = row.by /\ new.concl = found /\ new.posture = "no_retry"
          /\ RecordFits(new)
      BY <1>2, <1>4 DEF OperationRow, Evidence, Conclusive, RecordFits
    <2> HIDE DEF new
    <2>3. QED
      BY <1>1, <1>4, <2>1, <2>2
  <1>5. CASE found = "unresolved"
    <2> DEFINE new == [row EXCEPT !.phase = "reconciled", !.posture = "reconcile_first",
                                  !.intent = TRUE, !.rec = "unresolved",
                                  !.acked = row.acked \cup {row.ord}]
    <2>1. Reconciled(row, found) = new
      BY <1>5 DEF Reconciled, Conclusive, NoDispatchProved
    <2>2. /\ new \in OperationRow /\ new.phase = "reconciled" /\ new.ord = row.ord
          /\ new.by = row.by /\ new.concl = row.concl /\ RecordFits(new)
      BY <1>2, <1>5 DEF OperationRow, Evidence, RecordFits, Conclusive
    <2> HIDE DEF new
    <2>3. QED
      BY <1>1, <1>5, <2>1, <2>2 DEF Conclusive
  <1>6. CASE found \notin NoDispatchProved \cup Conclusive \cup {"unresolved"}
    <2> DEFINE new == [row EXCEPT !.phase = "reconciled", !.posture = "reconcile_first",
                                  !.rec = "unresolved"]
    <2>1. Reconciled(row, found) = new
      BY <1>6 DEF Reconciled
    <2>2. /\ new \in OperationRow /\ new.phase = "reconciled" /\ new.ord = row.ord
          /\ new.by = row.by /\ new.concl = row.concl /\ RecordFits(new)
      BY DEF OperationRow, Evidence, RecordFits, Conclusive
    <2> HIDE DEF new
    <2>3. QED
      BY <1>1, <1>6, <2>1, <2>2
  <1>7. QED
    BY <1>3, <1>4, <1>5, <1>6

\* So does commit_no_owner_source_reconciliation.
LEMMA CoordinatorWrites ==
    ASSUME LedgerInv, NEW o \in Operations, CommitReconciliation(o)
    PROVE  Writes(o) \/ UNCHANGED op
  <1> USE DEF LedgerInv
  <1>1. CASE UNCHANGED op
    BY <1>1
  <1>2. CASE ~UNCHANGED op
    <2> DEFINE row == Reconciled(op[o], co.found)
    <2>1. /\ Write(o, row)
          /\ co.pc = "looked" /\ co.op = o /\ op[o] = co.seen
          /\ TransitionAllowed(op[o], co.found)
      BY <1>2 DEF CommitReconciliation
    <2>2. op[o] \in OperationRow /\ co.found \in Evidence \cup {"unavailable"}
      BY RowTypes DEF TypeOK, LookRow
    <2>3. op[o].ord \in Ordinals
      BY <2>1, <2>2 DEF OrdinalsAreMinted, OperationRow
    <2>4. op[o].concl # "none" => op[o].posture = "no_retry"
      BY DEF ConclusionsSettle
    <2>5. /\ row \in OperationRow /\ row.phase = "reconciled"
          /\ row.ord = op[o].ord /\ row.by = op[o].by /\ op[o].concl = "none"
          /\ row.concl = IF co.found \in Conclusive THEN co.found ELSE "none"
          /\ co.found \in Conclusive => row.posture = "no_retry"
          /\ RecordFits(row)
      BY <2>1, <2>2, <2>3, <2>4, ReconciledRow
    <2>6. op[o].ord <= op[o].by
      BY DEF OrdinalsAreMinted
    <2>7. row.concl = "result" => JournalHolds(o)
      BY <2>1, <2>5 DEF ResultsAreJournaled
    <2> HIDE DEF row
    <2>8. row.ord # 0
      BY <2>3, <2>5 DEF Ordinals
    <2>9. GoodRow(o, row)
      BY <2>5, <2>6, <2>7, <2>8 DEF GoodRow, Advances
    <2>10. QED
      BY <2>1, <2>5, <2>9 DEF Writes
  <1>3. QED
    BY <1>1, <1>2

-----------------------------------------------------------------------------
(* The journal.                                                            *)

\* Everything but the row that moves stays; nobody returns to before it wrote
\* to its sidecar.
LEMMA Forward ==
    ASSUME TypeOK, NEW o \in Operations, NEW a \in Attempts,
           MainMoves(o, a) \/ UNCHANGED main
    PROVE  \A p \in Operations, b \in Attempts :
               /\ main'[p][b].pc \in BeforeSend => main[p][b].pc \in BeforeSend
               /\ main[p][b].pc = "none" => main'[p][b].pc = "none"
  <1>1. CASE UNCHANGED main
    BY <1>1
  <1>2. CASE MainMoves(o, a)
    <2>1. PICK m \in MainRow : MovesTo(o, a, m)
      BY <1>2 DEF MainMoves
    <2>2. /\ main'[o][a] = m
          /\ \A p \in Operations, b \in Attempts : p # o \/ b # a => main'[p][b] = main[p][b]
      BY <2>1, MainEffect DEF MovesTo
    <2>3. main[o][a].pc # "none" /\ (m.pc \in BeforeSend => main[o][a].pc \in BeforeSend)
      BY <2>1 DEF MovesTo
    <2>4. QED
      BY <2>2, <2>3
  <1>3. QED
    BY <1>1, <1>2

\* A sidecar as another step leaves it, in the words the invariant speaks of.
SideBecomes(o, a, s) ==
    /\ side'[o][a] = s
    /\ \A p \in Operations, b \in Attempts : p # o \/ b # a => side'[p][b] = side[p][b]

\* Steps that leave the journal alone keep what it promises.
LEMMA ServeJournal ==
    ASSUME TypeOK, JournalInv, NEW o \in Operations, NEW a \in Attempts,
           SideServes(o, a) \/ UNCHANGED side,
           MainMoves(o, a) \/ UNCHANGED main,
           UNCHANGED <<head, att>>
    PROVE  JournalInv'
  <1>1. \A p \in Operations, b \in Attempts :
            /\ main'[p][b].pc \in BeforeSend => main[p][b].pc \in BeforeSend
            /\ main[p][b].pc = "none" => main'[p][b].pc = "none"
    BY Forward
  <1>2. FutureAttempts' /\ HeadsHaveSessions' /\ SupersededIsUndispatched'
    BY <1>1 DEF JournalInv, FutureAttempts, HeadsHaveSessions, SupersededIsUndispatched
  <1>3. side[o][a] \in SideRow
    BY RowTypes
  <1>4. CASE UNCHANGED side
    BY <1>1, <1>2, <1>4
    DEF JournalInv, SidecarsWait, OneNewestSession, OneHeadPerSession
  <1>5. CASE SideServes(o, a)
    <2>1. PICK s \in SideRow : Serves(o, a, s)
      BY <1>5 DEF SideServes
    <2>2. SideBecomes(o, a, s)
      BY <2>1, SideEffect DEF Serves, SideBecomes
    <2>3. CASE s = side[o][a]
      BY <1>1, <1>2, <2>2, <2>3
      DEF JournalInv, SidecarsWait, OneNewestSession, OneHeadPerSession, SideBecomes
    <2>4. CASE s.gen = "none" /\ s.st \in {"off", "boot"} /\ (main'[o][a].pc \in BeforeSend => s.ord = 0)
      <3>1. SidecarsWait'
        BY <1>1, <2>2, <2>4 DEF JournalInv, SidecarsWait, SideBecomes
      <3>2. OneNewestSession'
        BY <2>2, <2>4 DEF JournalInv, OneNewestSession, SideBecomes
      <3>3. OneHeadPerSession'
        BY <1>1, <2>2, <2>4 DEF JournalInv, OneHeadPerSession, SideBecomes
      <3>4. QED
        BY <1>2, <3>1, <3>2, <3>3 DEF JournalInv
    <2>5. CASE /\ main[o][a].pc = "send" /\ main'[o][a].pc = "await"
               /\ s = [side[o][a] EXCEPT !.ord = main[o][a].ord]
               /\ main[o][a].ord # 0
      <3>1. s.st = side[o][a].st /\ s.gen = side[o][a].gen /\ s.ord # 0
        BY <1>3, <2>5 DEF SideRow
      <3>2. side[o][a].ord = 0 /\ side[o][a].st \in {"off", "boot", "idle"}
        BY <2>5 DEF JournalInv, SidecarsWait, BeforeSend
      <3>3. SidecarsWait'
        <4>1. main'[o][a].pc \notin BeforeSend
          BY <2>5 DEF BeforeSend
        <4>2. QED
          BY <1>1, <2>2, <3>1, <3>2, <4>1 DEF JournalInv, SidecarsWait, SideBecomes
      <3>4. OneNewestSession'
        BY <2>2, <3>1 DEF JournalInv, OneNewestSession, SideBecomes
      <3>5. \A p \in Operations, n \in Ordinals : s.gen = "newest" => head[p][n].gen # "newest"
        BY <2>5, <3>1, <3>2 DEF JournalInv, OneHeadPerSession, BeforeSend, SidecarsWait
      <3>6. OneHeadPerSession'
        BY <1>1, <2>2, <3>5 DEF JournalInv, OneHeadPerSession, SideBecomes
      <3>7. QED
        BY <1>2, <3>3, <3>4, <3>6 DEF JournalInv
    <2>6. CASE /\ main'[o][a].pc = "ack"
               /\ s = [side[o][a] EXCEPT !.st = "idle", !.ord = 0]
      <3>1. s.st = "idle" /\ s.gen = side[o][a].gen /\ s.ord = 0
        BY <1>3, <2>6 DEF SideRow
      <3>2. SidecarsWait'
        BY <1>1, <2>2, <3>1 DEF JournalInv, SidecarsWait, SideBecomes
      <3>3. OneNewestSession'
        BY <2>2, <3>1 DEF JournalInv, OneNewestSession, SideBecomes
      <3>4. OneHeadPerSession'
        <4>1. main'[o][a].pc \notin BeforeSend
          BY <2>6 DEF BeforeSend
        <4>2. QED
          BY <1>1, <2>2, <3>1, <4>1 DEF JournalInv, OneHeadPerSession, SideBecomes
      <3>5. QED
        BY <1>2, <3>2, <3>3, <3>4 DEF JournalInv
    <2>7. QED
      BY <2>1, <2>3, <2>4, <2>5, <2>6 DEF Serves
  <1>6. QED
    BY <1>4, <1>5

\* A sidecar that changes its own state, and at most its own head.
LEMMA SideAtBecomes ==
    ASSUME TypeOK, NEW o \in Operations, NEW a \in Attempts,
           NEW l \in {"idle", "accepted", "acked", "intent", "effected", "result", "reconcile"},
           SideAt(o, a, l)
    PROVE  /\ side' \in [Operations -> [Attempts -> SideRow]]
           /\ side'[o][a].st = l /\ side'[o][a].gen = side[o][a].gen
           /\ side'[o][a].ord = side[o][a].ord
           /\ \A p \in Operations, b \in Attempts : p # o \/ b # a => side'[p][b] = side[p][b]
  <1> DEFINE s == [side[o][a] EXCEPT !.st = l]
  <1>1. side[o][a] \in SideRow
    BY RowTypes
  <1>2. /\ s \in SideRow /\ s.st = l /\ s.gen = side[o][a].gen /\ s.ord = side[o][a].ord
    BY <1>1 DEF SideRow
  <1>3. Put(o, a, s)
    BY DEF SideAt
  <1> HIDE DEF s
  <1>4. QED
    BY <1>2, <1>3, SideEffect

\* One head changes.
LEMMA HeadEffect ==
    ASSUME TypeOK, NEW o \in Operations, NEW n \in Ordinals, NEW h \in HeadRow, Record(o, n, h)
    PROVE  /\ head' \in [Operations -> [Ordinals -> HeadRow]]
           /\ head'[o][n] = h
           /\ \A p \in Operations, k \in Ordinals : p # o \/ k # n => head'[p][k] = head[p][k]
  BY DEF TypeOK, Record

\* A head moves on and keeps its session.
LEMMA HeadPhase ==
    ASSUME TypeOK, NEW o \in Operations, NEW n \in Ordinals,
           NEW l \in {"intent", "observed"}, Record(o, n, [head[o][n] EXCEPT !.phase = l])
    PROVE  /\ head' \in [Operations -> [Ordinals -> HeadRow]]
           /\ head'[o][n].phase = l /\ head'[o][n].gen = head[o][n].gen
           /\ \A p \in Operations, k \in Ordinals : p # o \/ k # n => head'[p][k] = head[p][k]
  <1> DEFINE h == [head[o][n] EXCEPT !.phase = l]
  <1>1. head[o][n] \in HeadRow
    BY RowTypes
  <1>2. h \in HeadRow /\ h.phase = l /\ h.gen = head[o][n].gen
    BY <1>1 DEF HeadRow
  <1>3. Record(o, n, h)
    OBVIOUS
  <1> HIDE DEF h
  <1>4. QED
    BY <1>2, <1>3, HeadEffect

\* A new session: every other one, and every head, is older.
LEMMA GenerationEffect ==
    ASSUME TypeOK, NEW o \in Operations, NEW a \in Attempts, StartGeneration(o, a)
    PROVE  /\ side' \in [Operations -> [Attempts -> SideRow]]
           /\ head' \in [Operations -> [Ordinals -> HeadRow]]
           /\ side'[o][a].st = "idle" /\ side'[o][a].gen = "newest"
           /\ side'[o][a].ord = side[o][a].ord
           /\ \A p \in Operations, b \in Attempts : p # o \/ b # a =>
                  /\ side'[p][b].st = side[p][b].st /\ side'[p][b].ord = side[p][b].ord
                  /\ side'[p][b].gen = IF side[p][b].gen = "none" THEN "none" ELSE "old"
           /\ \A p \in Operations, n \in Ordinals :
                  /\ head'[p][n].phase = head[p][n].phase
                  /\ head'[p][n].gen = IF head[p][n].gen = "none" THEN "none" ELSE "old"
  <1>1. ASSUME NEW p \in Operations, NEW b \in Attempts
        PROVE  LET s == side'[p][b] IN
               /\ s \in SideRow
               /\ s.ord = side[p][b].ord
               /\ p = o /\ b = a => s.st = "idle" /\ s.gen = "newest"
               /\ ~(p = o /\ b = a) => /\ s.st = side[p][b].st
                                       /\ s.gen = IF side[p][b].gen = "none" THEN "none" ELSE "old"
    <2>1. side[p][b] \in SideRow
      BY RowTypes
    <2>2. CASE p = o /\ b = a
      <3>1. side'[p][b] = [side[p][b] EXCEPT !.st = "idle", !.gen = "newest"]
        BY <2>2 DEF StartGeneration
      <3>2. QED
        BY <2>1, <2>2, <3>1 DEF SideRow, Age
    <2>3. CASE ~(p = o /\ b = a)
      <3>1. PICK g \in Age : g = IF side[p][b].gen = "none" THEN "none" ELSE "old"
        BY DEF Age
      <3>2. side'[p][b] = [side[p][b] EXCEPT !.gen = g]
        BY <2>3, <3>1 DEF StartGeneration
      <3>3. QED
        BY <2>1, <2>3, <3>1, <3>2 DEF SideRow
    <2>4. QED
      BY <2>2, <2>3
  <1>2. ASSUME NEW p \in Operations, NEW n \in Ordinals
        PROVE  LET h == head'[p][n] IN
               /\ h \in HeadRow
               /\ h.phase = head[p][n].phase
               /\ h.gen = IF head[p][n].gen = "none" THEN "none" ELSE "old"
    <2>1. head[p][n] \in HeadRow
      BY RowTypes
    <2>2. PICK g \in Age : g = IF head[p][n].gen = "none" THEN "none" ELSE "old"
      BY DEF Age
    <2>3. head'[p][n] = [head[p][n] EXCEPT !.gen = g]
      BY <2>2 DEF StartGeneration
    <2>4. QED
      BY <2>1, <2>2, <2>3 DEF HeadRow
  <1>3. side' = [p \in Operations |-> [b \in Attempts |-> side'[p][b]]]
    BY DEF StartGeneration
  <1>4. head' = [p \in Operations |-> [n \in Ordinals |-> head'[p][n]]]
    BY DEF StartGeneration
  <1>5. side' \in [Operations -> [Attempts -> SideRow]]
    BY <1>1, <1>3
  <1>6. head' \in [Operations -> [Ordinals -> HeadRow]]
    BY <1>2, <1>4
  <1>7. QED
    BY <1>1, <1>2, <1>5, <1>6

\* The steps of the sidecars keep what the journal promises.
LEMMA SideJournal ==
    ASSUME TypeOK, JournalInv, NEW o \in Operations, NEW a \in Attempts, SideStep(o, a)
    PROVE  JournalInv'
  <1> DEFINE n == side[o][a].ord
  <1>1. side[o][a] \in SideRow
    BY RowTypes
  <1>2. n # 0 => n \in Ordinals
    BY <1>1 DEF SideRow
  <1>3. UNCHANGED <<main, att>>
    BY DEF SideStep, StartGeneration, AcceptCommand, ReplayCommand, SendAck, RecordIntent,
       PerformEffect, RecordObservation, ledgerVars
  <1>4. FutureAttempts'
    BY <1>3 DEF JournalInv, FutureAttempts
  <1>5. CASE StartGeneration(o, a)
    <2>1. side[o][a].st = "boot"
      BY <1>5 DEF StartGeneration
    <2>0. \A p \in Operations, k \in Ordinals :
              /\ head'[p][k].phase = head[p][k].phase
              /\ head'[p][k].gen = "none" => head[p][k].gen = "none"
      BY <1>5, GenerationEffect
    <2>2. SidecarsWait'
      BY <1>3, <1>5, GenerationEffect DEF JournalInv, SidecarsWait
    <2>3. HeadsHaveSessions'
      BY <2>0 DEF JournalInv, HeadsHaveSessions
    <2>4. OneNewestSession'
      BY <1>5, GenerationEffect DEF OneNewestSession
    <2>5. OneHeadPerSession'
      BY <1>5, GenerationEffect DEF OneHeadPerSession
    <2>6. SupersededIsUndispatched'
      <3> SUFFICES ASSUME NEW p \in Operations, NEW i \in Ordinals, NEW k \in Ordinals,
                          i < k, head'[p][k].phase # "none"
                   PROVE  head'[p][i] = [phase |-> "accepted", gen |-> "old"]
        BY DEF SupersededIsUndispatched
      <3>1. head[p][i] = [phase |-> "accepted", gen |-> "old"]
        BY <2>0 DEF JournalInv, SupersededIsUndispatched
      <3>2. head'[p][i].phase = "accepted" /\ head'[p][i].gen = "old"
        BY <1>5, <3>1, GenerationEffect
      <3>3. head'[p][i] \in HeadRow
        BY <1>5, GenerationEffect
      <3>4. QED
        BY <3>2, <3>3 DEF HeadRow
    <2>7. QED
      BY <1>4, <2>2, <2>3, <2>4, <2>5, <2>6 DEF JournalInv
  <1>6. CASE AcceptCommand(o, a)
    <2> DEFINE h == [phase |-> "accepted", gen |-> "newest"]
    <2>1. /\ side[o][a].st = "idle" /\ n # 0 /\ side[o][a].gen = "newest"
          /\ head[o][n].phase = "none" /\ PredecessorAllows(o, n)
          /\ Record(o, n, h)
          /\ \E l \in {"reconcile", "accepted"} : SideAt(o, a, l)
      BY <1>6 DEF AcceptCommand, Newest
    <2>2. n \in Ordinals
      BY <1>2, <2>1
    <2>3. h \in HeadRow /\ h.phase = "accepted" /\ h.gen = "newest"
      BY DEF HeadRow, Age
    <2> HIDE DEF h
    <2>4. /\ head'[o][n] = h
          /\ \A p \in Operations, k \in Ordinals : p # o \/ k # n => head'[p][k] = head[p][k]
      BY <2>1, <2>2, <2>3, HeadEffect
    <2>5. /\ side'[o][a].st \in {"reconcile", "accepted"}
          /\ side'[o][a].gen = "newest" /\ side'[o][a].ord = n
          /\ \A p \in Operations, b \in Attempts : p # o \/ b # a => side'[p][b] = side[p][b]
      BY <2>1, SideAtBecomes
    <2>6. \A p \in Operations, k \in Ordinals : head[p][k].gen # "newest"
      BY <2>1 DEF JournalInv, OneHeadPerSession
    <2>7. SidecarsWait' /\ OneNewestSession'
      BY <1>3, <2>1, <2>5 DEF JournalInv, SidecarsWait, OneNewestSession
    <2>8. HeadsHaveSessions'
      BY <2>3, <2>4 DEF JournalInv, HeadsHaveSessions
    <2>9. OneHeadPerSession'
      <3> SUFFICES ASSUME NEW p \in Operations, NEW q \in Operations, NEW b \in Attempts,
                          NEW k \in Ordinals,
                          side'[p][b].gen = "newest", head'[q][k].gen = "newest"
                   PROVE  q = p /\ k = side'[p][b].ord /\ side'[p][b].st \notin {"boot", "idle"}
        BY DEF OneHeadPerSession
      <3>1. q = o /\ k = n
        BY <2>4, <2>6
      <3>2. p = o /\ b = a
        BY <2>1, <2>5, <2>7 DEF OneNewestSession
      <3>3. QED
        BY <2>5, <3>1, <3>2
    <2>10. SupersededIsUndispatched'
      <3> SUFFICES ASSUME NEW p \in Operations, NEW i \in Ordinals, NEW k \in Ordinals,
                          i < k, head'[p][k].phase # "none"
                   PROVE  head'[p][i] = [phase |-> "accepted", gen |-> "old"]
        BY DEF SupersededIsUndispatched
      <3>1. CASE p # o
        BY <2>4, <3>1 DEF JournalInv, SupersededIsUndispatched
      <3>2. CASE p = o /\ k # n
        <4>1. head[o][k].phase # "none"
          BY <2>4, <3>2
        <4>2. head[o][i] = [phase |-> "accepted", gen |-> "old"]
          BY <3>2, <4>1 DEF JournalInv, SupersededIsUndispatched
        <4>3. i # n
          BY <2>1, <4>2
        <4>4. QED
          BY <2>4, <3>2, <4>2, <4>3
      <3>3. CASE p = o /\ k = n
        <4>1. n > 1 /\ n - 1 \in Ordinals /\ i <= n - 1 /\ i # n
          BY <2>2, <3>3, MaxAttemptsPositive DEF Ordinals
        <4>2. head[o][n - 1].phase = "accepted"
          BY <2>1, <4>1 DEF PredecessorAllows
        <4>3. head[o][n - 1] \in HeadRow
          BY <4>1, RowTypes
        <4>4. head[o][n - 1].gen = "old"
          BY <2>6, <4>1, <4>2, <4>3 DEF JournalInv, HeadsHaveSessions, HeadRow, Age
        <4>5. head[o][n - 1] = [phase |-> "accepted", gen |-> "old"]
          BY <4>2, <4>3, <4>4 DEF HeadRow
        <4>6. head[o][i] = [phase |-> "accepted", gen |-> "old"]
          BY <4>1, <4>2, <4>5 DEF JournalInv, SupersededIsUndispatched, Ordinals
        <4>7. QED
          BY <2>4, <3>3, <4>1, <4>6
      <3>4. QED
        BY <3>1, <3>2, <3>3
    <2>11. QED
      BY <1>4, <2>7, <2>8, <2>9, <2>10 DEF JournalInv
  <1>7. CASE ReplayCommand(o, a) \/ SendAck(o, a) \/ PerformEffect(o, a)
    <2>1. /\ UNCHANGED head
          /\ \E l \in {"result", "reconcile", "acked", "effected"} : SideAt(o, a, l)
      BY <1>7 DEF ReplayCommand, SendAck, PerformEffect, journalVars
    <2>2. side[o][a].ord # 0 /\ (side[o][a].st = "idle" => head[o][n].phase # "none")
      BY <1>7 DEF ReplayCommand, SendAck, PerformEffect, JournalInv, SidecarsWait
    <2>3. /\ side'[o][a].st \in {"result", "reconcile", "acked", "effected"}
          /\ side'[o][a].gen = side[o][a].gen /\ side'[o][a].ord = n
          /\ \A p \in Operations, b \in Attempts : p # o \/ b # a => side'[p][b] = side[p][b]
      BY <2>1, SideAtBecomes
    <2>4. SidecarsWait' /\ OneNewestSession'
      BY <1>3, <2>2, <2>3 DEF JournalInv, SidecarsWait, OneNewestSession
    <2>5. HeadsHaveSessions' /\ SupersededIsUndispatched'
      BY <2>1 DEF JournalInv, HeadsHaveSessions, SupersededIsUndispatched
    <2>6. OneHeadPerSession'
      BY <1>3, <2>1, <2>2, <2>3 DEF JournalInv, OneHeadPerSession
    <2>7. QED
      BY <1>4, <2>4, <2>5, <2>6 DEF JournalInv
  <1>8. CASE RecordIntent(o, a) \/ RecordObservation(o, a)
    <2>1. /\ side[o][a].gen = "newest"
          /\ head[o][n].gen = "newest" /\ head[o][n].phase \in {"accepted", "intent"}
          /\ side[o][a].st \in {"acked", "effected"}
      BY <1>8 DEF RecordIntent, RecordObservation, Newest, HeadIs
    <2>2. n \in Ordinals
      BY <1>2, <2>1 DEF JournalInv, SidecarsWait
    <2>3. PICK l \in {"intent", "observed"} : Record(o, n, [head[o][n] EXCEPT !.phase = l])
      BY <1>8 DEF RecordIntent, RecordObservation
    <2>4. /\ head'[o][n].phase \in {"intent", "observed"} /\ head'[o][n].gen = "newest"
          /\ \A p \in Operations, k \in Ordinals : p # o \/ k # n => head'[p][k] = head[p][k]
      <3> HIDE DEF n
      <3>1. /\ head'[o][n].phase = l /\ head'[o][n].gen = head[o][n].gen
            /\ \A p \in Operations, k \in Ordinals : p # o \/ k # n => head'[p][k] = head[p][k]
        BY <2>2, <2>3, HeadPhase
      <3>2. QED
        BY <2>1, <3>1
    <2>5. Idle \in SideRow /\ Idle.st = "off" /\ Idle.gen = "none" /\ Idle.ord = 0
      BY RowTypes DEF Idle
    <2>6. Put(o, a, Idle) \/ \E st \in {"intent", "result"} : SideAt(o, a, st)
      BY <1>8 DEF RecordIntent, RecordObservation
    <2>7. /\ \/ side'[o][a] = Idle
             \/ /\ side'[o][a].st \in {"intent", "result"} /\ side'[o][a].gen = "newest"
                /\ side'[o][a].ord = n
          /\ \A p \in Operations, b \in Attempts : p # o \/ b # a => side'[p][b] = side[p][b]
      BY <2>1, <2>5, <2>6, SideAtBecomes, SideEffect
    <2>8. SidecarsWait' /\ OneNewestSession'
      BY <1>3, <2>1, <2>2, <2>5, <2>7 DEF JournalInv, SidecarsWait, OneNewestSession, Ordinals
    <2>9. HeadsHaveSessions'
      BY <2>4 DEF JournalInv, HeadsHaveSessions
    <2>10. OneHeadPerSession'
      BY <1>3, <2>1, <2>2, <2>4, <2>5, <2>7 DEF JournalInv, OneHeadPerSession, Ordinals
    <2>11. SupersededIsUndispatched'
      <3> SUFFICES ASSUME NEW p \in Operations, NEW i \in Ordinals, NEW k \in Ordinals,
                          i < k, head'[p][k].phase # "none"
                   PROVE  head'[p][i] = [phase |-> "accepted", gen |-> "old"]
        BY DEF SupersededIsUndispatched
      <3>1. head[p][k].phase # "none"
        BY <2>1, <2>4
      <3>2. head[p][i] = [phase |-> "accepted", gen |-> "old"]
        BY <3>1 DEF JournalInv, SupersededIsUndispatched
      <3>3. p # o \/ i # n
        BY <2>1, <3>2
      <3>4. QED
        BY <2>4, <3>2, <3>3
    <2>12. QED
      BY <1>4, <2>8, <2>9, <2>10, <2>11 DEF JournalInv
  <1>9. QED
    BY <1>5, <1>6, <1>7, <1>8 DEF SideStep

-----------------------------------------------------------------------------
(* Effects.                                                                *)

\* A sidecar at work is only ever ended from outside.
LEMMA ServeAtWork ==
    ASSUME TypeOK, JournalInv, NEW o \in Operations, NEW a \in Attempts,
           SideServes(o, a) \/ UNCHANGED side
    PROVE  \A p \in Operations, b \in Attempts :
               side'[p][b].st \in {"intent", "effected", "result"} => side'[p][b] = side[p][b]
  <1>1. side[o][a] \in SideRow
    BY RowTypes
  <1>2. CASE UNCHANGED side
    BY <1>2
  <1>3. CASE SideServes(o, a)
    <2>1. PICK s \in SideRow : Serves(o, a, s)
      BY <1>3 DEF SideServes
    <2>2. /\ side'[o][a] = s
          /\ \A p \in Operations, b \in Attempts : p # o \/ b # a => side'[p][b] = side[p][b]
      BY <2>1, SideEffect DEF Serves
    <2>3. s = side[o][a] \/ s.st \in {"off", "boot", "idle"}
      <3>1. CASE /\ main[o][a].pc = "send"
                 /\ s = [side[o][a] EXCEPT !.ord = main[o][a].ord]
        <4>1. side[o][a].ord = 0
          BY <3>1 DEF JournalInv, SidecarsWait, BeforeSend
        <4>2. side[o][a].st \in {"off", "boot", "idle"}
          BY <4>1 DEF JournalInv, SidecarsWait
        <4>3. s.st = side[o][a].st
          BY <1>1, <3>1 DEF SideRow
        <4>4. QED
          BY <4>2, <4>3
      <3>2. CASE s = [side[o][a] EXCEPT !.st = "idle", !.ord = 0]
        BY <1>1, <3>2 DEF SideRow
      <3>3. QED
        BY <2>1, <3>1, <3>2 DEF Serves
    <2>4. QED
      BY <2>2, <2>3
  <1>4. QED
    BY <1>2, <1>3

\* No effect comes from a step that leaves the journal alone.
LEMMA ServeEffects ==
    ASSUME TypeOK, JournalInv, EffectsAreIntended, NEW o \in Operations, NEW a \in Attempts,
           SideServes(o, a) \/ UNCHANGED side, UNCHANGED <<head, effects>>
    PROVE  EffectsAreIntended'
  BY ServeAtWork DEF EffectsAreIntended

\* Of a head that is to be dispatched, no other head of the operation has been.
LEMMA SoleIntent ==
    ASSUME TypeOK, JournalInv, EffectsAreIntended, NEW o \in Operations, NEW n \in Ordinals,
           head[o][n].phase = "accepted", head[o][n].gen = "newest"
    PROVE  /\ \A k \in Ordinals : head[o][k].phase \notin {"intent", "observed"}
           /\ effects[o] = 0
           /\ \A b \in Attempts : side[o][b].st \notin {"intent", "effected"}
  <1>1. ASSUME NEW k \in Ordinals, head[o][k].phase \in {"intent", "observed"}
        PROVE  FALSE
    <2>1. k # n
      BY <1>1
    <2>2. CASE k < n
      <3>1. head[o][k] = [phase |-> "accepted", gen |-> "old"]
        BY <2>2 DEF JournalInv, SupersededIsUndispatched
      <3>2. QED
        BY <1>1, <3>1
    <2>3. CASE n < k
      <3>1. head[o][n] = [phase |-> "accepted", gen |-> "old"]
        BY <1>1, <2>3 DEF JournalInv, SupersededIsUndispatched
      <3>2. QED
        BY <3>1
    <2>4. QED
      BY <2>1, <2>2, <2>3, MaxAttemptsPositive DEF Ordinals
  <1>2. effects[o] = 0
    BY <1>1 DEF EffectsAreIntended
  <1>3. ASSUME NEW b \in Attempts, side[o][b].st = "intent"
        PROVE  FALSE
    <2>1. side[o][b].ord # 0 /\ side[o][b] \in SideRow
      BY <1>3, RowTypes DEF JournalInv, SidecarsWait
    <2>2. side[o][b].ord \in Ordinals
      BY <2>1 DEF SideRow
    <2>3. head[o][side[o][b].ord].phase = "intent"
      BY <1>3 DEF EffectsAreIntended
    <2>4. QED
      BY <1>1, <2>2, <2>3
  <1>4. ASSUME NEW b \in Attempts, side[o][b].st = "effected"
        PROVE  FALSE
    BY <1>2, <1>4 DEF EffectsAreIntended
  <1>5. QED
    BY <1>1, <1>2, <1>3, <1>4

\* Every step of a sidecar keeps its effect behind the one intent of its operation
\* (record_dispatch_intent, _execute_cards, _record_terminal_observation).
LEMMA SideEffects ==
    ASSUME TypeOK, JournalInv, EffectsAreIntended, NEW o \in Operations, NEW a \in Attempts,
           SideStep(o, a)
    PROVE  EffectsAreIntended'
  <1> DEFINE n == side[o][a].ord
  <1>1. side[o][a] \in SideRow
    BY RowTypes
  <1>2. n # 0 => n \in Ordinals
    BY <1>1 DEF SideRow
  <1>3. CASE StartGeneration(o, a)
    <2>1. UNCHANGED effects
      BY <1>3 DEF StartGeneration
    <2>2. \A p \in Operations, k \in Ordinals : head'[p][k].phase = head[p][k].phase
      BY <1>3, GenerationEffect
    <2>3. \A p \in Operations, b \in Attempts :
              side'[p][b].st \in {"intent", "effected"} =>
                  side'[p][b].st = side[p][b].st /\ side'[p][b].ord = side[p][b].ord
      BY <1>3, GenerationEffect
    <2>4. \A p \in Operations, b \in Attempts :
              side[p][b].st = "intent" => side[p][b].ord \in Ordinals
      BY RowTypes DEF SideRow, JournalInv, SidecarsWait
    <2>5. QED
      BY <2>1, <2>2, <2>3, <2>4 DEF EffectsAreIntended
  <1>4. CASE AcceptCommand(o, a)
    <2> DEFINE h == [phase |-> "accepted", gen |-> "newest"]
    <2>1. /\ n # 0 /\ head[o][n].phase = "none" /\ Record(o, n, h)
          /\ UNCHANGED effects
          /\ \E l \in {"reconcile", "accepted"} : SideAt(o, a, l)
      BY <1>4 DEF AcceptCommand
    <2>2. n \in Ordinals
      BY <1>2, <2>1
    <2>3. h \in HeadRow /\ h.phase = "accepted"
      BY DEF HeadRow, Age
    <2> HIDE DEF h
    <2>4. /\ head'[o][n].phase = "accepted"
          /\ \A p \in Operations, k \in Ordinals : p # o \/ k # n => head'[p][k] = head[p][k]
      BY <2>1, <2>2, <2>3, HeadEffect
    <2>5. /\ side'[o][a].st \in {"reconcile", "accepted"}
          /\ \A p \in Operations, b \in Attempts : p # o \/ b # a => side'[p][b] = side[p][b]
      BY <2>1, SideAtBecomes
    <2>6. \A p \in Operations, k \in Ordinals :
              head[p][k].phase \in {"intent", "observed"} => head'[p][k] = head[p][k]
      BY <2>1, <2>4
    <2>7. \A p \in Operations, b \in Attempts :
              side'[p][b].st \in {"intent", "effected"} => side'[p][b] = side[p][b]
      BY <2>5
    <2>8. \A p \in Operations, b \in Attempts :
              side[p][b].st = "intent" => side[p][b].ord \in Ordinals
      BY RowTypes DEF SideRow, JournalInv, SidecarsWait
    <2>9. QED
      BY <2>1, <2>6, <2>7, <2>8 DEF EffectsAreIntended
  <1>5. CASE ReplayCommand(o, a) \/ SendAck(o, a)
    <2>1. /\ UNCHANGED <<head, effects>>
          /\ \E l \in {"result", "reconcile", "acked"} : SideAt(o, a, l)
      BY <1>5 DEF ReplayCommand, SendAck, journalVars
    <2>2. /\ side'[o][a].st \in {"result", "reconcile", "acked"}
          /\ \A p \in Operations, b \in Attempts : p # o \/ b # a => side'[p][b] = side[p][b]
      BY <2>1, SideAtBecomes
    <2>3. \A p \in Operations, b \in Attempts :
              side'[p][b].st \in {"intent", "effected"} => side'[p][b] = side[p][b]
      BY <2>2
    <2>4. QED
      BY <2>1, <2>3 DEF EffectsAreIntended
  <1>6. CASE RecordIntent(o, a)
    <2>1. /\ head[o][n].phase = "accepted" /\ head[o][n].gen = "newest"
          /\ Record(o, n, [head[o][n] EXCEPT !.phase = "intent"])
          /\ SideAt(o, a, "intent") /\ UNCHANGED effects
          /\ side[o][a].st = "acked"
      BY <1>6 DEF RecordIntent, HeadIs
    <2>2. n \in Ordinals
      BY <1>2, <2>1 DEF JournalInv, SidecarsWait
    <2>3. /\ head'[o][n].phase = "intent"
          /\ \A p \in Operations, k \in Ordinals : p # o \/ k # n => head'[p][k] = head[p][k]
      <3> HIDE DEF n
      <3>1. QED
        BY <2>1, <2>2, HeadPhase
    <2>4. /\ side'[o][a].st = "intent" /\ side'[o][a].ord = n
          /\ \A p \in Operations, b \in Attempts : p # o \/ b # a => side'[p][b] = side[p][b]
      BY <2>1, SideAtBecomes
    <2>5. /\ \A k \in Ordinals : head[o][k].phase \notin {"intent", "observed"}
          /\ effects[o] = 0
          /\ \A b \in Attempts : side[o][b].st \notin {"intent", "effected"}
      BY <2>1, <2>2, SoleIntent
    <2>6. \A p \in Operations : p # o => \A k \in Ordinals : head'[p][k] = head[p][k]
      BY <2>3
    <2>7. \A p \in Operations, b \in Attempts :
              p # o /\ side[p][b].st = "intent" => side[p][b].ord \in Ordinals
      BY RowTypes DEF SideRow, JournalInv, SidecarsWait
    <2>8. QED
      BY <2>1, <2>2, <2>3, <2>4, <2>5, <2>6, <2>7 DEF EffectsAreIntended
  <1>7. CASE PerformEffect(o, a)
    <2>1. /\ side[o][a].st = "intent" /\ effects' = [effects EXCEPT ![o] = @ + 1]
          /\ SideAt(o, a, "effected") /\ UNCHANGED head
      BY <1>7 DEF PerformEffect
    <2>2. n \in Ordinals
      BY <1>2, <2>1 DEF JournalInv, SidecarsWait
    <2>3. /\ side'[o][a].st = "effected"
          /\ \A p \in Operations, b \in Attempts : p # o \/ b # a => side'[p][b] = side[p][b]
      BY <2>1, SideAtBecomes
    <2>4. effects[o] = 0 /\ head[o][n].phase = "intent"
      BY <2>1 DEF EffectsAreIntended
    <2>5. effects'[o] = 1 /\ \A p \in Operations : p # o => effects'[p] = effects[p]
      BY <2>1, <2>4 DEF TypeOK
    <2>6. \A b \in Attempts : side'[o][b].st # "intent"
      BY <2>1, <2>3 DEF EffectsAreIntended
    <2>7. QED
      BY <2>1, <2>2, <2>3, <2>4, <2>5, <2>6 DEF EffectsAreIntended
  <1>8. CASE RecordObservation(o, a)
    <2>1. /\ head[o][n].phase = "intent" /\ side[o][a].st = "effected"
          /\ Record(o, n, [head[o][n] EXCEPT !.phase = "observed"])
          /\ SideAt(o, a, "result") \/ Put(o, a, Idle)
          /\ UNCHANGED effects
      BY <1>8 DEF RecordObservation, HeadIs
    <2>2. n \in Ordinals
      BY <1>2, <2>1 DEF JournalInv, SidecarsWait
    <2>3. /\ head'[o][n].phase = "observed"
          /\ \A p \in Operations, k \in Ordinals : p # o \/ k # n => head'[p][k] = head[p][k]
      <3> HIDE DEF n
      <3>1. QED
        BY <2>1, <2>2, HeadPhase
    <2>4. Idle \in SideRow /\ Idle.st = "off"
      BY RowTypes DEF Idle
    <2>5. /\ side'[o][a].st \in {"result", "off"}
          /\ \A p \in Operations, b \in Attempts : p # o \/ b # a => side'[p][b] = side[p][b]
      BY <2>1, <2>4, SideAtBecomes, SideEffect
    <2>6. effects[o] = 1
      BY <2>1 DEF EffectsAreIntended
    <2>7. \A b \in Attempts : side'[o][b].st # "intent"
      BY <2>5, <2>6 DEF EffectsAreIntended
    <2>8. \A p \in Operations, b \in Attempts :
              side'[p][b].st = "intent" =>
                  /\ p # o /\ side'[p][b] = side[p][b] /\ side[p][b].ord \in Ordinals
                  /\ head'[p][side[p][b].ord] = head[p][side[p][b].ord]
      BY <2>3, <2>5, <2>7, RowTypes DEF SideRow, JournalInv, SidecarsWait
    <2>9. \A p \in Operations :
              effects'[p] \in {0, 1}
                  /\ (effects'[p] # 0 => \E k \in Ordinals : head'[p][k].phase \in {"intent", "observed"})
      <3>1. \A p \in Operations : p # o => \A k \in Ordinals : head'[p][k] = head[p][k]
        BY <2>3
      <3>2. QED
        BY <2>1, <2>2, <2>3, <2>6, <3>1 DEF EffectsAreIntended
    <2>10. \A p \in Operations, b \in Attempts :
               /\ side'[p][b].st = "intent" => effects'[p] = 0 /\ head'[p][side'[p][b].ord].phase = "intent"
               /\ side'[p][b].st = "effected" => effects'[p] = 1
      BY <2>1, <2>5, <2>8 DEF EffectsAreIntended
    <2>11. \A p \in Operations, b, c \in Attempts :
               side'[p][b].st = "intent" /\ side'[p][c].st = "intent" => b = c
      BY <2>8 DEF EffectsAreIntended
    <2>12. QED
      BY <2>9, <2>10, <2>11 DEF EffectsAreIntended
  <1>9. QED
    BY <1>3, <1>4, <1>5, <1>6, <1>7, <1>8 DEF SideStep

-----------------------------------------------------------------------------
(* What a step changes of the ledger, and that it is kept.                 *)

\* Every write of an operation's row keeps what is said of the ledger.
LEMMA LedgerKeeps ==
    ASSUME LedgerInv, NEW o \in Operations, Writes(o) \/ UNCHANGED op, UNCHANGED head
    PROVE  /\ op' \in [Operations -> OperationRow]
           /\ ConclusionsSettle'
           /\ \A p \in Operations :
                  /\ op'[p].ord <= op'[p].by
                  /\ op'[p].phase # "absent" <=> op'[p].ord # 0
                  /\ op[p].ord # 0 => op'[p].ord # 0
                  /\ op'[p].concl = "result" => JournalHolds(p)'
                  /\ op'[p].phase \in {"observed", "committed"} => op'[p].concl # "none"
                  /\ op[p].concl # "none" =>
                         /\ op'[p].concl = op[p].concl /\ op'[p].ord = op[p].ord
                         /\ op'[p].posture = "no_retry"
                         /\ op[p].phase = "committed" => op'[p].phase = "committed"
  <1> USE DEF LedgerInv
  <1>1. \A p \in Operations :
            /\ op[p].ord <= op[p].by
            /\ op[p].phase # "absent" <=> op[p].ord # 0
            /\ op[p].concl = "result" => JournalHolds(p)
            /\ op[p].phase \in {"observed", "committed"} => op[p].concl # "none"
            /\ op[p].concl # "none" => op[p].posture = "no_retry"
            /\ op[p].phase \in {"absent", "accepted"} => op[p].concl = "none"
            /\ RecordFits(op[p])
    BY DEF OrdinalsAreMinted, ResultsAreJournaled, ConclusionsSettle
  <1>2. \A p \in Operations : JournalHolds(p) => JournalHolds(p)'
    BY DEF JournalHolds
  <1>3. CASE UNCHANGED op
    BY <1>1, <1>2, <1>3 DEF ConclusionsSettle, TypeOK
  <1>4. CASE Writes(o)
    <2>1. PICK row \in OperationRow : Write(o, row) /\ GoodRow(o, row)
      BY <1>4 DEF Writes
    <2>2. /\ op' \in [Operations -> OperationRow]
          /\ op'[o] = row
          /\ \A p \in Operations : p # o => op'[p] = op[p]
      BY <2>1, WriteEffect
    <2>3. \A p \in Operations :
            /\ op'[p].ord <= op'[p].by
            /\ op'[p].phase # "absent" <=> op'[p].ord # 0
            /\ op'[p].concl = "result" => JournalHolds(p)
            /\ op'[p].phase \in {"observed", "committed"} => op'[p].concl # "none"
            /\ op'[p].concl # "none" => op'[p].posture = "no_retry"
            /\ op'[p].phase \in {"absent", "accepted"} => op'[p].concl = "none"
            /\ RecordFits(op'[p])
            /\ op[p].concl # "none" =>
                   /\ op'[p].concl = op[p].concl /\ op'[p].ord = op[p].ord
                   /\ op[p].phase = "committed" => op'[p].phase = "committed"
      BY <1>1, <2>1, <2>2 DEF GoodRow
    <2>4. \A p \in Operations : op[p].ord # 0 => op'[p].ord # 0
      <3>1. op[o].ord \in Nat
        BY RowTypes, MaxAttemptsPositive DEF OperationRow, Ordinals
      <3>2. op[o].ord # 0 => row.ord # 0
        BY <2>1, <3>1 DEF GoodRow, Advances
      <3>3. QED
        BY <2>2, <3>2
    <2>5. QED
      BY <1>2, <2>2, <2>3, <2>4 DEF ConclusionsSettle
  <1>5. QED
    BY <1>3, <1>4

\* What a lane's release and its deadline leave: the token and the operation.
LaneKeeps ==
    /\ lane' \in [open : BOOLEAN, overdue : BOOLEAN, token : Nat,
                  op : Operations \cup {NoOperation}]
    /\ lane'.token = lane.token /\ lane'.op = lane.op
    /\ lane'.open => lane.open

LaneTaken(o) ==
    /\ lane'.token = lane.token + 1 /\ lane'.op = o
    /\ lane' \in [open : BOOLEAN, overdue : BOOLEAN, token : Nat,
                  op : Operations \cup {NoOperation}]

\* The lane is released or its deadline passes.
LEMMA LaneRows ==
    ASSUME TypeOK
    PROVE  /\ UNCHANGED lane => LaneKeeps
           /\ lane' = [lane EXCEPT !.open = FALSE, !.overdue = FALSE] => LaneKeeps
           /\ lane' = [lane EXCEPT !.overdue = TRUE] => LaneKeeps
           /\ \A o \in Operations :
                  lane' = [open |-> TRUE, overdue |-> FALSE, token |-> lane.token + 1, op |-> o]
                      => LaneTaken(o)
  <1>1. lane \in [open : BOOLEAN, overdue : BOOLEAN, token : Nat, op : Operations \cup {NoOperation}]
    BY DEF TypeOK
  <1>2. UNCHANGED lane => LaneKeeps
    BY <1>1 DEF LaneKeeps
  <1>3. lane' = [lane EXCEPT !.open = FALSE, !.overdue = FALSE] => LaneKeeps
    BY <1>1 DEF LaneKeeps
  <1>4. lane' = [lane EXCEPT !.overdue = TRUE] => LaneKeeps
    BY <1>1 DEF LaneKeeps
  <1>5. lane.token + 1 \in Nat
    BY <1>1
  <1>6. ASSUME NEW o \in Operations,
               lane' = [open |-> TRUE, overdue |-> FALSE, token |-> lane.token + 1, op |-> o]
        PROVE  LaneTaken(o)
    BY <1>5, <1>6 DEF LaneTaken
  <1>7. QED
    BY <1>2, <1>3, <1>4, <1>6

\* How a run ends after its operation.
LEMMA EndingsAreStates ==
    ASSUME NEW o \in Operations, NEW a \in Attempts
    PROVE  Endings(o, a) \subseteq RunState
  BY DEF Endings, RunState

\* What no step of an attempt or the end of its sidecar touches, and the type of
\* what it does.
LEMMA StepsKeep ==
    ASSUME TypeOK, NEW o \in Operations, NEW a \in Attempts,
           MainStep(o, a) \/ Crash(o, a) \/ SideExits(o, a)
    PROVE  /\ UNCHANGED <<att, parked, head, effects, co>>
           /\ run' \in [Operations -> RunState]
           /\ held' \in [Operations -> BOOLEAN]
           /\ LaneKeeps \/ LaneTaken(o)
  <1>1. /\ run \in [Operations -> RunState] /\ held \in [Operations -> BOOLEAN]
    BY DEF TypeOK
  <1>2. CASE RunEnds(o, a)
    <2>1. PICK to \in RunState : run' = [run EXCEPT ![o] = to]
      BY <1>2, EndingsAreStates DEF RunEnds
    <2>2. run' \in [Operations -> RunState]
      BY <1>1, <2>1
    <2>3. held' = [held EXCEPT ![o] = FALSE] /\ UNCHANGED <<att, parked, head, effects, co, lane>>
      BY <1>2 DEF RunEnds, journalVars
    <2>4. held' \in [Operations -> BOOLEAN]
      BY <1>1, <2>3
    <2>5. QED
      BY <2>2, <2>3, <2>4, LaneRows
  <1>3. CASE AcquireLane(o, a)
    BY <1>1, <1>3, LaneRows DEF AcquireLane, journalVars
  <1>4. CASE ExitLane(o, a)
    BY <1>1, <1>4, LaneRows DEF ExitLane, journalVars
  <1>5. CASE ExitWithoutLane(o, a)
    BY <1>1, <1>5, LaneRows DEF ExitWithoutLane, journalVars
  <1>6. ASSUME Begin(o, a) \/ LaneBusy(o, a) \/ ReadContext(o, a) \/ Send(o, a) \/ Receive(o, a)
               \/ NoAnswer(o, a) \/ Query(o, a) \/ Replay(o, a) \/ ReplayEnds(o, a)
               \/ CloseSidecar(o, a) \/ HeartbeatLost(o, a) \/ Crash(o, a) \/ SideExits(o, a)
        PROVE  UNCHANGED <<run, held, att, parked, head, effects, co, lane>>
    BY <1>6 DEF Begin, LaneBusy, ReadContext, Send, Receive, NoAnswer, Query, Replay,
       ReplayEnds, CloseSidecar, HeartbeatLost, Crash, SideExits, ledgerVars, journalVars
  <1>7. ASSUME Accept(o, a) \/ Mint(o, a) \/ Ack(o, a) \/ RecordUnknown(o, a) \/ Observe(o, a)
               \/ Commit(o, a)
        PROVE  UNCHANGED <<run, held, att, parked, head, effects, co, lane>>
    BY <1>7 DEF Accept, Mint, Ack, RecordUnknown, Observe, Commit, journalVars
  <1>8. QED
    BY <1>1, <1>2, <1>3, <1>4, <1>5, <1>6, <1>7, LaneRows DEF MainStep

\* A conclusion is final, over one step.
Final ==
    \A o \in Operations :
        op[o].concl # "none" =>
            /\ op'[o].concl = op[o].concl /\ op'[o].ord = op[o].ord
            /\ op'[o].posture = "no_retry"
            /\ op[o].phase = "committed" => op'[o].phase = "committed"

\* A sidecar is told the authorization its attempt works for, if any (_exchange).
LEMMA ServedOrdinals ==
    ASSUME TypeOK, NEW o \in Operations, NEW a \in Attempts,
           SideServes(o, a) \/ UNCHANGED side
    PROVE  \A p \in Operations, b \in Attempts :
               side'[p][b].ord # 0 => side[p][b].ord # 0 \/ main[p][b].ord # 0
  <1>1. side[o][a] \in SideRow
    BY RowTypes
  <1>2. CASE UNCHANGED side
    BY <1>2
  <1>3. CASE SideServes(o, a)
    <2>1. PICK s \in SideRow : Serves(o, a, s)
      BY <1>3 DEF SideServes
    <2>2. /\ side'[o][a] = s
          /\ \A p \in Operations, b \in Attempts : p # o \/ b # a => side'[p][b] = side[p][b]
      BY <2>1, SideEffect DEF Serves
    <2>3. s.ord # 0 => side[o][a].ord # 0 \/ main[o][a].ord # 0
      BY <1>1, <2>1 DEF Serves, SideRow
    <2>4. QED
      BY <2>2, <2>3
  <1>4. QED
    BY <1>2, <1>3

\* A step of an attempt, its death and the end of its sidecar keep the invariant.
LEMMA AttemptKeeps ==
    ASSUME IInv, NEW o \in Operations, NEW a \in Attempts,
           MainStep(o, a) \/ Crash(o, a) \/ SideExits(o, a)
    PROVE  IInv' /\ Final
  <1> USE DEF IInv
  <1>1. MainMoves(o, a) \/ UNCHANGED main
    BY StepsMove DEF SideExits
  <1>2. SideServes(o, a) \/ UNCHANGED side
    BY StepsServe
  <1>3. LedgerInv
    BY DEF LedgerInv
  <1>4. Writes(o) \/ UNCHANGED op
    BY <1>3, StepsWrite DEF SideExits, ledgerVars
  <1>5. /\ UNCHANGED <<att, parked, head, effects, co>>
        /\ run' \in [Operations -> RunState]
        /\ held' \in [Operations -> BOOLEAN]
        /\ LaneKeeps \/ LaneTaken(o)
    BY StepsKeep
  <1>6. /\ op' \in [Operations -> OperationRow]
        /\ ConclusionsSettle'
        /\ \A p \in Operations :
               /\ op'[p].ord <= op'[p].by
               /\ op'[p].phase # "absent" <=> op'[p].ord # 0
               /\ op[p].ord # 0 => op'[p].ord # 0
               /\ op'[p].concl = "result" => JournalHolds(p)'
               /\ op'[p].phase \in {"observed", "committed"} => op'[p].concl # "none"
        /\ Final
    BY <1>3, <1>4, <1>5, LedgerKeeps DEF Final
  <1>7. JournalInv' /\ EffectsAreIntended'
    BY <1>1, <1>2, <1>5, ServeJournal, ServeEffects
  <1>8. /\ main' \in [Operations -> [Attempts -> MainRow]]
        /\ \A p \in Operations, b \in Attempts :
               /\ main'[p][b].pc \notin BeforeRead => main'[p][b].ord # 0
               /\ main'[p][b].ord # 0 => main[p][b].ord # 0 \/ op'[p].ord # 0
               /\ main'[p][b].pc = "ack" => main'[p][b].next # "none"
               /\ main'[p][b].pc = "observe" => main'[p][b].next = "observe"
               /\ main'[p][b].pc \in {"ack", "observe"} /\ main'[p][b].next = "observe" =>
                      JournalHolds(p)
               /\ \/ main'[p][b].token \in {0, main[p][b].token}
                  \/ /\ p = o /\ main'[p][b].token = lane.token + 1
                     /\ LaneTaken(o)
               /\ main'[p][b].pc = "exit" =>
                      main'[p][b] = main[p][b] \/ (p = o /\ b = a /\ side'[o][a].st = "off")
    <2>1. CASE UNCHANGED main
      <3>1. main \in [Operations -> [Attempts -> MainRow]]
        BY DEF TypeOK
      <3>2. QED
        BY <2>1, <3>1 DEF OrdinalsAreMinted, ResultsAreJournaled
    <2>2. CASE MainMoves(o, a)
      <3>1. PICK m \in MainRow : MovesTo(o, a, m)
        BY <2>2 DEF MainMoves
      <3>2. /\ main' \in [Operations -> [Attempts -> MainRow]]
            /\ main'[o][a] = m
            /\ \A p \in Operations, b \in Attempts : p # o \/ b # a => main'[p][b] = main[p][b]
        BY <3>1, MainEffect DEF MovesTo
      <3>3. /\ m.pc \notin BeforeRead => m.ord # 0
            /\ m.ord # 0 => main[o][a].ord # 0 \/ op'[o].ord # 0
            /\ m.pc = "ack" => m.next # "none"
            /\ m.pc = "observe" => m.next = "observe"
            /\ m.pc \in {"ack", "observe"} /\ m.next = "observe" => JournalHolds(o)
            /\ m.pc = "exit" => side'[o][a].st = "off"
        BY <3>1 DEF MovesTo, ResultsAreJournaled
      <3>4. m.token \in {0, main[o][a].token} \/ (m.token = lane.token + 1 /\ LaneTaken(o))
        BY <3>1, LaneRows DEF MovesTo
      <3>5. QED
        BY <3>2, <3>3, <3>4 DEF OrdinalsAreMinted, ResultsAreJournaled
    <2>3. QED
      BY <1>1, <2>1, <2>2
  <1>9. \A p \in Operations : JournalHolds(p) => JournalHolds(p)'
    BY <1>5 DEF JournalHolds
  <1>10. ResultsAreJournaled'
    <2>1. \A p \in Operations : JournalHolds(p)' => effects'[p] = 1
      BY <1>5 DEF ResultsAreJournaled, JournalHolds
    <2>2. \A p \in Operations, b \in Attempts : side'[p][b].st = "result" => JournalHolds(p)'
      BY <1>2, <1>9, ServeAtWork DEF ResultsAreJournaled
    <2>3. co'.pc = "looked" /\ co'.found = "result" => co.op \in Operations /\ JournalHolds(co.op)
      BY <1>5 DEF ResultsAreJournaled
    <2>4. (co.pc = "looked" /\ co.found = "result" => co.op \in Operations /\ JournalHolds(co.op))'
      BY <1>5, <2>3 DEF JournalHolds
    <2>5. QED
      BY <1>6, <1>8, <1>9, <2>1, <2>2, <2>4 DEF ResultsAreJournaled
  <1>11. side' \in [Operations -> [Attempts -> SideRow]]
    <2>1. CASE UNCHANGED side
      BY <2>1 DEF TypeOK
    <2>2. CASE SideServes(o, a)
      BY <2>2, SideEffect DEF SideServes, Serves
    <2>3. QED
      BY <1>2, <2>1, <2>2
  <1>12. OrdinalsAreMinted'
    <2>1. \A p \in Operations, b \in Attempts :
              side'[p][b].ord # 0 => side[p][b].ord # 0 \/ main[p][b].ord # 0
      BY <1>2, ServedOrdinals
    <2>2. \A p \in Operations, b \in Attempts :
              main'[p][b].ord # 0 \/ side'[p][b].ord # 0 => op'[p].ord # 0
      BY <1>6, <1>8, <2>1 DEF OrdinalsAreMinted
    <2>3. QED
      BY <1>5, <1>6, <1>8, <2>2 DEF OrdinalsAreMinted
  <1>13. TypeOK'
    BY <1>5, <1>6, <1>8, <1>11 DEF TypeOK, LaneKeeps, LaneTaken
  <1>14. TokensAreUnique'
    <2>1. lane.token \in Nat /\ \A p \in Operations, b \in Attempts : main[p][b].token \in Nat
      BY RowTypes DEF TypeOK, MainRow
    <2>2. \A p \in Operations, b \in Attempts :
              /\ main'[p][b].token <= lane'.token
              /\ main'[p][b].token # 0 /\ main'[p][b].token = lane'.token => lane'.op = p
      <3>1. CASE LaneKeeps
        BY <1>8, <2>1, <3>1 DEF TokensAreUnique, LaneKeeps, LaneTaken
      <3>2. CASE LaneTaken(o)
        BY <1>8, <2>1, <3>2 DEF TokensAreUnique, LaneTaken
      <3>3. QED
        BY <1>5, <3>1, <3>2
    <2>3. lane'.open => lane'.token # 0
      BY <1>5, <2>1 DEF TokensAreUnique, LaneKeeps, LaneTaken
    <2>4. \A p \in Operations, b \in Attempts : main'[p][b].pc = "exit" => side'[p][b].st = "off"
      <3> SUFFICES ASSUME NEW p \in Operations, NEW b \in Attempts, main'[p][b].pc = "exit",
                          main'[p][b] = main[p][b]
                   PROVE  side'[p][b].st = "off"
        BY <1>8
      <3>1. side[p][b].st = "off"
        BY DEF TokensAreUnique
      <3>2. CASE UNCHANGED side
        BY <3>1, <3>2
      <3>3. CASE SideServes(o, a)
        <4>1. PICK s \in SideRow : Serves(o, a, s)
          BY <3>3 DEF SideServes
        <4>2. /\ side'[o][a] = s
              /\ \A q \in Operations, c \in Attempts : q # o \/ c # a => side'[q][c] = side[q][c]
          BY <4>1, SideEffect DEF Serves
        <4>3. p = o /\ b = a => s = side[o][a] \/ s.st = "off"
          BY <4>1 DEF Serves
        <4>4. QED
          BY <3>1, <4>2, <4>3
      <3>4. QED
        BY <1>2, <3>2, <3>3
    <2>5. QED
      BY <2>2, <2>3, <2>4 DEF TokensAreUnique
  <1>15. QED
    BY <1>6, <1>7, <1>10, <1>12, <1>13, <1>14

\* What a step of a sidecar does to the journal, beside what JournalInv says: an
\* observation stays, comes after the effect, and is what a result speaks of.
SideSays ==
    /\ side' \in [Operations -> [Attempts -> SideRow]]
    /\ head' \in [Operations -> [Ordinals -> HeadRow]]
    /\ effects' \in [Operations -> Nat]
    /\ \A p \in Operations, b \in Attempts :
           /\ side'[p][b].ord # 0 => side[p][b].ord # 0
           /\ side[p][b].st = "off" => side'[p][b].st = "off"
           /\ side'[p][b].st = "result" =>
                  side[p][b].st = "result" \/ \E k \in Ordinals : head'[p][k].phase = "observed"
    /\ \A p \in Operations :
           /\ \A k \in Ordinals : head[p][k].phase = "observed" => head'[p][k].phase = "observed"
           /\ \A k \in Ordinals : head'[p][k].phase = "observed" =>
                  head[p][k].phase = "observed" \/ effects'[p] = 1
           /\ effects[p] = 1 => effects'[p] = 1

\* Every step of a sidecar (_serve, _handle_cards_submit) does so.
LEMMA SideStepsSay ==
    ASSUME TypeOK, JournalInv, EffectsAreIntended, NEW o \in Operations, NEW a \in Attempts,
           SideStep(o, a)
    PROVE  SideSays
  <1> DEFINE n == side[o][a].ord
  <1>1. /\ side[o][a] \in SideRow
        /\ head \in [Operations -> [Ordinals -> HeadRow]] /\ effects \in [Operations -> Nat]
    BY RowTypes DEF TypeOK
  <1>2. n # 0 => n \in Ordinals
    BY <1>1 DEF SideRow
  <1>3. CASE StartGeneration(o, a)
    <2>1. UNCHANGED effects /\ side[o][a].st = "boot"
      BY <1>3 DEF StartGeneration
    <2>2. /\ side' \in [Operations -> [Attempts -> SideRow]]
          /\ head' \in [Operations -> [Ordinals -> HeadRow]]
          /\ side'[o][a].st = "idle"
          /\ \A p \in Operations, b \in Attempts : p # o \/ b # a => side'[p][b].st = side[p][b].st
          /\ \A p \in Operations, b \in Attempts : side'[p][b].ord = side[p][b].ord
          /\ \A p \in Operations, k \in Ordinals : head'[p][k].phase = head[p][k].phase
      BY <1>3, GenerationEffect
    <2>3. QED
      BY <1>1, <2>1, <2>2 DEF SideSays
  <1>4. CASE AcceptCommand(o, a)
    <2> DEFINE h == [phase |-> "accepted", gen |-> "newest"]
    <2>1. /\ n # 0 /\ head[o][n].phase = "none" /\ Record(o, n, h)
          /\ UNCHANGED effects /\ side[o][a].st = "idle"
          /\ \E l \in {"reconcile", "accepted"} : SideAt(o, a, l)
      BY <1>4 DEF AcceptCommand
    <2>2. n \in Ordinals
      BY <1>2, <2>1
    <2>3. h \in HeadRow /\ h.phase = "accepted"
      BY DEF HeadRow, Age
    <2> HIDE DEF h
    <2>4. /\ head' \in [Operations -> [Ordinals -> HeadRow]]
          /\ head'[o][n].phase = "accepted"
          /\ \A p \in Operations, k \in Ordinals : p # o \/ k # n => head'[p][k] = head[p][k]
      BY <2>1, <2>2, <2>3, HeadEffect
    <2>5. /\ side' \in [Operations -> [Attempts -> SideRow]]
          /\ side'[o][a].st \in {"reconcile", "accepted"} /\ side'[o][a].ord = n
          /\ \A p \in Operations, b \in Attempts : p # o \/ b # a => side'[p][b] = side[p][b]
      BY <2>1, SideAtBecomes
    <2>6. \A p \in Operations, k \in Ordinals :
              head'[p][k].phase = "observed" <=> head[p][k].phase = "observed"
      BY <2>1, <2>4
    <2>7. QED
      BY <1>1, <2>1, <2>4, <2>5, <2>6 DEF SideSays
  <1>5. CASE ReplayCommand(o, a) \/ SendAck(o, a)
    <2>1. /\ UNCHANGED <<head, effects>> /\ side[o][a].st \in {"idle", "accepted"}
          /\ \E l \in {"result", "reconcile", "acked"} :
                 SideAt(o, a, l) /\ (l = "result" => n # 0 /\ head[o][n].phase = "observed")
      BY <1>5 DEF ReplayCommand, SendAck, journalVars
    <2>2. PICK l \in {"result", "reconcile", "acked"} :
              SideAt(o, a, l) /\ (l = "result" => n # 0 /\ head[o][n].phase = "observed")
      BY <2>1
    <2>3. /\ side' \in [Operations -> [Attempts -> SideRow]]
          /\ side'[o][a].st = l /\ side'[o][a].ord = n
          /\ \A p \in Operations, b \in Attempts : p # o \/ b # a => side'[p][b] = side[p][b]
      BY <2>2, SideAtBecomes
    <2>4. l = "result" => \E k \in Ordinals : head'[o][k].phase = "observed"
      BY <1>2, <2>1, <2>2
    <2>5. QED
      BY <1>1, <2>1, <2>2, <2>3, <2>4 DEF SideSays
  <1>6. CASE RecordIntent(o, a)
    <2>1. /\ head[o][n].phase = "accepted"
          /\ Record(o, n, [head[o][n] EXCEPT !.phase = "intent"])
          /\ SideAt(o, a, "intent") /\ UNCHANGED effects
          /\ side[o][a].st = "acked"
      BY <1>6 DEF RecordIntent, HeadIs
    <2>2. n \in Ordinals
      BY <1>2, <2>1 DEF JournalInv, SidecarsWait
    <2>3. /\ head' \in [Operations -> [Ordinals -> HeadRow]]
          /\ head'[o][n].phase = "intent"
          /\ \A p \in Operations, k \in Ordinals : p # o \/ k # n => head'[p][k] = head[p][k]
      <3> HIDE DEF n
      <3>1. QED
        BY <2>1, <2>2, HeadPhase
    <2>4. /\ side' \in [Operations -> [Attempts -> SideRow]]
          /\ side'[o][a].st = "intent" /\ side'[o][a].ord = n
          /\ \A p \in Operations, b \in Attempts : p # o \/ b # a => side'[p][b] = side[p][b]
      BY <2>1, SideAtBecomes
    <2>5. \A p \in Operations, k \in Ordinals :
              head'[p][k].phase = "observed" <=> head[p][k].phase = "observed"
      BY <2>1, <2>3
    <2>6. QED
      BY <1>1, <2>1, <2>3, <2>4, <2>5 DEF SideSays
  <1>7. CASE PerformEffect(o, a)
    <2>1. /\ side[o][a].st = "intent" /\ effects' = [effects EXCEPT ![o] = @ + 1]
          /\ SideAt(o, a, "effected") /\ UNCHANGED head
      BY <1>7 DEF PerformEffect
    <2>2. /\ side' \in [Operations -> [Attempts -> SideRow]]
          /\ side'[o][a].st = "effected" /\ side'[o][a].ord = n
          /\ \A p \in Operations, b \in Attempts : p # o \/ b # a => side'[p][b] = side[p][b]
      BY <2>1, SideAtBecomes
    <2>3. effects[o] = 0
      BY <2>1 DEF EffectsAreIntended
    <2>4. effects' \in [Operations -> Nat] /\ effects'[o] = 1
          /\ \A p \in Operations : p # o => effects'[p] = effects[p]
      BY <1>1, <2>1, <2>3
    <2>5. QED
      BY <1>1, <2>1, <2>2, <2>3, <2>4 DEF SideSays
  <1>8. CASE RecordObservation(o, a)
    <2>1. /\ head[o][n].phase = "intent" /\ side[o][a].st = "effected"
          /\ Record(o, n, [head[o][n] EXCEPT !.phase = "observed"])
          /\ SideAt(o, a, "result") \/ Put(o, a, Idle)
          /\ UNCHANGED effects
      BY <1>8 DEF RecordObservation, HeadIs
    <2>2. n \in Ordinals
      BY <1>2, <2>1 DEF JournalInv, SidecarsWait
    <2>3. /\ head' \in [Operations -> [Ordinals -> HeadRow]]
          /\ head'[o][n].phase = "observed"
          /\ \A p \in Operations, k \in Ordinals : p # o \/ k # n => head'[p][k] = head[p][k]
      <3> HIDE DEF n
      <3>1. QED
        BY <2>1, <2>2, HeadPhase
    <2>4. Idle \in SideRow /\ Idle.st = "off" /\ Idle.ord = 0
      BY RowTypes DEF Idle
    <2>5. /\ side' \in [Operations -> [Attempts -> SideRow]]
          /\ side'[o][a].st \in {"result", "off"} /\ side'[o][a].ord \in {0, n}
          /\ \A p \in Operations, b \in Attempts : p # o \/ b # a => side'[p][b] = side[p][b]
      BY <2>1, <2>4, SideAtBecomes, SideEffect
    <2>6. effects[o] = 1
      BY <2>1 DEF EffectsAreIntended
    <2>7. \A p \in Operations, k \in Ordinals :
              /\ head[p][k].phase = "observed" => head'[p][k].phase = "observed"
              /\ head'[p][k].phase = "observed" => head[p][k].phase = "observed" \/ p = o
      BY <2>3
    <2>8. \E k \in Ordinals : head'[o][k].phase = "observed"
      BY <2>2, <2>3
    <2>9. \A p \in Operations, b \in Attempts : side'[p][b].ord # 0 => side[p][b].ord # 0
      BY <2>5
    <2>10. \A p \in Operations, b \in Attempts :
               /\ side[p][b].st = "off" => side'[p][b].st = "off"
               /\ side'[p][b].st = "result" =>
                      side[p][b].st = "result" \/ \E k \in Ordinals : head'[p][k].phase = "observed"
      BY <2>1, <2>5, <2>8
    <2>11. QED
      BY <1>1, <2>1, <2>3, <2>5, <2>6, <2>7, <2>9, <2>10 DEF SideSays
  <1>9. QED
    BY <1>3, <1>4, <1>5, <1>6, <1>7, <1>8 DEF SideStep

\* A step of a sidecar keeps the invariant.
LEMMA SideKeeps ==
    ASSUME IInv, NEW o \in Operations, NEW a \in Attempts, SideStep(o, a)
    PROVE  IInv' /\ Final
  <1> USE DEF IInv
  <1>1. UNCHANGED <<ledgerVars, main, co>>
    BY DEF SideStep, StartGeneration, AcceptCommand, ReplayCommand, SendAck, RecordIntent,
       PerformEffect, RecordObservation
  <1>2. UNCHANGED <<run, att, held, parked, lane, op, main, co>>
    BY <1>1 DEF ledgerVars
  <1>3. SideSays
    BY SideStepsSay
  <1>4. JournalInv' /\ EffectsAreIntended'
    BY SideJournal, SideEffects
  <1>5. TypeOK'
    BY <1>2, <1>3 DEF TypeOK, SideSays
  <1>6. OrdinalsAreMinted' /\ ConclusionsSettle'
    BY <1>2, <1>3 DEF OrdinalsAreMinted, ConclusionsSettle, SideSays
  <1>7. TokensAreUnique'
    BY <1>2, <1>3 DEF TokensAreUnique, SideSays
  <1>8. \A p \in Operations : JournalHolds(p) => JournalHolds(p)'
    BY <1>3 DEF JournalHolds, SideSays
  <1>9. ResultsAreJournaled'
    <2>1. \A p \in Operations : JournalHolds(p)' => effects'[p] = 1
      BY <1>3 DEF SideSays, JournalHolds, ResultsAreJournaled
    <2>2. \A p \in Operations, b \in Attempts : side'[p][b].st = "result" => JournalHolds(p)'
      BY <1>3, <1>8 DEF SideSays, JournalHolds, ResultsAreJournaled
    <2>3. (co.pc = "looked" /\ co.found = "result" => co.op \in Operations /\ JournalHolds(co.op))'
      <3>1. co.pc = "looked" /\ co.found = "result" =>
                co.op \in Operations /\ \E k \in Ordinals : head[co.op][k].phase = "observed"
        BY DEF ResultsAreJournaled, JournalHolds
      <3>2. QED
        BY <1>2, <1>3, <3>1 DEF JournalHolds, SideSays
    <2>4. QED
      BY <1>2, <1>8, <2>1, <2>2, <2>3 DEF ResultsAreJournaled
  <1>10. Final
    BY <1>2 DEF Final, ConclusionsSettle
  <1>11. QED
    BY <1>4, <1>5, <1>6, <1>7, <1>9, <1>10

-----------------------------------------------------------------------------
(* The run, the clock and the coordinator.                                 *)

\* What speaks of a journal that does not change is kept, if the coordinator
\* speaks of what it saw there.
LEMMA QuietKeeps ==
    ASSUME IInv, NEW o \in Operations, Writes(o) \/ UNCHANGED op,
           UNCHANGED <<att, head, effects, main, side>>,
           run' \in [Operations -> RunState], held' \in [Operations -> BOOLEAN],
           parked' \in [Operations -> {"no", "active", "resolved"}],
           LaneKeeps,
           co' \in LookRow,
           co'.pc = "looked" =>
               /\ co'.seen.ord # 0
               /\ co'.found = "result" => co'.op \in Operations /\ JournalHolds(co'.op)
    PROVE  IInv' /\ Final
  <1> USE DEF IInv
  <1>1. LedgerInv
    BY DEF LedgerInv
  <1>2. /\ op' \in [Operations -> OperationRow]
        /\ ConclusionsSettle'
        /\ \A p \in Operations :
               /\ op'[p].ord <= op'[p].by
               /\ op'[p].phase # "absent" <=> op'[p].ord # 0
               /\ op[p].ord # 0 => op'[p].ord # 0
               /\ op'[p].concl = "result" => JournalHolds(p)'
               /\ op'[p].phase \in {"observed", "committed"} => op'[p].concl # "none"
        /\ Final
    BY <1>1, LedgerKeeps DEF Final
  <1>3. \A p \in Operations : JournalHolds(p) <=> JournalHolds(p)'
    BY DEF JournalHolds
  <1>4. JournalInv'
    <2>1. 1 \in Attempts
      BY FirstOrdinal DEF Attempts, Ordinals
    <2>2. QED
      BY <2>1, ServeJournal
  <1>5. EffectsAreIntended'
    BY DEF EffectsAreIntended
  <1>6. TypeOK'
    BY <1>2 DEF TypeOK, LaneKeeps
  <1>7. OrdinalsAreMinted'
    BY <1>2 DEF OrdinalsAreMinted
  <1>8. ResultsAreJournaled'
    <2>1. (co.pc = "looked" /\ co.found = "result" => co.op \in Operations /\ JournalHolds(co.op))'
      BY <1>3 DEF JournalHolds
    <2>2. QED
      BY <1>2, <1>3, <2>1 DEF ResultsAreJournaled
  <1>9. TokensAreUnique'
    BY DEF TokensAreUnique, LaneKeeps
  <1>10. QED
    BY <1>2, <1>4, <1>5, <1>6, <1>7, <1>8, <1>9

\* An idle coordinator has seen nothing.
LEMMA IdleRows ==
    /\ NotLooking \in LookRow /\ NotLooking.pc = "idle"
    /\ \A o \in Operations :
           LET row == [NotLooking EXCEPT !.pc = "committed", !.op = o] IN
           row \in LookRow /\ row.pc = "committed"
  <1>1. NoRow \in OperationRow
    BY DEF NoRow, OperationRow, Evidence
  <1>2. NotLooking \in LookRow /\ NotLooking.pc = "idle"
    BY <1>1 DEF NotLooking, LookRow, Evidence
  <1>3. QED
    BY <1>2 DEF LookRow

\* What the coordinator may find is a finding, and a result is in the journal.
LEMMA FindingsAreSeen ==
    ASSUME TypeOK, NEW o \in Operations, op[o].ord \in Ordinals, NEW found \in Findings(o)
    PROVE  /\ found \in Evidence \cup {"unavailable"}
           /\ found = "result" => JournalHolds(o)
  <1>1. head[o][op[o].ord].phase \in {"none", "accepted", "intent", "observed"}
    BY RowTypes DEF HeadRow
  <1>2. CASE head[o][op[o].ord].phase = "observed"
    BY <1>2 DEF Findings, Evidence, JournalHolds
  <1>3. CASE head[o][op[o].ord].phase \in {"none", "accepted", "intent"}
    BY <1>3 DEF Findings, Evidence
  <1>4. QED
    BY <1>1, <1>2, <1>3

\* The next attempt of a run begins with a clean row.
LEMMA ClaimKeeps ==
    ASSUME IInv, NEW o \in Operations, Claim(o)
    PROVE  IInv' /\ Final
  <1> USE DEF IInv
  <1> DEFINE a == att[o] + 1
  <1> DEFINE m == [main[o][a] EXCEPT !.pc = "start"]
  <1>1. /\ att[o] \in 0..MaxAttempts /\ att[o] < MaxAttempts /\ MaxAttempts \in Nat
        /\ att' = [att EXCEPT ![o] = @ + 1] /\ Step(o, a, m)
        /\ run' = [run EXCEPT ![o] = "executing"] /\ held' = [held EXCEPT ![o] = TRUE]
        /\ UNCHANGED <<parked, lane, op, head, effects, side, co>>
    BY MaxAttemptsPositive DEF Claim, Goto, TypeOK, journalVars
  <1>2. a \in Attempts /\ a > att[o]
    BY <1>1 DEF Attempts
  <1>3. main[o][a].pc = "none" /\ main[o][a] \in MainRow
    BY <1>2, RowTypes DEF JournalInv, FutureAttempts
  <1>4. /\ m \in MainRow /\ m.pc = "start"
        /\ m.token = main[o][a].token /\ m.ord = main[o][a].ord
    BY <1>3 DEF MainRow, MainLabel
  <1>5. att' \in [Operations -> 0..MaxAttempts] /\ att'[o] = a
        /\ \A p \in Operations : p # o => att'[p] = att[p]
    BY <1>1 DEF TypeOK
  <1> HIDE DEF a, m
  <1>6. /\ main' \in [Operations -> [Attempts -> MainRow]]
        /\ main'[o][a] = m
        /\ \A p \in Operations, b \in Attempts : p # o \/ b # a => main'[p][b] = main[p][b]
    BY <1>1, <1>2, <1>4, MainEffect
  <1>7. run' \in [Operations -> RunState] /\ held' \in [Operations -> BOOLEAN]
    BY <1>1 DEF TypeOK, RunState
  <1>8. TypeOK'
    BY <1>1, <1>5, <1>6, <1>7 DEF TypeOK
  <1>9. OrdinalsAreMinted'
    BY <1>1, <1>2, <1>4, <1>6 DEF OrdinalsAreMinted, BeforeRead
  <1>10. FutureAttempts'
    <2>1. \A p \in Operations, b \in Attempts : b > att'[p] => b > att[p] /\ (p = o => b # a)
      BY <1>1, <1>5 DEF TypeOK, Attempts, a
    <2>2. QED
      BY <1>6, <2>1 DEF JournalInv, FutureAttempts
  <1>11. SidecarsWait' /\ OneHeadPerSession'
    <2>1. \A p \in Operations, b \in Attempts :
              main'[p][b].pc \in BeforeSend => main[p][b].pc \in BeforeSend
      BY <1>3, <1>6 DEF BeforeSend
    <2>2. QED
      BY <1>1, <2>1 DEF JournalInv, SidecarsWait, OneHeadPerSession
  <1>12. HeadsHaveSessions' /\ OneNewestSession' /\ SupersededIsUndispatched'
    BY <1>1 DEF JournalInv, HeadsHaveSessions, OneNewestSession, SupersededIsUndispatched
  <1>13. EffectsAreIntended' /\ ConclusionsSettle' /\ Final
    BY <1>1 DEF EffectsAreIntended, ConclusionsSettle, Final
  <1>14. ResultsAreJournaled'
    BY <1>1, <1>4, <1>6 DEF ResultsAreJournaled, JournalHolds
  <1>15. TokensAreUnique'
    BY <1>1, <1>4, <1>6 DEF TokensAreUnique
  <1>16. QED
    BY <1>8, <1>9, <1>10, <1>11, <1>12, <1>13, <1>14, <1>15 DEF JournalInv

\* The other steps of the run, and of the clock, leave the journal alone.
LEMMA RunKeeps ==
    ASSUME IInv, NEW o \in Operations, RunStep(o)
    PROVE  IInv' /\ Final
  <1> USE DEF IInv
  <1>0. /\ run \in [Operations -> RunState] /\ held \in [Operations -> BOOLEAN]
        /\ parked \in [Operations -> {"no", "active", "resolved"}] /\ co \in LookRow
    BY DEF TypeOK
  <1>1. co.pc = "looked" =>
            /\ co.seen.ord # 0
            /\ co.found = "result" => co.op \in Operations /\ JournalHolds(co.op)
    BY DEF OrdinalsAreMinted, ResultsAreJournaled
  <1>2. CASE Claim(o)
    BY <1>2, ClaimKeeps
  <1>3. CASE RequestStop(o) \/ Resume(o)
    <2>1. /\ run' \in [Operations -> RunState]
          /\ UNCHANGED <<att, held, parked, lane, op, head, effects, main, side, co>>
      BY <1>0, <1>3 DEF RequestStop, Resume, journalVars, RunState
    <2>2. QED
      BY <1>0, <1>1, <2>1, LaneRows, QuietKeeps
  <1>4. CASE Settle(o)
    <2>1. PICK to \in {"closed", "failed", "resumable", "attention"} :
            /\ run' = [run EXCEPT ![o] = to]
            /\ parked' = [parked EXCEPT ![o] = IF to = "attention" THEN "active" ELSE @]
      BY <1>4 DEF Settle
    <2>2. /\ held' = [held EXCEPT ![o] = FALSE]
          /\ UNCHANGED <<att, lane, op, head, effects, main, side, co>>
      BY <1>4 DEF Settle, journalVars
    <2>3. run' \in [Operations -> RunState] /\ held' \in [Operations -> BOOLEAN]
      BY <1>0, <2>1, <2>2 DEF RunState
    <2>4. parked' \in [Operations -> {"no", "active", "resolved"}]
      BY <1>0, <2>1
    <2>5. QED
      BY <1>0, <1>1, <2>2, <2>3, <2>4, LaneRows, QuietKeeps
  <1>5. QED
    BY <1>2, <1>3, <1>4 DEF RunStep

\* The coordinator's steps: what it remembers is what it saw.
LEMMA CoordinatorKeeps ==
    ASSUME IInv, NEW o \in Operations, CoordinatorStep(o) \/ CoordinatorCrash \/ LaneOverdue
    PROVE  IInv' /\ Final
  <1> USE DEF IInv
  <1>0. /\ run \in [Operations -> RunState] /\ held \in [Operations -> BOOLEAN]
        /\ parked \in [Operations -> {"no", "active", "resolved"}] /\ co \in LookRow
    BY DEF TypeOK
  <1>1. co.pc = "looked" =>
            /\ co.seen.ord # 0
            /\ co.found = "result" => co.op \in Operations /\ JournalHolds(co.op)
    BY DEF OrdinalsAreMinted, ResultsAreJournaled
  <1>2. CASE Project(o) \/ LaneOverdue
    <2>1. /\ LaneKeeps
          /\ UNCHANGED <<run, att, held, parked, op, head, effects, main, side, co>>
      BY <1>2, LaneRows DEF Project, ReleaseLane, LaneOverdue, journalVars
    <2>2. QED
      BY <1>0, <1>1, <2>1, QuietKeeps
  <1>3. CASE Look(o)
    <2>1. PICK found \in Findings(o) :
            co' = [pc |-> "looked", op |-> o, token |-> lane.token, seen |-> op[o], found |-> found]
      BY <1>3 DEF Look
    <2>2. /\ op[o].phase # "absent"
          /\ UNCHANGED <<run, att, held, parked, lane, op, head, effects, main, side>>
      BY <1>3 DEF Look, ledgerVars, journalVars
    <2>3. op[o] \in OperationRow /\ op[o].ord # 0
      BY <2>2, RowTypes DEF OrdinalsAreMinted
    <2>4. op[o].ord \in Ordinals
      BY <2>3 DEF OperationRow
    <2>5. found \in Evidence \cup {"unavailable"} /\ (found = "result" => JournalHolds(o))
      BY <2>4, FindingsAreSeen
    <2>6. lane.token \in Nat
      BY DEF TypeOK
    <2>7. co' \in LookRow
      BY <2>1, <2>3, <2>5, <2>6 DEF LookRow
    <2>8. co'.seen.ord # 0 /\ (co'.found = "result" => co'.op \in Operations /\ JournalHolds(co'.op))
      BY <2>1, <2>3, <2>5
    <2>9. QED
      BY <1>0, <2>2, <2>7, <2>8, LaneRows, QuietKeeps
  <1>4. CASE CommitReconciliation(o)
    <2>1. LedgerInv
      BY DEF LedgerInv
    <2>2. Writes(o) \/ UNCHANGED op
      BY <1>4, <2>1, CoordinatorWrites
    <2>3. co' \in LookRow /\ co'.pc # "looked"
      BY <1>4, IdleRows DEF CommitReconciliation
    <2>4. UNCHANGED <<run, att, held, parked, lane, head, effects, main, side>>
      BY <1>4 DEF CommitReconciliation, journalVars
    <2>5. QED
      BY <1>0, <2>2, <2>3, <2>4, LaneRows, QuietKeeps
  <1>5. CASE ReleaseReconciled(o)
    <2>1. /\ LaneKeeps
          /\ UNCHANGED <<run, att, held, parked, op, head, effects, main, side>>
      BY <1>5, LaneRows DEF ReleaseReconciled, ReleaseLane, journalVars
    <2>2. co' = [co EXCEPT !.pc = "released"] \/ co' = NotLooking
      BY <1>5 DEF ReleaseReconciled
    <2>3. co' \in LookRow /\ co'.pc # "looked"
      BY <1>0, <2>2, IdleRows DEF LookRow
    <2>4. QED
      BY <1>0, <2>1, <2>3, QuietKeeps
  <1>6. CASE ResolveAttention(o)
    <2>1. /\ co' = NotLooking
          /\ UNCHANGED <<att, held, lane, op, head, effects, main, side>>
          /\ \/ UNCHANGED <<run, parked>>
             \/ /\ run' = [run EXCEPT ![o] = "resumable"]
                /\ parked' = [parked EXCEPT ![o] = "resolved"]
      BY <1>6 DEF ResolveAttention, journalVars
    <2>2. /\ run' \in [Operations -> RunState]
          /\ parked' \in [Operations -> {"no", "active", "resolved"}]
      BY <1>0, <2>1 DEF RunState
    <2>3. co' \in LookRow /\ co'.pc # "looked"
      BY <2>1, IdleRows
    <2>4. QED
      BY <1>0, <2>1, <2>2, <2>3, LaneRows, QuietKeeps
  <1>7. CASE CoordinatorCrash
    <2>1. /\ co' = NotLooking
          /\ UNCHANGED <<run, att, held, parked, lane, op, head, effects, main, side>>
      BY <1>7 DEF CoordinatorCrash, ledgerVars, journalVars
    <2>2. co' \in LookRow /\ co'.pc # "looked"
      BY <2>1, IdleRows
    <2>3. QED
      BY <1>0, <2>1, <2>2, LaneRows, QuietKeeps
  <1>8. QED
    BY <1>2, <1>3, <1>4, <1>5, <1>6, <1>7 DEF CoordinatorStep


\* The clock and the coordinator's death, were there no operation at all.
LEMMA NobodyKeeps ==
    ASSUME IInv, Operations = {}, CoordinatorCrash \/ LaneOverdue
    PROVE  IInv' /\ Final
  <1> USE DEF IInv
  <1>1. LaneKeeps /\ UNCHANGED <<run, att, held, parked, op, head, effects, main, side>>
    BY LaneRows DEF LaneOverdue, CoordinatorCrash, ledgerVars, journalVars
  <1>2. co' \in LookRow
    BY IdleRows DEF LaneOverdue, CoordinatorCrash, TypeOK
  <1>3. co'.pc = "looked" => UNCHANGED co
    BY IdleRows DEF LaneOverdue, CoordinatorCrash
  <1>4. TypeOK'
    BY <1>1, <1>2 DEF TypeOK, LaneKeeps
  <1>5. OrdinalsAreMinted' /\ ResultsAreJournaled'
    BY <1>3 DEF OrdinalsAreMinted, ResultsAreJournaled
  <1>6. TokensAreUnique'
    BY <1>1 DEF TokensAreUnique, LaneKeeps
  <1>7. JournalInv' /\ EffectsAreIntended' /\ ConclusionsSettle' /\ Final
    BY DEF JournalInv, FutureAttempts, SidecarsWait, HeadsHaveSessions, OneNewestSession,
       OneHeadPerSession, SupersededIsUndispatched, EffectsAreIntended, ConclusionsSettle, Final
  <1>8. QED
    BY <1>4, <1>5, <1>6, <1>7

\* The empty ledger, the empty journal and the lane before its first use.
LEMMA InitKeeps == Init => IInv
  <1> SUFFICES ASSUME Init PROVE IInv
    OBVIOUS
  <1>1. NoRow \in OperationRow /\ NotStarted \in MainRow /\ Idle \in SideRow /\ NotLooking \in LookRow
    BY IdleRows DEF NoRow, OperationRow, Evidence, NotStarted, MainRow, MainLabel, Idle, SideRow, Age
  <1>2. [phase |-> "none", gen |-> "none"] \in HeadRow
    BY DEF HeadRow, Age
  <1>3. TypeOK
    <2>1. run \in [Operations -> RunState] /\ att \in [Operations -> 0..MaxAttempts]
          /\ held \in [Operations -> BOOLEAN] /\ parked \in [Operations -> {"no", "active", "resolved"}]
      BY MaxAttemptsPositive DEF Init, RunState
    <2>2. lane \in [open : BOOLEAN, overdue : BOOLEAN, token : Nat, op : Operations \cup {NoOperation}]
      BY DEF Init
    <2>3. op \in [Operations -> OperationRow] /\ effects \in [Operations -> Nat] /\ co \in LookRow
      BY <1>1 DEF Init
    <2>4. /\ head \in [Operations -> [Ordinals -> HeadRow]]
          /\ main \in [Operations -> [Attempts -> MainRow]]
          /\ side \in [Operations -> [Attempts -> SideRow]]
      BY <1>1, <1>2 DEF Init
    <2>5. QED
      BY <2>1, <2>2, <2>3, <2>4 DEF TypeOK
  <1>4. /\ \A o \in Operations : op[o] = NoRow /\ effects[o] = 0
        /\ \A o \in Operations, n \in Ordinals : head[o][n] = [phase |-> "none", gen |-> "none"]
        /\ \A o \in Operations, a \in Attempts : main[o][a] = NotStarted /\ side[o][a] = Idle
        /\ lane = [open |-> FALSE, overdue |-> FALSE, token |-> 0, op |-> NoOperation]
        /\ co.pc = "idle"
    BY IdleRows DEF Init
  <1>5. OrdinalsAreMinted
    <2>1. \A o \in Operations : op[o].ord = 0 /\ op[o].by = 0 /\ op[o].phase = "absent"
      BY <1>4 DEF NoRow
    <2>2. \A o \in Operations, a \in Attempts :
              main[o][a].pc = "none" /\ main[o][a].ord = 0 /\ side[o][a].ord = 0
      BY <1>4 DEF NotStarted, Idle
    <2>3. QED
      BY <1>4, <2>1, <2>2 DEF OrdinalsAreMinted, BeforeRead
  <1>6. JournalInv
    BY <1>4 DEF JournalInv, FutureAttempts, SidecarsWait, HeadsHaveSessions, OneNewestSession,
       OneHeadPerSession, SupersededIsUndispatched, NotStarted, Idle
  <1>7. EffectsAreIntended
    BY <1>4 DEF EffectsAreIntended, Idle
  <1>8. ResultsAreJournaled
    <2>1. \A o \in Operations : op[o].concl = "none" /\ op[o].phase = "absent" /\ ~JournalHolds(o)
      BY <1>4 DEF NoRow, JournalHolds
    <2>2. \A o \in Operations, a \in Attempts : main[o][a].pc = "none" /\ side[o][a].st = "off"
      BY <1>4 DEF NotStarted, Idle
    <2>3. QED
      BY <1>4, <2>1, <2>2 DEF ResultsAreJournaled
  <1>9. ConclusionsSettle
    BY <1>4 DEF ConclusionsSettle, NoRow, RecordFits, Conclusive
  <1>10. TokensAreUnique
    BY <1>4 DEF TokensAreUnique, NotStarted
  <1>11. QED
    BY <1>3, <1>5, <1>6, <1>7, <1>8, <1>9, <1>10 DEF IInv

\* Every step keeps the invariant and the conclusions.
LEMMA NextKeeps == IInv /\ [Next]_vars => IInv' /\ Final
  <1> SUFFICES ASSUME IInv, [Next]_vars PROVE IInv' /\ Final
    OBVIOUS
  <1>1. CASE LaneOverdue \/ CoordinatorCrash
    <2>1. CASE Operations = {}
      BY <1>1, <2>1, NobodyKeeps
    <2>2. CASE Operations # {}
      <3>1. PICK o \in Operations : TRUE
        BY <2>2
      <3>2. QED
        BY <1>1, CoordinatorKeeps
    <2>3. QED
      BY <2>1, <2>2
  <1>2. ASSUME NEW o \in Operations, RunStep(o)
        PROVE  IInv' /\ Final
    BY <1>2, RunKeeps
  <1>3. ASSUME NEW o \in Operations, CoordinatorStep(o)
        PROVE  IInv' /\ Final
    BY <1>3, CoordinatorKeeps
  <1>4. ASSUME NEW o \in Operations, NEW a \in Attempts,
               MainStep(o, a) \/ Crash(o, a) \/ SideExits(o, a)
        PROVE  IInv' /\ Final
    BY <1>4, AttemptKeeps
  <1>5. ASSUME NEW o \in Operations, NEW a \in Attempts, SideStep(o, a)
        PROVE  IInv' /\ Final
    BY <1>5, SideKeeps
  <1>6. CASE UNCHANGED vars
    <2>1. UNCHANGED <<run, att, held, parked, lane, op, head, effects, main, side, co>>
      BY <1>6 DEF vars, ledgerVars, journalVars
    <2>2. TypeOK' /\ OrdinalsAreMinted' /\ ConclusionsSettle' /\ TokensAreUnique'
      BY <2>1 DEF IInv, TypeOK, OrdinalsAreMinted, ConclusionsSettle, TokensAreUnique
    <2>3. JournalInv'
      BY <2>1 DEF IInv, JournalInv, FutureAttempts, SidecarsWait, HeadsHaveSessions,
         OneNewestSession, OneHeadPerSession, SupersededIsUndispatched
    <2>4. EffectsAreIntended' /\ ResultsAreJournaled'
      BY <2>1 DEF IInv, EffectsAreIntended, ResultsAreJournaled, JournalHolds
    <2>5. Final
      BY <2>1 DEF IInv, Final, ConclusionsSettle
    <2>6. QED
      BY <2>2, <2>3, <2>4, <2>5 DEF IInv
  <1>7. QED
    BY <1>1, <1>2, <1>3, <1>4, <1>5, <1>6 DEF Next

\* The invariant of all that follows.
LEMMA Inductive == Spec => []IInv
  BY InitKeeps, NextKeeps, PTL DEF Spec

-----------------------------------------------------------------------------
(* Theorems.                                                               *)

\* Every variable keeps its type, and no authorization ordinal exceeds the number
\* of attempts (mint_current_safe_retry_dispatch_epoch).
THEOREM Typed == Spec => []TypeOK
  <1>1. IInv => TypeOK
    BY DEF IInv
  <1>2. QED
    BY <1>1, Inductive, PTL

\* The browser is driven at most once for an operation, whatever number of workers,
\* sidecars and operations there are and however they die.
THEOREM DispatchedOnce == Spec => []AtMostOneEffect
  <1>1. IInv => AtMostOneEffect
    BY DEF IInv, EffectsAreIntended, AtMostOneEffect
  <1>2. QED
    BY <1>1, Inductive, PTL

\* Behind a dispatch intent the journal admits no later authorization.
THEOREM IntentIsTheLast == Spec => []OneDispatchIntent
  <1>1. IInv => OneDispatchIntent
    <2> SUFFICES ASSUME IInv, NEW o \in Operations, NEW n \in Ordinals, NEW k \in Ordinals,
                        head[o][n].phase \in {"intent", "observed"}, head[o][k].phase # "none"
                 PROVE  k <= n
      BY DEF OneDispatchIntent
    <2>1. ASSUME n < k PROVE FALSE
      <3>1. head[o][n] = [phase |-> "accepted", gen |-> "old"]
        BY <2>1 DEF IInv, JournalInv, SupersededIsUndispatched
      <3>2. QED
        BY <3>1
    <2>2. QED
      BY <2>1, MaxAttemptsPositive DEF Ordinals
  <1>2. QED
    BY <1>1, Inductive, PTL

\* What main calls a result is in the journal and was produced by the browser, and
\* nothing is observed without a conclusion.
THEOREM ResultsComeFromTheJournal == Spec => []ObservedIsJournaled
  <1>1. IInv => ObservedIsJournaled
    BY DEF IInv, ResultsAreJournaled, JournalHolds, ObservedIsJournaled
  <1>2. QED
    BY <1>1, Inductive, PTL

\* Of an orphaned operation whose result is in the journal the reconciliation row
\* already is the evidence that frees the lane, or run_once reads the journal and
\* commit_no_owner_source_reconciliation refuses nothing of what it found.
THEOREM OrphansCanBeConcluded == Spec => []OrphanCanBeConcluded
  <1>1. IInv => OrphanCanBeConcluded
    <2> SUFFICES ASSUME IInv, NEW o \in Operations,
                        lane.open, lane.overdue, lane.op = o, Orphaned(o),
                        op[o].concl = "none", ~LaneEvidence(o)
                 PROVE  /\ op[o].rec \in {"none", "unresolved"}
                        /\ TransitionAllowed(op[o], "result")
                        /\ co.pc = "looked" /\ co.op = o /\ co.token = lane.token
                           => run[o] = "resumable" \/ LaneMatches(o)
      BY DEF OrphanCanBeConcluded
    <2>1. RecordFits(op[o]) /\ op[o] \in OperationRow
      BY RowTypes DEF IInv, ConclusionsSettle
    <2>2. op[o].rec \notin NoDispatchProved
      BY DEF LaneEvidence
    <2>3. op[o].rec \notin Conclusive
      BY <2>1 DEF RecordFits, Conclusive
    <2>4. op[o].rec \in {"none", "unresolved"}
      BY <2>1, <2>2, <2>3 DEF OperationRow, Evidence, NoDispatchProved, Conclusive
    <2>5. TransitionAllowed(op[o], "result")
      BY <2>1, <2>2 DEF RecordFits, TransitionAllowed, NoDispatchProved
    <2>6. run[o] \in {"resumable", "attention", "failed"}
      BY DEF Orphaned
    <2>7. QED
      BY <2>4, <2>5, <2>6 DEF LaneMatches
  <1>2. QED
    BY <1>1, Inductive, PTL

\* Nobody replaces a conclusion or authorizes a concluded operation again.
THEOREM ConclusionsAreFinal == Spec => ConclusionIsFinal
  <1>1. IInv /\ [Next]_vars => Final
    BY NextKeeps
  <1>2. Final =>
          \A o \in Operations :
              op[o].concl # "none" =>
                  /\ op'[o].concl = op[o].concl /\ op'[o].ord = op[o].ord
                  /\ op'[o].posture = "no_retry"
                  /\ op[o].phase = "committed" => op'[o].phase = "committed"
    BY DEF Final
  <1>3. QED
    BY <1>1, <1>2, Inductive, PTL DEF Spec, ConclusionIsFinal

\* A lane in time is released by its holder, whose token nobody shares and whose
\* sidecar is closed, or for an operation main has the result of.
THEOREM LiveLanesAreHeld == Spec => LiveLaneBelongsToHolder
  <1> DEFINE Held ==
        lane.open /\ ~lane.overdue /\ ~lane'.open =>
          \/ \E a \in Attempts :
                /\ main[lane.op][a].pc = "exit" /\ main[lane.op][a].token = lane.token
                /\ side[lane.op][a].st = "off"
          \/ op[lane.op].phase \in {"observed", "committed"}
  <1>1. IInv /\ [Next]_vars => Held
    <2> SUFFICES ASSUME IInv, [Next]_vars, lane.open, ~lane.overdue, ~lane'.open
                 PROVE  \/ \E a \in Attempts :
                              /\ main[lane.op][a].pc = "exit" /\ main[lane.op][a].token = lane.token
                              /\ side[lane.op][a].st = "off"
                        \/ op[lane.op].phase \in {"observed", "committed"}
      OBVIOUS
    <2>1. lane' # lane
      OBVIOUS
    <2>2. ASSUME NEW o \in Operations, NEW a \in Attempts, MainStep(o, a)
          PROVE  ExitLane(o, a) \/ ExitWithoutLane(o, a)
      <3>1. ~(Begin(o, a) \/ LaneBusy(o, a) \/ ReadContext(o, a) \/ Send(o, a) \/ Receive(o, a)
              \/ NoAnswer(o, a) \/ Query(o, a) \/ Replay(o, a) \/ ReplayEnds(o, a)
              \/ CloseSidecar(o, a) \/ HeartbeatLost(o, a))
        BY <2>1 DEF Begin, LaneBusy, ReadContext, Send, Receive, NoAnswer, Query, Replay,
           ReplayEnds, CloseSidecar, HeartbeatLost, ledgerVars
      <3>2. ~(Accept(o, a) \/ Mint(o, a) \/ Ack(o, a) \/ RecordUnknown(o, a) \/ Observe(o, a)
              \/ Commit(o, a) \/ RunEnds(o, a) \/ AcquireLane(o, a))
        BY <2>1 DEF Accept, Mint, Ack, RecordUnknown, Observe, Commit, RunEnds, AcquireLane
      <3>3. QED
        BY <2>2, <3>1, <3>2 DEF MainStep
    <2>3. ASSUME NEW o \in Operations, NEW a \in Attempts, SideStep(o, a) \/ SideExits(o, a) \/ Crash(o, a)
          PROVE  FALSE
      BY <2>1, <2>3 DEF SideStep, StartGeneration, AcceptCommand, ReplayCommand, SendAck,
         RecordIntent, PerformEffect, RecordObservation, SideExits, Crash, ledgerVars
    <2>4. ASSUME NEW o \in Operations, RunStep(o) \/ CoordinatorStep(o)
          PROVE  FALSE
      BY <2>1, <2>4 DEF RunStep, Claim, RequestStop, Resume, Settle, CoordinatorStep, Project, Look,
         CommitReconciliation, ReleaseReconciled, ResolveAttention, ledgerVars
    <2>5. ~LaneOverdue /\ ~CoordinatorCrash /\ ~UNCHANGED vars
      <3>1. ~LaneOverdue
        BY DEF LaneOverdue, IInv, TypeOK
      <3>2. QED
        BY <2>1, <3>1 DEF CoordinatorCrash, vars, ledgerVars
    <2>6. PICK o \in Operations, a \in Attempts : ExitLane(o, a) \/ ExitWithoutLane(o, a)
      BY <2>2, <2>3, <2>4, <2>5 DEF Next
    <2>7. CASE ExitLane(o, a)
      <3>1. main[o][a].pc = "exit" /\ main[o][a].token # 0 /\ main[o][a].token = lane.token
        BY <2>1, <2>7 DEF ExitLane, HoldsLane
      <3>2. lane.op = o /\ side[o][a].st = "off"
        BY <3>1 DEF IInv, TokensAreUnique
      <3>3. QED
        BY <3>1, <3>2
    <2>8. CASE ExitWithoutLane(o, a)
      BY <2>1, <2>8 DEF ExitWithoutLane
    <2>9. QED
      BY <2>6, <2>7, <2>8
  <1>2. Held => (lane.open /\ ~lane.overdue /\ ~lane'.open =>
          \/ \E a \in Attempts :
                /\ main[lane.op][a].pc = "exit" /\ main[lane.op][a].token = lane.token
                /\ side[lane.op][a].st = "off"
          \/ op[lane.op].phase \in {"observed", "committed"})
    OBVIOUS
  <1> HIDE DEF Held
  <1>3. QED
    BY <1>1, <1>2, Inductive, PTL DEF Spec, LiveLaneBelongsToHolder

-----------------------------------------------------------------------------
(* The promise of an operation, whatever database and process it is of.    *)

AbstractStep == [Dispatch!DispatchNext]_(Dispatch!dispatchVars)

\* The mapped variables, one operation at a time.
LEMMA Mapped ==
    ASSUME TypeOK, TypeOK'
    PROVE  /\ effects = [o \in Operations |-> effects[o]]
           /\ effects' = [o \in Operations |-> effects'[o]]
           /\ OrdinalOf' = [o \in Operations |-> op'[o].ord]
           /\ ResultKept' = [o \in Operations |-> \E n \in Ordinals : head'[o][n].phase = "observed"]
           /\ ConclusionOf' = [o \in Operations |-> op'[o].concl]
           /\ IsCommitted' = [o \in Operations |-> op'[o].phase = "committed"]
  BY DEF TypeOK, OrdinalOf, ResultKept, ConclusionOf, IsCommitted, JournalHolds

\* A transaction of main's ledger authorizes, judges, commits, or is not seen
\* (accept_source_operation, mint_current_safe_retry_dispatch_epoch,
\* record_owned_source_operation_observation, commit_no_owner_source_reconciliation,
\* _commit_source_operations_with_ref).
LEMMA WriteImplements ==
    ASSUME IInv, IInv', NEW o \in Operations, Writes(o) \/ UNCHANGED op,
           UNCHANGED <<head, effects>>
    PROVE  AbstractStep
  <1>1. TypeOK /\ TypeOK'
    BY DEF IInv
  <1>2. UNCHANGED <<effects, ResultKept>>
    BY <1>1, Mapped DEF ResultKept, JournalHolds
  <1>3. CASE UNCHANGED op
    <2>1. UNCHANGED <<OrdinalOf, ConclusionOf, IsCommitted>>
      BY <1>1, <1>3, Mapped DEF OrdinalOf, ConclusionOf, IsCommitted
    <2>2. QED
      BY <1>2, <2>1 DEF AbstractStep, Dispatch!dispatchVars
  <1>4. CASE Writes(o)
    <2>1. PICK row \in OperationRow : Write(o, row) /\ GoodRow(o, row)
      BY <1>4 DEF Writes
    <2>2. /\ op'[o] = row
          /\ \A p \in Operations : p # o => op'[p] = op[p]
      BY <1>1, <2>1, WriteEffect
    <2>3. /\ op[o] \in OperationRow
          /\ op[o].phase \in {"observed", "committed"} => op[o].concl # "none"
          /\ row.phase \in {"observed", "committed"} => row.concl # "none"
          /\ row.concl = "result" => JournalHolds(o)
          /\ op[o].concl # "none" /\ op[o].phase = "committed" => row.phase = "committed"
          /\ Advances(op[o], row)
      BY <1>1, <2>1, RowTypes DEF GoodRow, IInv, ResultsAreJournaled
    <2>4. /\ OrdinalOf' = [OrdinalOf EXCEPT ![o] = row.ord]
          /\ ConclusionOf' = [ConclusionOf EXCEPT ![o] = row.concl]
          /\ IsCommitted' = [IsCommitted EXCEPT ![o] = (row.phase = "committed")]
      BY <1>1, <2>2, Mapped DEF OrdinalOf, ConclusionOf, IsCommitted
    <2>5. /\ OrdinalOf[o] = op[o].ord /\ ConclusionOf[o] = op[o].concl
          /\ IsCommitted[o] = (op[o].phase = "committed") /\ ResultKept[o] = JournalHolds(o)
      BY DEF OrdinalOf, ConclusionOf, IsCommitted, ResultKept
    <2>6. /\ row.ord = OrdinalOf[o] => UNCHANGED OrdinalOf
          /\ row.concl = ConclusionOf[o] => UNCHANGED ConclusionOf
          /\ (row.phase = "committed") = IsCommitted[o] => UNCHANGED IsCommitted
      BY <2>4 DEF OrdinalOf, ConclusionOf, IsCommitted
    <2>7. CASE row.ord = op[o].ord + 1 /\ op[o].concl = "none" /\ row.concl = "none"
      <3>1. UNCHANGED <<ConclusionOf, IsCommitted>>
        BY <2>3, <2>5, <2>6, <2>7
      <3>2. OrdinalOf' = [OrdinalOf EXCEPT ![o] = @ + 1]
        BY <2>4, <2>5, <2>7
      <3>3. Dispatch!Authorized(o)
        BY <1>2, <2>5, <2>7, <3>1, <3>2 DEF Dispatch!Authorized
      <3>4. QED
        BY <3>3 DEF AbstractStep, Dispatch!DispatchNext
    <2>8. CASE /\ row.ord = op[o].ord /\ row.ord # 0
               /\ op[o].concl = "none" /\ row.concl # "none" /\ row.phase # "committed"
      <3>1. UNCHANGED <<OrdinalOf, IsCommitted>>
        BY <2>3, <2>5, <2>6, <2>8
      <3>2. row.concl \in {"result", "tabAbsent"} /\ row.ord \in Nat
        BY <2>8, MaxAttemptsPositive DEF OperationRow, Conclusive, Ordinals
      <3>3. OrdinalOf[o] > 0 /\ ConclusionOf[o] = "none"
        BY <2>5, <2>8, <3>2
      <3>4. row.concl = "result" => ResultKept[o]
        BY <2>3, <2>5
      <3>5. Dispatch!Judged(o)
        BY <1>2, <2>4, <3>1, <3>2, <3>3, <3>4 DEF Dispatch!Judged
      <3>6. QED
        BY <3>5 DEF AbstractStep, Dispatch!DispatchNext
    <2>9. CASE row.ord = op[o].ord /\ row.concl = op[o].concl
      <3>1. UNCHANGED <<OrdinalOf, ConclusionOf>>
        BY <2>5, <2>6, <2>9
      <3>2. CASE (row.phase = "committed") = (op[o].phase = "committed")
        <4>1. UNCHANGED IsCommitted
          BY <2>5, <2>6, <3>2
        <4>2. QED
          BY <1>2, <3>1, <4>1 DEF AbstractStep, Dispatch!dispatchVars
      <3>3. CASE (row.phase = "committed") # (op[o].phase = "committed")
        <4>1. row.phase = "committed" /\ op[o].phase # "committed" /\ op[o].concl # "none"
          BY <2>3, <2>9, <3>3
        <4>2. ConclusionOf[o] # "none" /\ ~IsCommitted[o]
          BY <2>5, <4>1
        <4>3. IsCommitted' = [IsCommitted EXCEPT ![o] = TRUE]
          BY <2>4, <4>1
        <4>4. Dispatch!Committed(o)
          BY <1>2, <3>1, <4>2, <4>3 DEF Dispatch!Committed
        <4>5. QED
          BY <4>4 DEF AbstractStep, Dispatch!DispatchNext
      <3>4. QED
        BY <3>2, <3>3
    <2>10. QED
      BY <2>3, <2>7, <2>8, <2>9 DEF Advances
  <1>5. QED
    BY <1>3, <1>4

\* A step of a sidecar drives the browser, keeps what it left, or is not seen
\* (_execute_cards, _record_terminal_observation).
LEMMA SideImplements ==
    ASSUME IInv, IInv', NEW o \in Operations, NEW a \in Attempts, SideStep(o, a)
    PROVE  AbstractStep
  <1>1. TypeOK /\ TypeOK' /\ side[o][a] \in SideRow
    BY RowTypes DEF IInv
  <1>2. UNCHANGED op
    BY DEF SideStep, StartGeneration, AcceptCommand, ReplayCommand, SendAck, RecordIntent,
       PerformEffect, RecordObservation, ledgerVars
  <1>3. UNCHANGED <<OrdinalOf, ConclusionOf, IsCommitted>>
    BY <1>1, <1>2, Mapped DEF OrdinalOf, ConclusionOf, IsCommitted
  <1>4. ResultKept = [p \in Operations |-> JournalHolds(p)]
    BY DEF ResultKept
  <1>5. CASE PerformEffect(o, a)
    <2>1. /\ side[o][a].st = "intent" /\ effects' = [effects EXCEPT ![o] = @ + 1]
          /\ UNCHANGED head
      BY <1>5 DEF PerformEffect
    <2>2. effects[o] = 0 /\ side[o][a].ord # 0
      BY <2>1 DEF IInv, EffectsAreIntended, JournalInv, SidecarsWait
    <2>3. OrdinalOf[o] > 0
      <3>1. op[o].ord # 0 /\ op[o] \in OperationRow
        BY <1>1, <2>2, RowTypes DEF IInv, OrdinalsAreMinted
      <3>2. op[o].ord \in Nat
        BY <3>1, MaxAttemptsPositive DEF OperationRow, Ordinals
      <3>3. QED
        BY <3>1, <3>2 DEF OrdinalOf
    <2>4. effects' = [effects EXCEPT ![o] = 1]
      BY <2>1, <2>2
    <2>5. UNCHANGED ResultKept
      BY <2>1 DEF ResultKept, JournalHolds
    <2>6. Dispatch!Driven(o)
      BY <1>3, <2>2, <2>3, <2>4, <2>5 DEF Dispatch!Driven
    <2>7. QED
      BY <2>6 DEF AbstractStep, Dispatch!DispatchNext
  <1>6. CASE RecordObservation(o, a)
    <2> DEFINE n == side[o][a].ord
    <2>1. /\ side[o][a].st = "effected" /\ UNCHANGED effects
          /\ Record(o, n, [head[o][n] EXCEPT !.phase = "observed"])
      BY <1>6 DEF RecordObservation
    <2>2. effects[o] = 1 /\ n \in Ordinals
      BY <1>1, <2>1 DEF IInv, EffectsAreIntended, JournalInv, SidecarsWait, SideRow
    <2> HIDE DEF n
    <2>3. /\ head'[o][n].phase = "observed"
          /\ \A p \in Operations, k \in Ordinals : p # o \/ k # n => head'[p][k] = head[p][k]
      BY <1>1, <2>1, <2>2, HeadPhase
    <2>4. /\ JournalHolds(o)'
          /\ \A p \in Operations : p # o => (JournalHolds(p)' <=> JournalHolds(p))
      BY <2>2, <2>3 DEF JournalHolds
    <2>5. ResultKept' = [ResultKept EXCEPT ![o] = TRUE]
      <3>1. ResultKept' = [p \in Operations |-> JournalHolds(p)']
        BY DEF ResultKept
      <3>2. \A p \in Operations : JournalHolds(p) \in BOOLEAN /\ JournalHolds(p)' \in BOOLEAN
        BY DEF JournalHolds
      <3>3. QED
        BY <1>4, <2>4, <3>1, <3>2
    <2>6. CASE JournalHolds(o)
      <3>1. UNCHANGED ResultKept
        BY <1>4, <2>5, <2>6
      <3>2. QED
        BY <1>3, <2>1, <3>1 DEF AbstractStep, Dispatch!dispatchVars
    <2>7. CASE ~JournalHolds(o)
      <3>1. ~ResultKept[o]
        BY <1>4, <2>7
      <3>2. Dispatch!Kept(o)
        BY <1>3, <2>1, <2>2, <2>5, <3>1 DEF Dispatch!Kept
      <3>3. QED
        BY <3>2 DEF AbstractStep, Dispatch!DispatchNext
    <2>8. QED
      BY <2>6, <2>7
  <1>7. ASSUME \/ StartGeneration(o, a) \/ AcceptCommand(o, a) \/ ReplayCommand(o, a)
               \/ SendAck(o, a) \/ RecordIntent(o, a)
        PROVE  AbstractStep
    <2>1. UNCHANGED effects
      BY <1>7 DEF StartGeneration, AcceptCommand, ReplayCommand, SendAck, RecordIntent, journalVars
    <2>2. \A p \in Operations, k \in Ordinals :
              head'[p][k].phase = "observed" <=> head[p][k].phase = "observed"
      <3>1. CASE StartGeneration(o, a)
        BY <1>1, <3>1, GenerationEffect
      <3>2. CASE AcceptCommand(o, a)
        <4> DEFINE n == side[o][a].ord
        <4> DEFINE h == [phase |-> "accepted", gen |-> "newest"]
        <4>1. n # 0 /\ head[o][n].phase = "none" /\ Record(o, n, h)
          BY <3>2 DEF AcceptCommand
        <4>2. n \in Ordinals
          BY <1>1, <4>1 DEF SideRow
        <4>3. h \in HeadRow /\ h.phase = "accepted"
          BY DEF HeadRow, Age
        <4> HIDE DEF h, n
        <4>4. /\ head'[o][n].phase = "accepted"
              /\ \A p \in Operations, k \in Ordinals : p # o \/ k # n => head'[p][k] = head[p][k]
          BY <1>1, <4>1, <4>2, <4>3, HeadEffect
        <4>5. QED
          BY <4>1, <4>4
      <3>3. CASE RecordIntent(o, a)
        <4> DEFINE n == side[o][a].ord
        <4>1. /\ head[o][n].phase = "accepted" /\ side[o][a].st = "acked"
              /\ Record(o, n, [head[o][n] EXCEPT !.phase = "intent"])
          BY <3>3 DEF RecordIntent, HeadIs
        <4>2. n \in Ordinals
          BY <1>1, <4>1 DEF IInv, JournalInv, SidecarsWait, SideRow
        <4> HIDE DEF n
        <4>3. /\ head'[o][n].phase = "intent"
              /\ \A p \in Operations, k \in Ordinals : p # o \/ k # n => head'[p][k] = head[p][k]
          BY <1>1, <4>1, <4>2, HeadPhase
        <4>4. QED
          BY <4>1, <4>3
      <3>4. CASE ReplayCommand(o, a) \/ SendAck(o, a)
        BY <3>4 DEF ReplayCommand, SendAck, journalVars
      <3>5. QED
        BY <1>7, <3>1, <3>2, <3>3, <3>4
    <2>3. \A p \in Operations : JournalHolds(p)' <=> JournalHolds(p)
      BY <2>2 DEF JournalHolds
    <2>4. UNCHANGED ResultKept
      <3>1. ResultKept' = [p \in Operations |-> JournalHolds(p)']
        BY DEF ResultKept
      <3>2. \A p \in Operations : JournalHolds(p) \in BOOLEAN /\ JournalHolds(p)' \in BOOLEAN
        BY DEF JournalHolds
      <3>3. QED
        BY <1>4, <2>3, <3>1, <3>2
    <2>5. QED
      BY <1>3, <2>1, <2>4 DEF AbstractStep, Dispatch!dispatchVars
  <1>8. QED
    BY <1>5, <1>6, <1>7 DEF SideStep

\* What neither the ledger nor the journal sees, the promise does not.
LEMMA UnseenImplements ==
    ASSUME UNCHANGED <<op, head, effects>>
    PROVE  AbstractStep
  <1>1. UNCHANGED <<OrdinalOf, ConclusionOf, IsCommitted, ResultKept>>
    BY DEF OrdinalOf, ConclusionOf, IsCommitted, ResultKept, JournalHolds
  <1>2. QED
    BY <1>1 DEF AbstractStep, Dispatch!dispatchVars

\* Whoever takes the step: the run, the executor, its sidecar, the coordinator, the
\* clock or a death.
LEMMA StepImplements == IInv /\ [Next]_vars => AbstractStep
  <1> SUFFICES ASSUME IInv, [Next]_vars PROVE AbstractStep
    OBVIOUS
  <1>1. IInv'
    BY NextKeeps
  <1>2. CASE LaneOverdue \/ CoordinatorCrash \/ UNCHANGED vars
    <2>1. UNCHANGED <<op, head, effects>>
      BY <1>2 DEF LaneOverdue, CoordinatorCrash, vars, ledgerVars, journalVars
    <2>2. QED
      BY <2>1, UnseenImplements
  <1>3. ASSUME NEW o \in Operations, RunStep(o)
        PROVE  AbstractStep
    <2>1. UNCHANGED <<op, head, effects>>
      BY <1>3 DEF RunStep, Claim, RequestStop, Resume, Settle, journalVars
    <2>2. QED
      BY <2>1, UnseenImplements
  <1>4. ASSUME NEW o \in Operations, CoordinatorStep(o)
        PROVE  AbstractStep
    <2>1. CASE CommitReconciliation(o)
      <3>1. UNCHANGED <<head, effects>>
        BY <2>1 DEF CommitReconciliation, journalVars
      <3>2. LedgerInv
        BY DEF IInv, LedgerInv
      <3>3. QED
        BY <1>1, <2>1, <3>1, <3>2, CoordinatorWrites, WriteImplements
    <2>2. CASE Project(o) \/ Look(o) \/ ReleaseReconciled(o) \/ ResolveAttention(o)
      <3>1. UNCHANGED <<op, head, effects>>
        BY <2>2 DEF Project, Look, ReleaseReconciled, ResolveAttention, ledgerVars, journalVars
      <3>2. QED
        BY <3>1, UnseenImplements
    <2>3. QED
      BY <1>4, <2>1, <2>2 DEF CoordinatorStep
  <1>5. ASSUME NEW o \in Operations, NEW a \in Attempts,
               MainStep(o, a) \/ Crash(o, a) \/ SideExits(o, a)
        PROVE  AbstractStep
    <2>1. UNCHANGED <<head, effects>>
      BY <1>5, StepsKeep DEF IInv
    <2>2. LedgerInv
      BY DEF IInv, LedgerInv
    <2>3. Writes(o) \/ UNCHANGED op
      BY <1>5, <2>2, StepsWrite DEF SideExits, ledgerVars
    <2>4. QED
      BY <1>1, <2>1, <2>3, WriteImplements
  <1>6. ASSUME NEW o \in Operations, NEW a \in Attempts, SideStep(o, a)
        PROVE  AbstractStep
    BY <1>1, <1>6, SideImplements
  <1>7. QED
    BY <1>2, <1>3, <1>4, <1>5, <1>6 DEF Next

\* Nothing is authorized, driven, kept, judged or committed at the start.
LEMMA InitImplements == Init => Dispatch!DispatchInit
  <1> SUFFICES ASSUME Init PROVE Dispatch!DispatchInit
    OBVIOUS
  <1>1. /\ \A o \in Operations : op[o] = NoRow
        /\ \A o \in Operations, n \in Ordinals : head[o][n].phase = "none"
        /\ effects = [o \in Operations |-> 0]
    BY DEF Init
  <1>2. \A o \in Operations : op[o].ord = 0 /\ op[o].concl = "none" /\ op[o].phase = "absent"
    BY <1>1 DEF NoRow
  <1>3. \A o \in Operations : JournalHolds(o) = FALSE
    BY <1>1 DEF JournalHolds
  <1>4. QED
    BY <1>1, <1>2, <1>3
    DEF Dispatch!DispatchInit, OrdinalOf, ResultKept, ConclusionOf, IsCommitted

\* However the ledger, the journal, the lane and their processes race and die, an
\* operation is what DispatchOnce says of it: driven for an authorization and once,
\* with one verdict, a result only of what that drive left (accept_source_operation,
\* record_dispatch_intent, record_owned_source_operation_observation,
\* commit_no_owner_source_reconciliation).
THEOREM DispatchIsOnce == Spec => ImplementsDispatchOnce
  <1>1. IInv /\ [Next]_vars => [Dispatch!DispatchNext]_(Dispatch!dispatchVars)
    BY StepImplements DEF AbstractStep
  <1>2. QED
    BY <1>1, InitImplements, Inductive, PTL
    DEF Spec, ImplementsDispatchOnce, Dispatch!DispatchSpec

=============================================================================
