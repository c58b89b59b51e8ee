--------------------- MODULE RequirementAmendmentProofs ---------------------
(***************************************************************************)
(* The requirements a round is searched under, for any number of           *)
(* amendments, rounds and execution attempts and one reviewer (two could   *)
(* resolve the same row: store.py:3629 has no condition on its status).    *)
(***************************************************************************)
EXTENDS RequirementAmendment, FiniteSetTheorems, TLAPS

AtMostOneReviewer == \A v, w \in Reviewers : v = w

\* Rows that were taken over into the chain of revisions, and those that a
\* revision may contain.
Accepted == {a \in Amendments : status[a] \in {"pending", "superseded", "applied"}}
Done == {a \in Amendments : status[a] \in {"superseded", "applied"}}
AllPending == {a \in Amendments : status[a] = "pending"}

\* No row is waiting for round k or an earlier one.
Settled(k) == \A a \in AllPending \cup Unsettled : target[a] > k

-----------------------------------------------------------------------------
(* The invariant.                                                          *)

\* Rounds are locked one after the other, and rows wait for the next unlocked
\* round or for the one that is being entered.
Rows ==
    /\ ckpt.done \in 0 .. MaxRounds
    /\ locked \in {1 .. ckpt.done, 1 .. (ckpt.done + 1)}
    /\ \A a \in Amendments : status[a] # "absent" =>
           target[a] \in Nat \ {0} /\ target[a] - 1 \in locked \cup {0}
    /\ Settled(ckpt.done)

\* One row at a time is neither settled nor absent, and it builds on all others.
Submissions ==
    /\ \A a, b \in Unsettled : a = b
    /\ \A a \in extractions : status[a] = "extracting"
    /\ \A v \in Reviewers : review[v].row # 0 =>
           /\ status[review[v].row] = "needs_review"
           /\ review[v].base = base[review[v].row]
           /\ review[v].after = target[review[v].row] - 1
    /\ \A a \in Unsettled :
           /\ base[a] = Accepted
           /\ \A b \in Accepted : target[b] <= target[a]
           /\ \A b \in Accepted : target[b] = target[a] =>
                 \E p \in AllPending : target[p] = target[a]

\* The chain of revisions: a pending row names all changes up to its round, the
\* run's revision those before the first pending row, and a round that is not
\* locked keeps the row that superseded the others.
Chain ==
    /\ \A a, b \in AllPending : target[a] = target[b] => a = b
    /\ \A p \in AllPending : result[p] = {b \in Accepted : target[b] <= target[p]}
    /\ run.revision = {b \in Accepted : \A p \in AllPending : target[b] < target[p]}
    /\ \A b \in Accepted : target[b] \notin locked =>
           \E p \in AllPending : target[p] = target[b]

\* The latest checkpoint.
Saved ==
    /\ ckpt.names \subseteq Done
    /\ ckpt.boundary \in {"before", "after"} /\ ~renamed => ckpt.names = ckpt.under
    /\ barrier => /\ ckpt.boundary = "before" /\ ckpt.done + 1 \in locked
                  /\ Settled(ckpt.done + 1)
                  /\ ckpt.names = run.revision

\* The attempt that holds the lease, by where it is.
Entering == {"waiting", "project", "checkpoint", "round"}

Holder(e) ==
    /\ approved[e] = run.revision /\ projected[e] \subseteq Done
    /\ pc[e] \in Entering \cup {"boundary"} => at[e] = ckpt.done + 1 /\ at[e] <= MaxRounds
    /\ pc[e] \in Entering => at[e] \in locked
    /\ pc[e] \in {"boundary", "waiting", "project", "checkpoint", "stopping"} => ~barrier
    /\ pc[e] = "starting" =>
          IF ckpt.boundary = "none"
          THEN projected[e] = run.revision /\ under[e] = run.revision
          ELSE projected[e] = ckpt.names /\ under[e] = ckpt.under
    /\ pc[e] \in {"boundary", "waiting", "project"} /\ ~renamed => under[e] = projected[e]
    /\ pc[e] = "project" =>
          /\ \A a \in Unsettled : target[a] > at[e]
          /\ \A a \in AllPending : target[a] > at[e] \/ a = taken[e]
          /\ taken[e] = 0 => chosen[e] = run.revision
          /\ taken[e] # 0 => /\ status[taken[e]] = "pending" /\ target[taken[e]] = at[e]
                             /\ chosen[e] = result[taken[e]]
    /\ pc[e] \in {"checkpoint", "round"} =>
          /\ Settled(at[e]) /\ projected[e] = run.revision
          /\ ~renamed => under[e] = run.revision
    /\ pc[e] = "round" => ckpt.boundary = "before" /\ ckpt.names = run.revision

Holders == \A e \in Executors : Holds(e) => Holder(e)

IInv == AtMostOneReviewer /\ TypeOK /\ Rows /\ Submissions /\ Chain /\ Saved /\ Holders

-----------------------------------------------------------------------------
(* Rounds and rows.                                                        *)

\* Every amendment is put in the same round, whatever round its submitter read.
LEMMA NextRound ==
    ASSUME TypeOK, Rows, NEW after \in locked \cup {0}
    PROVE  /\ NextUnlocked(after) \in 1 .. (MaxRounds + 1)
           /\ NextUnlocked(after) \notin locked
           /\ NextUnlocked(after) - 1 \in locked \cup {0}
           /\ NextUnlocked(after) > ckpt.done
           /\ \A k \in locked : k < NextUnlocked(after)
           /\ \A a \in Amendments : status[a] # "absent" => target[a] <= NextUnlocked(after)
  <1>1. /\ MaxRounds \in Nat /\ ckpt.done \in 0 .. MaxRounds /\ locked \subseteq 1 .. MaxRounds
        /\ locked = 1 .. ckpt.done \/ locked = 1 .. (ckpt.done + 1)
    BY BoundsAssumption DEF TypeOK, Rows, Rounds
  <1>2. PICK n \in 0 .. MaxRounds : locked = 1 .. n /\ ckpt.done <= n
    <2>1. CASE locked = 1 .. ckpt.done
      BY <1>1, <2>1
    <2>2. CASE locked = 1 .. (ckpt.done + 1)
      <3>1. ckpt.done + 1 \in locked
        BY <1>1, <2>2
      <3>2. ckpt.done + 1 \in 0 .. MaxRounds
        BY <1>1, <3>1
      <3>3. QED
        BY <1>1, <2>2, <3>2
    <2>3. QED
      BY <1>1, <2>1, <2>2
  <1>3. after \in 0 .. n
    BY <1>1, <1>2
  <1> DEFINE free == {r \in (after + 1) .. (MaxRounds + 1) : r \notin locked}
  <1>4. n + 1 \in free /\ \A r \in free : n + 1 <= r
    BY <1>1, <1>2, <1>3
  <1>5. \A m \in free : (\A r \in free : m <= r) => m = n + 1
    BY <1>1, <1>2, <1>3, <1>4
  <1> HIDE DEF free
  <1>6. NextUnlocked(after) = n + 1
    <2>1. NextUnlocked(after) = CHOOSE m \in free : \A r \in free : m =< r
      BY DEF NextUnlocked, Min, free
    <2>2. QED
      BY <1>4, <1>5, <2>1
  <1>7. ASSUME NEW a \in Amendments, status[a] # "absent" PROVE target[a] <= n + 1
    <2>1. target[a] \in Nat /\ target[a] - 1 \in locked \cup {0}
      BY <1>7 DEF Rows
    <2>2. QED
      BY <1>2, <2>1
  <1>8. QED
    BY <1>1, <1>2, <1>6, <1>7

-----------------------------------------------------------------------------
(* The user's side.                                                        *)

\* The unsettled row a joins the chain in round t.
LEMMA Joins ==
    ASSUME TypeOK, Rows, Submissions, Chain,
           NEW a \in Unsettled, NEW t \in 1 .. (MaxRounds + 1),
           t >= target[a], t - 1 \in locked \cup {0}, t > ckpt.done,
           \A b \in Accepted : target[b] <= t,
           t \notin locked \/ t = target[a],
           BecomesPending(a, base[a], t), UNCHANGED <<run, locked, ckpt>>
    PROVE  /\ Rows' /\ Chain' /\ Unsettled' = {} /\ Done \subseteq Done'
           /\ \A k \in Nat : Settled(k) => Settled(k)'
           /\ AllPending' = {p \in AllPending : target[p] # t} \cup {a}
           /\ \A p \in Amendments \ {a} : target'[p] = target[p] /\ result'[p] = result[p]
           /\ status' \in [Amendments -> {"absent", "extracting", "needs_review", "pending",
                                          "superseded", "applied", "failed"}]
           /\ target' \in [Amendments -> Targets] /\ result' \in [Amendments -> Revisions]
  <1> DEFINE old == {p \in AllPending : target[p] = t}
  <1>1. /\ a \in Amendments /\ status[a] \in {"extracting", "needs_review"}
        /\ base[a] = Accepted /\ MaxRounds \in Nat /\ ckpt.done \in Nat
        /\ \A b \in Amendments : target[b] \in Nat
    BY BoundsAssumption DEF TypeOK, Submissions, Unsettled, Targets, Rows
  <1>2. SupersededBy(a, base[a], t) = old
    <2>1. \A p \in old : result[p] = Accepted
      <3> SUFFICES ASSUME NEW p \in old PROVE result[p] = Accepted
        OBVIOUS
      <3>1. result[p] = {b \in Accepted : target[b] <= t}
        BY DEF Chain
      <3>2. QED
        BY <3>1
    <2>2. old = {p \in Amendments \ {a} : status[p] = "pending" /\ target[p] = t /\ result[p] = base[a]}
      BY <1>1, <2>1 DEF AllPending
    <2>3. \A p, q \in old : p = q /\ p <= p
      BY DEF Chain, AllPending, Amendments
    <2> HIDE DEF old
    <2>4. {p \in old : \A q \in old : q <= p} = old
      BY <2>3
    <2>5. QED
      BY <2>2, <2>4 DEF SupersededBy
  <1>3. /\ status'[a] = "pending" /\ target'[a] = t /\ result'[a] = Accepted \cup {a}
        /\ \A p \in Amendments \ {a} : target'[p] = target[p] /\ result'[p] = result[p]
        /\ \A p \in Amendments \ {a} : status'[p] = IF p \in old THEN "superseded" ELSE status[p]
    BY <1>1, <1>2 DEF BecomesPending, TypeOK
  <1>4. AllPending' = (AllPending \ old) \cup {a} /\ a \notin AllPending
    BY <1>1, <1>3 DEF AllPending
  <1>5. Accepted' = Accepted \cup {a} /\ a \notin Accepted
    BY <1>1, <1>3 DEF AllPending, Accepted
  <1>6. Done \subseteq Done'
    BY <1>1, <1>3 DEF AllPending, Done
  <1>7. Unsettled' = {}
    <2>1. \A b \in Unsettled : b = a
      BY DEF Submissions
    <2>2. QED
      BY <1>3, <2>1 DEF Unsettled
  <1>8. /\ status' \in [Amendments -> {"absent", "extracting", "needs_review", "pending",
                                       "superseded", "applied", "failed"}]
        /\ target' \in [Amendments -> Targets] /\ result' \in [Amendments -> Revisions]
    <2>1. Accepted \cup {a} \in Revisions
      BY <1>1 DEF Accepted, Revisions
    <2>2. t \in Targets
      BY <1>1 DEF Targets
    <2>3. QED
      BY <1>1, <1>2, <2>1, <2>2 DEF BecomesPending, TypeOK
  <1>9. \A k \in Nat : Settled(k) => Settled(k)'
    <2> SUFFICES ASSUME NEW k \in Nat, Settled(k), NEW p \in (AllPending \cup Unsettled)' PROVE target'[p] > k
      BY DEF Settled
    <2>1. CASE p = a
      BY <1>1, <1>3, <2>1 DEF Settled
    <2>2. CASE p # a
      <3>1. p \in AllPending /\ p \in Amendments
        BY <1>4, <1>7, <2>2 DEF AllPending
      <3>2. QED
        BY <1>3, <2>2, <3>1 DEF Settled
    <2>3. QED
      BY <2>1, <2>2
  <1>10. Rows'
    <2>1. \A b \in Amendments : status'[b] # "absent" =>
             target'[b] \in Nat \ {0} /\ target'[b] - 1 \in locked \cup {0}
      <3> SUFFICES ASSUME NEW b \in Amendments, status'[b] # "absent"
                   PROVE  target'[b] \in Nat \ {0} /\ target'[b] - 1 \in locked \cup {0}
        OBVIOUS
      <3>1. CASE b = a
        BY <1>1, <1>3, <3>1
      <3>2. CASE b # a
        <4>1. status[b] # "absent"
          BY <1>3, <3>2 DEF AllPending
        <4>2. QED
          BY <1>3, <3>2, <4>1 DEF Rows
      <3>3. QED
        BY <3>1, <3>2
    <2>2. Settled(ckpt.done)'
      <3>1. Settled(ckpt.done)
        BY DEF Rows
      <3>2. QED
        BY <1>1, <1>9, <3>1 DEF Settled
    <2>3. QED
      BY <2>1, <2>2 DEF Rows
  <1>11. Chain'
    <2>1. \A p, q \in AllPending' : target'[p] = target'[q] => p = q
      <3>1. \A p \in AllPending \ old : target'[p] = target[p] /\ target[p] # t
        BY <1>3, <1>4 DEF AllPending
      <3>2. QED
        BY <1>3, <1>4, <3>1 DEF Chain
    <2>2. ASSUME NEW p \in AllPending' PROVE result'[p] = {b \in Accepted' : target'[b] <= target'[p]}
      <3>1. CASE p = a
        <4>1. \A b \in Accepted \cup {a} : target'[b] <= t
          BY <1>1, <1>3 DEF Accepted
        <4>2. QED
          BY <1>3, <1>5, <3>1, <4>1
      <3>2. CASE p # a
        <4>1. p \in AllPending /\ p \in Amendments /\ target[p] # t /\ p \in Accepted
          BY <1>4, <2>2, <3>2 DEF AllPending, Accepted
        <4>2. target[p] < t
          BY <1>1, <4>1
        <4>3. \A b \in Accepted : target'[b] = target[b]
          BY <1>3, <1>5 DEF Accepted
        <4>4. result[p] = {b \in Accepted : target[b] <= target[p]}
          BY <4>1 DEF Chain
        <4>5. ~(target'[a] <= target'[p]) /\ target'[p] = target[p] /\ result'[p] = result[p]
          BY <1>1, <1>3, <3>2, <4>1, <4>2
        <4>6. QED
          BY <1>5, <4>3, <4>4, <4>5
      <3>3. QED
        BY <3>1, <3>2
    <2>3. run'.revision = {b \in Accepted' : \A p \in AllPending' : target'[b] < target'[p]}
      <3>1. run'.revision = {b \in Accepted : \A p \in AllPending : target[b] < target[p]}
        BY DEF Chain
      <3>2. ~(\A p \in AllPending' : target'[a] < target'[p])
        BY <1>1, <1>3, <1>4
      <3>3. ASSUME NEW b \in Accepted
            PROVE  (\A p \in AllPending : target[b] < target[p])
                      <=> (\A p \in AllPending' : target'[b] < target'[p])
        <4>1. b \in Amendments /\ target'[b] = target[b] /\ target[b] <= t
          BY <1>3, <1>5 DEF Accepted
        <4>2. \A p \in AllPending \ old : target'[p] = target[p]
          BY <1>3, <1>4 DEF AllPending
        <4>3. target[b] = t => \E p \in AllPending : target[p] = t
          BY <3>3, <1>1 DEF Chain, Submissions
        <4>4. (\A p \in AllPending : target[b] < target[p]) => target[b] < t
          BY <1>1, <4>1, <4>3
        <4>5. QED
          BY <1>3, <1>4, <4>1, <4>2, <4>4
      <3>4. QED
        BY <1>5, <3>1, <3>2, <3>3
    <2>4. \A b \in Accepted' : target'[b] \notin locked' => \E p \in AllPending' : target'[p] = target'[b]
      <3> SUFFICES ASSUME NEW b \in Accepted', target'[b] \notin locked
                   PROVE  \E p \in AllPending' : target'[p] = target'[b]
        OBVIOUS
      <3>1. CASE b = a
        BY <1>4, <3>1
      <3>2. CASE b # a
        <4>1. b \in Accepted /\ target'[b] = target[b]
          BY <1>3, <1>5, <3>2 DEF Accepted
        <4>2. PICK p \in AllPending : target[p] = target[b]
          BY <4>1 DEF Chain
        <4>3. p \in Amendments /\ p # a
          BY <1>4, <4>2 DEF AllPending
        <4>4. QED
          BY <1>3, <1>4, <4>1, <4>2, <4>3
      <3>3. QED
        BY <3>1, <3>2
    <2>5. QED
      BY <2>1, <2>2, <2>3, <2>4 DEF Chain
  <1>12. AllPending' = {p \in AllPending : target[p] # t} \cup {a}
    BY <1>4
  <1>13. QED
    BY <1>3, <1>6, <1>7, <1>8, <1>9, <1>10, <1>11, <1>12

\* What the user's side may do to the rows of a round that is locked and that no
\* unsettled row waits for: nothing.
Free(k) == \A a \in Unsettled : target[a] > k

UserMove ==
    /\ UNCHANGED <<run, locked, ckpt, barrier, execVars, lapses, renamed>>
    /\ Done \subseteq Done'
    /\ \A k \in locked : Free(k) => Free(k)'
    /\ \A p \in AllPending' :
           \/ p \in AllPending /\ target'[p] = target[p]
           \/ \A k \in locked : Free(k) => target'[p] > k
    /\ \A p \in AllPending : target[p] \in locked /\ Free(target[p]) =>
           p \in AllPending' /\ target'[p] = target[p] /\ result'[p] = result[p]

LEMMA SettledStays ==
    ASSUME UserMove, NEW k \in locked, Settled(k)
    PROVE  Settled(k)'
  <1>1. Free(k) /\ Free(k)'
    BY DEF UserMove, Settled, Free
  <1>2. \A p \in AllPending' : target'[p] > k
    BY <1>1 DEF UserMove, Settled
  <1>3. QED
    BY <1>1, <1>2 DEF Settled, Free

LEMMA UserKeeps ==
    ASSUME IInv, UserMove
    PROVE  Saved' /\ Holders'
  <1>1. /\ run' = run /\ locked' = locked /\ ckpt' = ckpt /\ barrier' = barrier /\ renamed' = renamed
        /\ pc' = pc /\ at' = at /\ approved' = approved /\ projected' = projected
        /\ under' = under /\ taken' = taken /\ chosen' = chosen /\ Done \subseteq Done'
    BY DEF UserMove, execVars
  <1>2. ckpt.done + 1 \in locked /\ Settled(ckpt.done + 1) => Settled(ckpt.done + 1)'
    <2>1. ASSUME NEW k \in locked, Settled(k) PROVE \A a \in (AllPending \cup Unsettled)' : target'[a] > k
      BY <2>1, SettledStays DEF Settled
    <2>2. QED
      BY <1>1, <2>1 DEF Settled
  <1>3. Saved'
    BY <1>1, <1>2 DEF IInv, Saved
  <1>4. ASSUME NEW e \in Executors, Holds(e) PROVE Holder(e)'
    <2>1. Holder(e)
      BY <1>4 DEF IInv, Holders
    <2>2. ASSUME pc[e] = "project"
          PROVE  /\ (\A a \in Unsettled : target[a] > at[e])'
                 /\ (\A a \in AllPending : target[a] > at[e] \/ a = taken[e])'
                 /\ taken[e] # 0 => status'[taken[e]] = "pending" /\ target'[taken[e]] = at[e]
                                    /\ result'[taken[e]] = result[taken[e]]
      <3>1. at[e] \in locked /\ Free(at[e])
        BY <2>1, <2>2 DEF Holder, Entering, Free
      <3>2. Free(at[e])'
        <4>1. ASSUME NEW k \in locked, Free(k) PROVE \A a \in Unsettled' : target'[a] > k
          BY <4>1 DEF UserMove, Free
        <4>2. QED
          BY <1>1, <3>1, <4>1 DEF Free
      <3>3. (\A a \in AllPending : target[a] > at[e] \/ a = taken[e])'
        <4> SUFFICES ASSUME NEW a \in AllPending' PROVE target'[a] > at[e] \/ a = taken[e]
          BY <1>1
        <4>1. QED
          BY <2>1, <2>2, <3>1 DEF UserMove, Holder
      <3>4. taken[e] # 0 => status'[taken[e]] = "pending" /\ target'[taken[e]] = at[e]
                            /\ result'[taken[e]] = result[taken[e]]
        <4>1. taken[e] # 0 => taken[e] \in AllPending /\ target[taken[e]] = at[e]
          BY <2>1, <2>2 DEF Holder, AllPending, IInv, TypeOK
        <4>2. QED
          BY <3>1, <4>1 DEF UserMove, AllPending
      <3>5. QED
        BY <3>2, <3>3, <3>4 DEF Free
    <2>3. pc[e] \in {"checkpoint", "round"} => Settled(at[e])'
      <3>1. ASSUME NEW k \in locked, Settled(k) PROVE \A a \in (AllPending \cup Unsettled)' : target'[a] > k
        BY <3>1, SettledStays DEF Settled
      <3>2. pc[e] \in {"checkpoint", "round"} => at[e] \in locked /\ Settled(at[e])
        BY <2>1 DEF Holder, Entering
      <3>3. QED
        BY <1>1, <3>1, <3>2 DEF Settled
    <2>4. /\ approved'[e] = run'.revision /\ projected'[e] \subseteq Done'
          /\ pc'[e] \in Entering \cup {"boundary"} => at'[e] = ckpt'.done + 1 /\ at'[e] <= MaxRounds
          /\ pc'[e] \in Entering => at'[e] \in locked'
          /\ pc'[e] \in {"boundary", "waiting", "project", "checkpoint", "stopping"} => ~barrier'
      BY <1>1, <2>1 DEF Holder
    <2>5. /\ pc'[e] = "starting" =>
                IF ckpt'.boundary = "none"
                THEN projected'[e] = run'.revision /\ under'[e] = run'.revision
                ELSE projected'[e] = ckpt'.names /\ under'[e] = ckpt'.under
          /\ pc'[e] \in {"boundary", "waiting", "project"} /\ ~renamed' => under'[e] = projected'[e]
          /\ pc'[e] \in {"checkpoint", "round"} =>
                projected'[e] = run'.revision /\ (~renamed' => under'[e] = run'.revision)
          /\ pc'[e] = "round" => ckpt'.boundary = "before" /\ ckpt'.names = run'.revision
      BY <1>1, <2>1 DEF Holder
    <2>6. pc'[e] = "project" =>
            /\ taken'[e] = 0 => chosen'[e] = run'.revision
            /\ taken'[e] # 0 => chosen'[e] = result'[taken'[e]]
      BY <1>1, <2>1, <2>2 DEF Holder
    <2>7. pc'[e] = "project" =>
            /\ (\A a \in Unsettled : target[a] > at[e])'
            /\ (\A a \in AllPending : target[a] > at[e] \/ a = taken[e])'
            /\ taken'[e] # 0 => status'[taken'[e]] = "pending" /\ target'[taken'[e]] = at'[e]
      BY <1>1, <2>2
    <2>8. QED
      BY <1>1, <2>3, <2>4, <2>5, <2>6, <2>7 DEF Holder
  <1>5. QED
    BY <1>1, <1>3, <1>4 DEF Holders, Holds, Open

LEMMA JoinIsUserMove ==
    ASSUME TypeOK, Rows, Submissions, NEW a \in Unsettled, NEW t \in 1 .. (MaxRounds + 1),
           t >= target[a], UNCHANGED <<run, locked, ckpt, barrier, execVars, lapses, renamed>>,
           Unsettled' = {}, Done \subseteq Done',
           AllPending' = {p \in AllPending : target[p] # t} \cup {a}, target'[a] = t,
           \A p \in Amendments \ {a} : target'[p] = target[p] /\ result'[p] = result[p]
    PROVE  UserMove
  <1>1. /\ a \in Amendments /\ a \notin AllPending /\ AllPending \subseteq Amendments
        /\ locked \subseteq Nat /\ \A p \in Amendments : target[p] \in Nat
    BY BoundsAssumption DEF Unsettled, AllPending, TypeOK, Targets, Rounds
  <1>2. \A k \in locked : Free(k) => Free(k)'
    BY DEF Free
  <1>3. ASSUME NEW k \in Nat, Free(k) PROVE t > k
    BY <1>1, <1>3 DEF Free
  <1>4. \A p \in AllPending' :
           \/ p \in AllPending /\ target'[p] = target[p]
           \/ \A k \in locked : Free(k) => target'[p] > k
    BY <1>1, <1>3
  <1>5. \A p \in AllPending : target[p] \in locked /\ Free(target[p]) =>
           p \in AllPending' /\ target'[p] = target[p] /\ result'[p] = result[p]
    <2> SUFFICES ASSUME NEW p \in AllPending, target[p] \in locked, Free(target[p])
                 PROVE  p \in AllPending' /\ target'[p] = target[p] /\ result'[p] = result[p]
      OBVIOUS
    <2>1. t > target[p] /\ p # a /\ p \in Amendments
      BY <1>1, <1>3
    <2>2. QED
      BY <1>1, <2>1
  <1>6. QED
    BY <1>2, <1>4, <1>5 DEF UserMove

\* A new row builds on every change accepted so far.
LEMMA BaseIsAccepted ==
    ASSUME TypeOK, Rows, Chain, NEW t \in Nat,
           \A b \in Amendments : status[b] # "absent" => target[b] <= t
    PROVE  BaseFor(t) = Accepted
  <1> DEFINE pending == {a \in Amendments : status[a] = "pending" /\ target[a] <= t}
  <1>1. pending = AllPending /\ AllPending \subseteq Accepted /\ Accepted \subseteq Amendments
    BY DEF AllPending, Accepted
  <1>2. ckpt.done \in Nat /\ \A k \in locked : k \in Nat /\ k <= ckpt.done + 1
    BY BoundsAssumption DEF Rows
  <1>3. \A b \in Accepted : target[b] \in Nat /\ target[b] - 1 \in locked \cup {0}
    BY DEF Rows, Accepted
  <1>4. \A p \in AllPending : target[p] \in {ckpt.done + 1, ckpt.done + 2}
    <2> SUFFICES ASSUME NEW p \in AllPending PROVE target[p] \in {ckpt.done + 1, ckpt.done + 2}
      OBVIOUS
    <2>1. target[p] > ckpt.done
      BY DEF Rows, Settled
    <2>2. target[p] \in Nat /\ target[p] <= ckpt.done + 2
      BY <1>1, <1>2, <1>3
    <2>3. QED
      BY <1>2, <2>1, <2>2
  <1>5. Predecessors(t) = {a \in AllPending : \A b \in AllPending :
                              target[b] < target[a] \/ (target[b] = target[a] /\ b <= a)}
    BY <1>1 DEF Predecessors
  <1>6. CASE AllPending = {}
    <2>1. BaseFor(t) = run.revision
      BY <1>5, <1>6 DEF BaseFor
    <2>2. run.revision = Accepted
      BY <1>6 DEF Chain
    <2>3. QED
      BY <2>1, <2>2
  <1>7. CASE AllPending # {}
    <2>1. PICK m \in AllPending : \A b \in AllPending : target[b] <= target[m]
      <3>1. CASE \E m \in AllPending : target[m] = ckpt.done + 2
        BY <1>2, <1>4, <3>1
      <3>2. CASE ~ \E m \in AllPending : target[m] = ckpt.done + 2
        BY <1>2, <1>4, <1>7, <3>2
      <3>3. QED
        BY <3>1, <3>2
    <2>2. Predecessors(t) = {m}
      <3>1. \A b \in AllPending : target[b] \in Nat /\ b \in Nat
        BY <1>1, <1>3 DEF Amendments
      <3>2. \A b \in AllPending : target[b] = target[m] => b = m
        BY DEF Chain
      <3>3. QED
        BY <1>5, <2>1, <3>1, <3>2
    <2>3. BaseFor(t) = result[m]
      BY <2>2 DEF BaseFor
    <2>4. result[m] = {b \in Accepted : target[b] <= target[m]}
      BY DEF Chain
    <2>5. \A b \in Accepted : target[b] <= target[m]
      <3> SUFFICES ASSUME NEW b \in Accepted, ~(target[b] <= target[m]) PROVE FALSE
        OBVIOUS
      <3>1. target[b] > ckpt.done + 1
        BY <1>2, <1>3, <1>4
      <3>2. target[b] \notin locked
        BY <1>2, <1>3, <3>1
      <3>3. \E p \in AllPending : target[p] = target[b]
        BY <3>2 DEF Chain
      <3>4. QED
        BY <2>1, <3>3
    <2>6. QED
      BY <2>3, <2>4, <2>5
  <1>8. QED
    BY <1>6, <1>7

\* TypeOK of what the executors keep.
LEMMA UserTypes ==
    ASSUME TypeOK, UNCHANGED <<run, locked, ckpt, barrier, execVars, lapses, renamed>>,
           status' \in [Amendments -> {"absent", "extracting", "needs_review", "pending",
                                       "superseded", "applied", "failed"}],
           target' \in [Amendments -> Targets],
           base' \in [Amendments -> Revisions], result' \in [Amendments -> Revisions],
           extractions' \in SUBSET Amendments,
           review' \in [Reviewers -> [row : Amendments \cup {0}, after : Targets, base : Revisions]]
    PROVE  TypeOK'
  BY DEF TypeOK, execVars

LEMMA ReserveKeeps ==
    ASSUME IInv, NEW after \in {0} \cup locked, Reserve(after)
    PROVE  IInv'
  <1> DEFINE t == NextUnlocked(after)
  <1>1. /\ TypeOK /\ Rows /\ Submissions /\ Chain /\ AtMostOneReviewer
        /\ UNCHANGED <<run, result, locked, ckpt, barrier, review, execVars, lapses, renamed>>
        /\ Unsettled = {}
    BY DEF IInv, Reserve
  <1>2. /\ t \in 1 .. (MaxRounds + 1) /\ t \notin locked /\ t - 1 \in locked \cup {0}
        /\ t > ckpt.done /\ \A k \in locked : k < t
        /\ \A b \in Amendments : status[b] # "absent" => target[b] <= t
    BY <1>1, NextRound
  <1>3. BaseFor(t) = Accepted
    BY <1>1, <1>2, BaseIsAccepted
  <1>4. PICK a \in Amendments :
          /\ status[a] = "absent" /\ status' = [status EXCEPT ![a] = "extracting"]
          /\ target' = [target EXCEPT ![a] = t] /\ base' = [base EXCEPT ![a] = Accepted]
          /\ extractions' = extractions \cup {a}
    BY <1>3 DEF Reserve
  <1> HIDE DEF t
  <1>5. /\ status'[a] = "extracting" /\ target'[a] = t /\ base'[a] = Accepted
        /\ \A b \in Amendments \ {a} : status'[b] = status[b] /\ target'[b] = target[b]
    BY <1>1, <1>4 DEF TypeOK
  <1>6. /\ Accepted' = Accepted /\ AllPending' = AllPending /\ Done' = Done
        /\ Accepted \subseteq Amendments \ {a} /\ AllPending \subseteq Accepted
    BY <1>4, <1>5 DEF Accepted, AllPending, Done
  <1>7. Unsettled' = {a}
    BY <1>1, <1>5 DEF Unsettled
  <1>8. TypeOK'
    <2>1. Accepted \in Revisions /\ t \in Targets
      BY <1>2, BoundsAssumption DEF Accepted, Revisions, Targets
    <2>2. /\ status' \in [Amendments -> {"absent", "extracting", "needs_review", "pending",
                                         "superseded", "applied", "failed"}]
          /\ target' \in [Amendments -> Targets] /\ base' \in [Amendments -> Revisions]
          /\ extractions' \in SUBSET Amendments
      BY <1>1, <1>4, <2>1 DEF TypeOK
    <2>3. /\ result' \in [Amendments -> Revisions]
          /\ review' \in [Reviewers -> [row : Amendments \cup {0}, after : Targets, base : Revisions]]
      BY <1>1 DEF TypeOK
    <2>4. QED
      BY <1>1, <2>2, <2>3, UserTypes
  <1>9. Rows'
    <2>1. \A b \in Amendments : status'[b] # "absent" =>
             target'[b] \in Nat \ {0} /\ target'[b] - 1 \in locked \cup {0}
      BY <1>1, <1>2, <1>5 DEF Rows
    <2>2. Settled(ckpt.done)'
      <3>1. \A b \in AllPending : target'[b] > ckpt.done
        BY <1>1, <1>5, <1>6 DEF Rows, Settled
      <3>2. QED
        BY <1>1, <1>2, <1>5, <1>6, <1>7, <3>1 DEF Settled
    <2>3. QED
      BY <1>1, <2>1, <2>2 DEF Rows
  <1>10. Submissions'
    <2>1. extractions' = {a}
      BY <1>1, <1>4 DEF Submissions, Unsettled, TypeOK
    <2>2. \A v \in Reviewers : review'[v].row = 0
      BY <1>1 DEF Submissions, Unsettled, TypeOK
    <2>3. \A b \in Accepted : target'[b] = target[b] /\ target[b] <= t
      BY <1>2, <1>5, <1>6 DEF Accepted
    <2>4. \A b \in Accepted : target'[b] = t => \E p \in AllPending : target'[p] = t
      <3> SUFFICES ASSUME NEW b \in Accepted, target'[b] = t PROVE \E p \in AllPending : target'[p] = t
        OBVIOUS
      <3>1. PICK p \in AllPending : target[p] = target[b]
        BY <1>1, <1>2, <2>3 DEF Chain
      <3>2. QED
        BY <1>6, <2>3, <3>1
    <2>5. QED
      BY <1>5, <1>6, <1>7, <2>1, <2>2, <2>3, <2>4 DEF Submissions
  <1>11. Chain'
    <2>1. \A b \in Accepted : target'[b] = target[b]
      BY <1>5, <1>6
    <2>2. \A b \in AllPending : target'[b] = target[b] /\ result'[b] = result[b]
      BY <1>1, <1>6, <2>1
    <2>3. QED
      BY <1>1, <1>6, <2>1, <2>2 DEF Chain
  <1>12. UserMove
    <2>1. \A k \in locked : Free(k)'
      BY <1>2, <1>5, <1>7 DEF Free
    <2>2. \A b \in AllPending : target'[b] = target[b] /\ result'[b] = result[b]
      BY <1>1, <1>5, <1>6
    <2>3. QED
      BY <1>1, <1>6, <2>1, <2>2 DEF UserMove
  <1>13. QED
    BY <1>1, <1>8, <1>9, <1>10, <1>11, <1>12, UserKeeps DEF IInv

LEMMA CompletesKeeps ==
    ASSUME IInv, NEW a \in Amendments, ExtractionCompletes(a)
    PROVE  IInv'
  <1> DEFINE t == target[a]
  <1>1. /\ TypeOK /\ Rows /\ Submissions /\ Chain /\ AtMostOneReviewer
        /\ UNCHANGED <<run, locked, ckpt, barrier, review, execVars, lapses, renamed>>
        /\ a \in Unsettled /\ status[a] = "extracting"
        /\ BecomesPending(a, base[a], t) /\ extractions' = extractions \ {a}
    BY DEF IInv, ExtractionCompletes, Submissions, Unsettled
  <1>2. /\ t \in 1 .. (MaxRounds + 1) /\ t - 1 \in locked \cup {0} /\ t > ckpt.done
        /\ \A b \in Accepted : target[b] <= t
    <2>1. t \in Nat \ {0} /\ t - 1 \in locked \cup {0}
      BY <1>1 DEF Rows
    <2>2. t \in Targets /\ MaxRounds \in Nat
      BY <1>1, BoundsAssumption DEF TypeOK
    <2>3. t > ckpt.done
      BY <1>1 DEF Rows, Settled
    <2>4. \A b \in Accepted : target[b] <= t
      BY <1>1 DEF Submissions
    <2>5. QED
      BY <2>1, <2>2, <2>3, <2>4 DEF Targets
  <1>3. /\ Rows' /\ Chain' /\ Unsettled' = {} /\ Done \subseteq Done'
        /\ AllPending' = {p \in AllPending : target[p] # t} \cup {a}
        /\ \A p \in Amendments \ {a} : target'[p] = target[p] /\ result'[p] = result[p]
        /\ status' \in [Amendments -> {"absent", "extracting", "needs_review", "pending",
                                       "superseded", "applied", "failed"}]
        /\ target' \in [Amendments -> Targets] /\ result' \in [Amendments -> Revisions]
    BY <1>1, <1>2, Joins
  <1>4. target' = [target EXCEPT ![a] = t] /\ base' = base
    BY <1>1 DEF BecomesPending
  <1>5. UserMove
    <2>1. target'[a] = t /\ t >= target[a]
      BY <1>1, <1>2, <1>4 DEF TypeOK
    <2>2. QED
      BY <1>1, <1>2, <1>3, <2>1, JoinIsUserMove
  <1>6. TypeOK'
    <2>1. /\ extractions' \in SUBSET Amendments /\ base' \in [Amendments -> Revisions]
          /\ review' \in [Reviewers -> [row : Amendments \cup {0}, after : Targets, base : Revisions]]
      BY <1>1, <1>4 DEF TypeOK
    <2>2. QED
      BY <1>1, <1>3, <2>1, UserTypes
  <1>7. Submissions'
    <2>1. \A b \in extractions : b = a
      BY <1>1 DEF Submissions, Unsettled, TypeOK
    <2>2. \A v \in Reviewers : review'[v].row = 0
      <3> SUFFICES ASSUME NEW v \in Reviewers, review[v].row # 0 PROVE FALSE
        BY <1>1
      <3>1. review[v].row \in Unsettled
        BY <1>1 DEF Submissions, Unsettled, TypeOK
      <3>2. QED
        BY <1>1, <3>1 DEF Submissions
    <2>3. QED
      BY <1>1, <1>3, <2>1, <2>2 DEF Submissions
  <1>8. QED
    BY <1>1, <1>3, <1>5, <1>6, <1>7, UserKeeps DEF IInv

\* A step that moves no row in or out of the chain.
LEMMA ChainIsQuiet ==
    ASSUME IInv, UNCHANGED <<run, target, base, result, locked, ckpt, barrier, execVars, lapses, renamed>>,
           Accepted' = Accepted, AllPending' = AllPending, Done' = Done,
           Unsettled' \subseteq Unsettled,
           \A a \in Amendments : status'[a] # "absent" => status[a] # "absent"
    PROVE  /\ Rows' /\ Chain' /\ Saved' /\ Holders'
           /\ \A a, b \in Unsettled' : a = b
           /\ \A a \in Unsettled' :
                  /\ base'[a] = Accepted'
                  /\ \A b \in Accepted' : target'[b] <= target'[a]
                  /\ \A b \in Accepted' : target'[b] = target'[a] =>
                        \E p \in AllPending' : target'[p] = target'[a]
  <1>1. Rows /\ Submissions /\ Chain
    BY DEF IInv
  <1>2. Rows'
    <2>1. Settled(ckpt.done)'
      BY <1>1 DEF Rows, Settled
    <2>2. QED
      BY <1>1, <2>1 DEF Rows
  <1>3. Chain'
    BY <1>1 DEF Chain
  <1>4. UserMove
    <2>1. \A p \in AllPending : p \in Amendments
      BY DEF AllPending
    <2>2. \A k \in locked : Free(k) => Free(k)'
      BY DEF Free
    <2>3. QED
      BY <2>1, <2>2 DEF UserMove
  <1>5. Saved' /\ Holders'
    BY <1>4, UserKeeps
  <1>6. /\ \A a, b \in Unsettled' : a = b
        /\ \A a \in Unsettled' :
               /\ base'[a] = Accepted'
               /\ \A b \in Accepted' : target'[b] <= target'[a]
               /\ \A b \in Accepted' : target'[b] = target'[a] =>
                     \E p \in AllPending' : target'[p] = target'[a]
    BY <1>1 DEF Submissions
  <1>7. QED
    BY <1>2, <1>3, <1>5, <1>6

LEMMA StopsKeeps ==
    ASSUME IInv, NEW a \in Amendments, ExtractionStops(a)
    PROVE  IInv'
  <1>1. /\ TypeOK /\ Submissions /\ AtMostOneReviewer
        /\ UNCHANGED <<run, target, base, result, locked, ckpt, barrier, review, execVars, lapses, renamed>>
        /\ a \in Unsettled /\ status[a] = "extracting" /\ extractions' = extractions \ {a}
    BY DEF IInv, ExtractionStops, Submissions, Unsettled
  <1>2. PICK s \in {"needs_review", "failed"} : status' = [status EXCEPT ![a] = s]
    BY DEF ExtractionStops
  <1>3. status'[a] = s /\ \A b \in Amendments \ {a} : status'[b] = status[b]
    BY <1>1, <1>2 DEF TypeOK
  <1>4. /\ Accepted' = Accepted /\ AllPending' = AllPending /\ Done' = Done
        /\ Unsettled' \subseteq Unsettled
    BY <1>1, <1>3 DEF Accepted, AllPending, Done, Unsettled
  <1>5. \A b \in Amendments : status'[b] # "absent" => status[b] # "absent"
    BY <1>1, <1>3
  <1>6. TypeOK'
    BY <1>1, <1>2, UserTypes DEF TypeOK
  <1>7. /\ \A b \in extractions' : status'[b] = "extracting"
        /\ \A v \in Reviewers : review[v].row # 0 => review[v].row # a /\ review[v].row \in Amendments
    BY <1>1, <1>3 DEF Submissions, TypeOK
  <1>8. \A v \in Reviewers : review'[v].row # 0 =>
           /\ status'[review'[v].row] = "needs_review"
           /\ review'[v].base = base'[review'[v].row]
           /\ review'[v].after = target'[review'[v].row] - 1
    BY <1>1, <1>3, <1>7 DEF Submissions
  <1>9. QED
    BY <1>1, <1>4, <1>5, <1>6, <1>7, <1>8, ChainIsQuiet DEF IInv, Submissions

\* The transactions that change no row, and a review of a row that stays as it is.
LEMMA QuietKeeps ==
    ASSUME IInv,
           \/ \E a \in Amendments : SubmitterDies(a)
           \/ \E v \in Reviewers, a \in Amendments : BeginReview(v, a)
    PROVE  IInv'
  <1>1. TypeOK /\ Submissions /\ AtMostOneReviewer
    BY DEF IInv
  <1>2. UNCHANGED <<run, rows, locked, ckpt, barrier, execVars, lapses, renamed>>
    BY DEF SubmitterDies, BeginReview
  <1>3. /\ Accepted' = Accepted /\ AllPending' = AllPending /\ Done' = Done /\ Unsettled' = Unsettled
        /\ UNCHANGED <<status, target, base, result>>
    BY <1>2 DEF Accepted, AllPending, Done, Unsettled, rows
  <1>4. extractions' \subseteq extractions
    BY DEF SubmitterDies, BeginReview
  <1>5. \/ review' = review
        \/ \E v \in Reviewers, a \in Amendments :
              /\ status[a] = "needs_review"
              /\ review' = [review EXCEPT ![v] = [row |-> a, after |-> target[a] - 1, base |-> base[a]]]
    BY DEF SubmitterDies, BeginReview
  <1>6. \A v \in Reviewers :
           /\ review'[v] \in [row : Amendments \cup {0}, after : Targets, base : Revisions]
           /\ review'[v].row # 0 =>
                 /\ status[review'[v].row] = "needs_review"
                 /\ review'[v].base = base[review'[v].row]
                 /\ review'[v].after = target[review'[v].row] - 1
    <2>1. CASE review' = review
      BY <1>1, <2>1 DEF TypeOK, Submissions
    <2>2. ASSUME NEW v \in Reviewers, NEW a \in Amendments, status[a] = "needs_review",
                 review' = [review EXCEPT ![v] = [row |-> a, after |-> target[a] - 1, base |-> base[a]]]
          PROVE  \A w \in Reviewers :
           /\ review'[w] \in [row : Amendments \cup {0}, after : Targets, base : Revisions]
           /\ review'[w].row # 0 =>
                 /\ status[review'[w].row] = "needs_review"
                 /\ review'[w].base = base[review'[w].row]
                 /\ review'[w].after = target[review'[w].row] - 1
      <3> DEFINE r == [row |-> a, after |-> target[a] - 1, base |-> base[a]]
      <3>1. target[a] - 1 \in Targets /\ base[a] \in Revisions
        <4>1. target[a] \in Nat \ {0} /\ target[a] \in Targets
          BY <1>1, <2>2 DEF IInv, Rows, TypeOK
        <4>2. QED
          BY <1>1, <4>1, BoundsAssumption DEF TypeOK, Targets
      <3>2. r \in [row : Amendments \cup {0}, after : Targets, base : Revisions]
        BY <3>1
      <3>3. r.row = a /\ r.after = target[a] - 1 /\ r.base = base[a]
        OBVIOUS
      <3> HIDE DEF r
      <3>4. review'[v] = r /\ \A w \in Reviewers \ {v} : review'[w] = review[w]
        BY <1>1, <2>2 DEF TypeOK, r
      <3>5. QED
        BY <1>1, <2>2, <3>2, <3>3, <3>4 DEF TypeOK, Submissions
    <2>3. QED
      BY <1>5, <2>1, <2>2
  <1>7. TypeOK'
    <2>1. review' \in [Reviewers -> [row : Amendments \cup {0}, after : Targets, base : Revisions]]
      <3>1. DOMAIN review' = Reviewers /\ review' = [v \in Reviewers |-> review'[v]]
        BY <1>1, <1>5 DEF TypeOK
      <3>2. QED
        BY <1>6, <3>1
    <2>2. QED
      BY <1>1, <1>2, <1>3, <1>4, <2>1, UserTypes DEF TypeOK
  <1>8. \A b \in extractions' : status'[b] = "extracting"
    BY <1>1, <1>3, <1>4 DEF Submissions
  <1>9. QED
    BY <1>1, <1>2, <1>3, <1>6, <1>7, <1>8, ChainIsQuiet DEF IInv, Submissions

LEMMA ResolveKeeps ==
    ASSUME IInv, NEW v \in Reviewers, ResolveReview(v)
    PROVE  IInv'
  <1>1. /\ TypeOK /\ Rows /\ Submissions /\ Chain /\ AtMostOneReviewer
        /\ UNCHANGED <<run, locked, ckpt, barrier, extractions, execVars, lapses, renamed>>
        /\ review[v].row # 0 /\ review' = [review EXCEPT ![v] = NoReview]
    BY DEF IInv, ResolveReview
  <1>2. /\ NoReview \in [row : Amendments \cup {0}, after : Targets, base : Revisions] /\ NoReview.row = 0
        /\ review' \in [Reviewers -> [row : Amendments \cup {0}, after : Targets, base : Revisions]]
        /\ \A w \in Reviewers : review'[w].row = 0
    <2>1. NoReview \in [row : Amendments \cup {0}, after : Targets, base : Revisions] /\ NoReview.row = 0
      BY BoundsAssumption DEF NoReview, Targets, Revisions
    <2>2. \A w \in Reviewers : w = v
      BY <1>1 DEF AtMostOneReviewer
    <2>3. QED
      BY <1>1, <2>1, <2>2 DEF TypeOK
  <1>3. CASE ~Open
    <2>1. UNCHANGED <<status, target, base, result>>
      BY <1>3 DEF ResolveReview, rows
    <2>2. /\ Accepted' = Accepted /\ AllPending' = AllPending /\ Done' = Done /\ Unsettled' = Unsettled
      BY <2>1 DEF Accepted, AllPending, Done, Unsettled
    <2>3. TypeOK'
      BY <1>1, <1>2, <2>1, UserTypes DEF TypeOK
    <2>4. QED
      BY <1>1, <1>2, <2>1, <2>2, <2>3, ChainIsQuiet DEF IInv, Submissions
  <1>4. CASE Open
    <2> DEFINE a == review[v].row
               t == NextUnlocked(target[a] - 1)
    <2>1. /\ a \in Amendments /\ a \in Unsettled /\ status[a] = "needs_review"
          /\ review[v].base = base[a] /\ review[v].after = target[a] - 1
      BY <1>1 DEF TypeOK, Submissions, Unsettled
    <2>2. BecomesPending(a, base[a], t)
      BY <1>4, <2>1 DEF ResolveReview
    <2>3. target[a] - 1 \in locked \cup {0}
      BY <1>1, <2>1 DEF Rows
    <2>4. /\ t \in 1 .. (MaxRounds + 1) /\ t \notin locked /\ t - 1 \in locked \cup {0}
          /\ t > ckpt.done /\ \A b \in Amendments : status[b] # "absent" => target[b] <= t
      BY <1>1, <2>3, NextRound
    <2> HIDE DEF a, t
    <2>5. t >= target[a] /\ \A b \in Accepted : target[b] <= t
      BY <2>1, <2>4, <1>1, BoundsAssumption DEF Accepted, TypeOK, Targets
    <2>6. /\ Rows' /\ Chain' /\ Unsettled' = {} /\ Done \subseteq Done'
          /\ AllPending' = {p \in AllPending : target[p] # t} \cup {a}
          /\ \A p \in Amendments \ {a} : target'[p] = target[p] /\ result'[p] = result[p]
          /\ status' \in [Amendments -> {"absent", "extracting", "needs_review", "pending",
                                         "superseded", "applied", "failed"}]
          /\ target' \in [Amendments -> Targets] /\ result' \in [Amendments -> Revisions]
      BY <1>1, <2>1, <2>2, <2>4, <2>5, Joins
    <2>7. target'[a] = t /\ base' = base
      BY <1>1, <2>1, <2>2 DEF BecomesPending, TypeOK
    <2>8. UserMove
      BY <1>1, <2>1, <2>4, <2>5, <2>6, <2>7, JoinIsUserMove
    <2>9. TypeOK'
      BY <1>1, <1>2, <2>6, <2>7, UserTypes DEF TypeOK
    <2>10. extractions = {}
      BY <1>1, <2>1 DEF Submissions, Unsettled, TypeOK
    <2>11. Submissions'
      BY <1>1, <1>2, <2>6, <2>10 DEF Submissions
    <2>12. QED
      BY <1>1, <2>6, <2>8, <2>9, <2>11, UserKeeps DEF IInv
  <1>5. QED
    BY <1>3, <1>4

-----------------------------------------------------------------------------
(* The executors' side.                                                    *)

LEMMA RevisionIsDone ==
    ASSUME TypeOK, Chain PROVE run.revision \subseteq Done
  <1> SUFFICES ASSUME NEW b \in run.revision PROVE b \in Done
    OBVIOUS
  <1>1. b \in Accepted /\ \A p \in AllPending : target[b] < target[p]
    BY DEF Chain
  <1>2. b \in Amendments /\ target[b] \in Nat
    BY <1>1, BoundsAssumption DEF Accepted, TypeOK, Targets
  <1>3. b \notin AllPending
    BY <1>1, <1>2
  <1>4. QED
    BY <1>1, <1>3 DEF Accepted, AllPending, Done

\* A step that leaves the amendment rows and the run's revision as they are.
LEMMA SameRows ==
    ASSUME IInv, UNCHANGED <<rows, extractions, review>>,
           run'.revision = run.revision, locked \subseteq locked'
    PROVE  /\ Submissions' /\ Chain'
           /\ Accepted' = Accepted /\ AllPending' = AllPending /\ Done' = Done
           /\ Unsettled' = Unsettled
           /\ UNCHANGED <<status, target, base, result>>
  <1>1. /\ Accepted' = Accepted /\ AllPending' = AllPending /\ Done' = Done
        /\ Unsettled' = Unsettled /\ UNCHANGED <<status, target, base, result>>
    BY DEF Accepted, AllPending, Done, Unsettled, rows
  <1>2. Submissions'
    BY <1>1 DEF IInv, Submissions
  <1>3. Chain'
    BY <1>1 DEF IInv, Chain
  <1>4. QED
    BY <1>1, <1>2, <1>3

\* The locals of the other executors stay.
Alone(e) ==
    \A d \in Executors \ {e} :
        /\ pc'[d] = pc[d] /\ at'[d] = at[d] /\ approved'[d] = approved[d]
        /\ projected'[d] = projected[d] /\ under'[d] = under[d]
        /\ taken'[d] = taken[d] /\ chosen'[d] = chosen[d]

\* A step of an executor that touches nothing shared disturbs no other one.
LEMMA OthersHold ==
    ASSUME IInv, NEW e \in Executors, Alone(e),
           UNCHANGED <<run, rows, extractions, review, locked, ckpt, barrier, renamed>>,
           Holds(e) => Holder(e)'
    PROVE  Rows' /\ Submissions' /\ Chain' /\ Saved' /\ Holders'
  <1>1. /\ Submissions' /\ Chain'
        /\ Accepted' = Accepted /\ AllPending' = AllPending /\ Done' = Done
        /\ Unsettled' = Unsettled /\ UNCHANGED <<status, target, base, result>>
    BY SameRows
  <1>2. \A k : (\A a \in (AllPending \cup Unsettled)' : target'[a] > k) <=> Settled(k)
    BY <1>1 DEF Settled
  <1>3. Rows'
    BY <1>1, <1>2 DEF IInv, Rows, Settled
  <1>4. Saved'
    BY <1>1, <1>2 DEF IInv, Saved, Settled
  <1>5. ASSUME NEW d \in Executors \ {e}, Holds(d) PROVE Holder(d)'
    <2>1. Holder(d)
      BY <1>5 DEF IInv, Holders
    <2>2. Settled(at[d]) => Settled(at[d])'
      BY <1>1, <1>2, <1>5 DEF Alone, Settled
    <2>3. QED
      BY <1>1, <1>5, <2>1, <2>2 DEF Alone, Holder
  <1>6. Holders'
    BY <1>5 DEF Holders, Holds, Open
  <1>7. QED
    BY <1>1, <1>3, <1>4, <1>6

\* A step that ends an attempt or the run, or takes the lease away.
LEMMA EndKeeps ==
    ASSUME IInv,
           \/ \E e \in Executors : Complete(e) \/ RunFails(e) \/ Park(e) \/ FencedOut(e)
           \/ LoseLease \/ CancelRun
    PROVE  IInv'
  <1>1. /\ UNCHANGED <<rows, locked, ckpt, barrier, extractions, review, renamed>>
        /\ run'.revision = run.revision
    BY DEF Complete, RunFails, Park, FencedOut, LoseLease, CancelRun, IInv, TypeOK
  <1>2. /\ Submissions' /\ Chain'
        /\ Accepted' = Accepted /\ AllPending' = AllPending /\ Done' = Done
        /\ Unsettled' = Unsettled /\ UNCHANGED <<status, target, base, result>>
    BY <1>1, SameRows
  <1>3. Rows'
    <2>1. Settled(ckpt.done)'
      BY <1>1, <1>2 DEF IInv, Rows, Settled
    <2>2. QED
      BY <1>1, <1>2, <2>1 DEF IInv, Rows
  <1>4. Saved'
    BY <1>1, <1>2 DEF IInv, Saved, Settled
  <1>5. TypeOK'
    <2>1. /\ run' \in [status : Live \cup {"completed", "failed", "cancelled"},
                       revision : Revisions, holder : Executors \cup {NoOne}]
          /\ lapses' \in 0 .. MaxLapses
      <3> DEFINE R == [status : Live \cup {"completed", "failed", "cancelled"},
                       revision : Revisions, holder : Executors \cup {NoOne}]
      <3>1. run \in R /\ lapses \in 0 .. MaxLapses /\ MaxLapses \in Nat
        BY BoundsAssumption DEF IInv, TypeOK
      <3>2. \/ run' = run
            \/ \E st \in Live \cup {"completed", "failed", "cancelled"} :
                  run' = [run EXCEPT !.status = st, !.holder = NoOne]
        BY DEF Complete, RunFails, Park, FencedOut, LoseLease, Settlements, CancelRun, Live
      <3>3. run' \in R
        BY <3>1, <3>2
      <3>4. lapses' = lapses \/ (lapses < MaxLapses /\ lapses' = lapses + 1)
        BY DEF Complete, RunFails, Park, FencedOut, LoseLease, CancelRun
      <3>5. QED
        BY <3>1, <3>3, <3>4
    <2>2. /\ pc' \in [Executors -> {"idle", "starting", "boundary", "waiting", "project",
                                    "checkpoint", "round", "stopping", "finalizing"}]
          /\ at' \in [Executors -> Targets]
          /\ approved' \in [Executors -> Revisions] /\ projected' \in [Executors -> Revisions]
          /\ under' \in [Executors -> Revisions] /\ chosen' \in [Executors -> Revisions]
          /\ taken' \in [Executors -> Amendments \cup {0}]
      <3>1. 0 \in Targets /\ {} \in Revisions
        BY BoundsAssumption DEF Targets, Revisions
      <3>2. (\E e \in Executors : Ends(e)) \/ UNCHANGED execVars
        BY DEF Complete, RunFails, Park, FencedOut, LoseLease, CancelRun
      <3>3. ASSUME NEW e \in Executors, Ends(e)
            PROVE  /\ pc' = [pc EXCEPT ![e] = "idle"] /\ at' = [at EXCEPT ![e] = 0]
                   /\ taken' = [taken EXCEPT ![e] = 0] /\ approved' = [approved EXCEPT ![e] = {}]
                   /\ projected' = [projected EXCEPT ![e] = {}] /\ under' = [under EXCEPT ![e] = {}]
                   /\ chosen' = [chosen EXCEPT ![e] = {}]
        BY <3>3 DEF Ends
      <3>4. CASE UNCHANGED execVars
        BY <3>4 DEF IInv, TypeOK, execVars
      <3>5. CASE \E e \in Executors : Ends(e)
        <4>1. PICK e \in Executors : Ends(e)
          BY <3>5
        <4>2. /\ pc' = [pc EXCEPT ![e] = "idle"] /\ at' = [at EXCEPT ![e] = 0]
              /\ taken' = [taken EXCEPT ![e] = 0] /\ approved' = [approved EXCEPT ![e] = {}]
              /\ projected' = [projected EXCEPT ![e] = {}] /\ under' = [under EXCEPT ![e] = {}]
              /\ chosen' = [chosen EXCEPT ![e] = {}]
          BY <3>3, <4>1
        <4>3. TypeOK
          BY DEF IInv
        <4>4. QED
          BY <3>1, <4>2, <4>3 DEF TypeOK
      <3>6. QED
        BY <3>2, <3>4, <3>5
    <2>3. QED
      BY <1>1, <1>2, <2>1, <2>2 DEF IInv, TypeOK
  <1>6. Holders'
    <2>1. CASE \E e \in Executors : FencedOut(e)
      <3>1. PICK e \in Executors : FencedOut(e)
        BY <2>1
      <3>2. Alone(e) /\ run' = run /\ ~Holds(e)
        BY <3>1 DEF FencedOut, Ends, Alone, IInv, TypeOK
      <3>3. QED
        BY <1>1, <3>2, OthersHold
    <2>2. CASE (\E e \in Executors : Complete(e) \/ RunFails(e) \/ Park(e)) \/ LoseLease \/ CancelRun
      <3>1. run'.holder = NoOne
        BY <2>2 DEF Complete, RunFails, Park, LoseLease, CancelRun, IInv, TypeOK
      <3>2. QED
        BY <3>1, NoOneAssumption DEF Holders, Holds
    <2>3. QED
      BY <2>1, <2>2
  <1>7. QED
    BY <1>2, <1>3, <1>4, <1>5, <1>6 DEF IInv

\* A new holder starts from the run's revision and the checkpoint.
LEMMA ClaimKeeps ==
    ASSUME IInv, NEW e \in Executors, Claim(e)
    PROVE  IInv'
  <1>1. /\ TypeOK /\ Chain /\ Saved /\ run.revision \subseteq Done
        /\ UNCHANGED <<rows, locked, ckpt, barrier, extractions, review, at, taken, chosen, lapses, renamed>>
        /\ run' = [run EXCEPT !.status = "starting", !.holder = e]
        /\ run'.revision = run.revision /\ run'.holder = e
    BY RevisionIsDone DEF Claim, IInv, TypeOK
  <1>2. /\ Submissions' /\ Chain'
        /\ Accepted' = Accepted /\ AllPending' = AllPending /\ Done' = Done
        /\ Unsettled' = Unsettled /\ UNCHANGED <<status, target, base, result>>
    BY <1>1, SameRows
  <1>3. Rows'
    <2>1. Settled(ckpt.done)'
      BY <1>1, <1>2 DEF IInv, Rows, Settled
    <2>2. QED
      BY <1>1, <1>2, <2>1 DEF IInv, Rows
  <1>4. Saved'
    BY <1>1, <1>2 DEF Saved, Settled
  <1> DEFINE name == IF ckpt.boundary = "none" THEN run.revision ELSE ckpt.names
             made == IF ckpt.boundary = "none" THEN run.revision ELSE ckpt.under
  <1>5. run.revision \in Revisions /\ name \in Revisions /\ made \in Revisions /\ name \subseteq Done
    BY <1>1 DEF TypeOK, Saved
  <1>6. /\ pc' = [pc EXCEPT ![e] = "starting"] /\ approved' = [approved EXCEPT ![e] = run.revision]
        /\ projected' = [projected EXCEPT ![e] = name] /\ under' = [under EXCEPT ![e] = made]
    BY DEF Claim
  <1>7. TypeOK'
    <2>1. run' \in [status : Live \cup {"completed", "failed", "cancelled"},
                    revision : Revisions, holder : Executors \cup {NoOne}]
      BY <1>1 DEF TypeOK, Live
    <2>2. /\ pc' \in [Executors -> {"idle", "starting", "boundary", "waiting", "project",
                                    "checkpoint", "round", "stopping", "finalizing"}]
          /\ approved' \in [Executors -> Revisions] /\ projected' \in [Executors -> Revisions]
          /\ under' \in [Executors -> Revisions]
      BY <1>1, <1>5, <1>6 DEF TypeOK
    <2>3. QED
      BY <1>1, <1>2, <2>1, <2>2 DEF TypeOK
  <1>8. Holder(e)'
    <2>1. /\ pc'[e] = "starting" /\ approved'[e] = run.revision /\ projected'[e] = name /\ under'[e] = made
      BY <1>1, <1>6 DEF TypeOK
    <2>2. QED
      BY <1>1, <1>2, <1>5, <2>1 DEF Holder, Entering
  <1>9. Holders'
    BY <1>1, <1>8 DEF Holders, Holds
  <1>10. QED
    BY <1>2, <1>3, <1>4, <1>7, <1>9 DEF IInv

\* The run's status moves between those of a run that may go on, whoever holds it.
LEMMA StatusKeeps ==
    ASSUME IInv, (\E e \in Executors : ReportRunning(e)) \/ Unpark \/ PauseWaiting
    PROVE  IInv'
  <1>1. /\ UNCHANGED <<rows, locked, ckpt, barrier, extractions, review, execVars, lapses,
                       renamed>>
        /\ \E s \in Live : run' = [run EXCEPT !.status = s]
        /\ Open
    BY DEF ReportRunning, Unpark, PauseWaiting, Holds, Open, Live
  <1>2. /\ run'.revision = run.revision /\ run'.holder = run.holder
        /\ run' \in [status : Live \cup {"completed", "failed", "cancelled"},
                     revision : Revisions, holder : Executors \cup {NoOne}]
    BY <1>1 DEF IInv, TypeOK
  <1>3. UNCHANGED <<pc, at, approved, projected, under, taken, chosen>>
    BY <1>1 DEF execVars
  <1>4. /\ Submissions' /\ Chain'
        /\ Accepted' = Accepted /\ AllPending' = AllPending /\ Done' = Done
        /\ Unsettled' = Unsettled /\ UNCHANGED <<status, target, base, result>>
    BY <1>1, <1>2, SameRows
  <1>5. TypeOK'
    BY <1>1, <1>2, <1>3, <1>4 DEF IInv, TypeOK
  <1>6. \A k : (\A a \in (AllPending \cup Unsettled)' : target'[a] > k) <=> Settled(k)
    BY <1>4 DEF Settled
  <1>7. Rows'
    BY <1>1, <1>4, <1>6 DEF IInv, Rows, Settled
  <1>8. Saved'
    BY <1>1, <1>2, <1>4, <1>6 DEF IInv, Saved, Settled
  <1>9. ASSUME NEW e \in Executors, Holds(e) PROVE Holder(e)'
    <2>1. Holder(e) /\ (Settled(at[e]) => Settled(at[e])')
      BY <1>3, <1>6, <1>9 DEF IInv, Holders, Settled
    <2>2. QED
      BY <1>1, <1>2, <1>3, <1>4, <2>1 DEF Holder
  <1>10. Holders'
    BY <1>1, <1>2, <1>9 DEF Holders, Holds
  <1>11. QED
    BY <1>4, <1>5, <1>7, <1>8, <1>10 DEF IInv, AtMostOneReviewer

\* The holder writes what the others only read: no other attempt holds the lease.
LEMMA OneHolder ==
    ASSUME NEW e \in Executors, Holds(e), run'.holder = run.holder, Holder(e)'
    PROVE  Holders'
  BY DEF Holders, Holds

LEMMA StartKeeps ==
    ASSUME IInv, NEW e \in Executors, Start(e) \/ StartRefreshed(e)
    PROVE  IInv'
  <1>1. /\ TypeOK /\ Rows /\ Chain /\ Saved /\ Holder(e) /\ Holds(e) /\ pc[e] = "starting"
        /\ UNCHANGED <<run, rows, locked, barrier, extractions, review, approved, projected,
                       under, taken, chosen, lapses>>
        /\ pc' = [pc EXCEPT ![e] = Resumption] /\ at' = [at EXCEPT ![e] = ckpt.done + 1]
    BY DEF Start, StartRefreshed, IInv, Holders
  <1>2. \/ UNCHANGED <<ckpt, renamed>>
        \/ /\ ckpt.boundary # "none" /\ ~barrier
           /\ ckpt' = [ckpt EXCEPT !.names = approved[e], !.under = under[e]]
           /\ renamed' = (renamed \/ approved[e] # projected[e])
    BY DEF Start, StartRefreshed
  <1>3. /\ ckpt'.done = ckpt.done /\ ckpt'.boundary = ckpt.boundary
        /\ ckpt'.names \in {ckpt.names, approved[e]} /\ ckpt'.under \in {ckpt.under, under[e]}
        /\ ckpt' \in [boundary : {"none", "before", "after", "finalization"},
                      round : Targets, done : Targets, names : Revisions, under : Revisions]
        /\ renamed' \in BOOLEAN
    BY <1>1, <1>2 DEF TypeOK
  <1>4. /\ Submissions' /\ Chain'
        /\ Accepted' = Accepted /\ AllPending' = AllPending /\ Done' = Done
        /\ Unsettled' = Unsettled /\ UNCHANGED <<status, target, base, result>>
    BY <1>1, SameRows
  <1>5. Rows'
    <2>1. Settled(ckpt.done)'
      BY <1>1, <1>3, <1>4 DEF Rows, Settled
    <2>2. QED
      BY <1>1, <1>3, <1>4, <2>1 DEF Rows
  <1>6. run.revision \subseteq Done /\ approved[e] = run.revision
    BY <1>1, RevisionIsDone DEF Holder
  <1>7. Saved'
    <2>1. CASE UNCHANGED <<ckpt, renamed>>
      BY <1>1, <1>4, <2>1 DEF Saved, Settled
    <2>2. CASE /\ ckpt.boundary # "none" /\ ~barrier
               /\ ckpt' = [ckpt EXCEPT !.names = approved[e], !.under = under[e]]
               /\ renamed' = (renamed \/ approved[e] # projected[e])
      <3>1. ckpt'.names = approved[e] /\ ckpt'.under = under[e]
        BY <1>1, <2>2 DEF TypeOK
      <3>2. ~renamed' => ~renamed /\ approved[e] = projected[e]
        BY <1>1, <2>2 DEF TypeOK
      <3>3. ckpt.boundary \in {"before", "after"} /\ ~renamed' => ckpt'.names = ckpt'.under
        BY <1>1, <2>2, <3>1, <3>2 DEF Saved, Holder
      <3>4. QED
        BY <1>1, <1>3, <1>4, <1>6, <2>2, <3>1, <3>3 DEF Saved
    <2>3. QED
      BY <1>2, <2>1, <2>2
  <1>8. ckpt.done \in 0 .. MaxRounds /\ MaxRounds \in Nat /\ locked \subseteq 1 .. MaxRounds
    BY <1>1, BoundsAssumption DEF Rows, TypeOK, Rounds
  <1>9. TypeOK'
    <2>1. ckpt.done + 1 \in Targets
      BY <1>8 DEF Targets
    <2>2. Resumption \in {"finalizing", "round", "boundary", "stopping"}
      BY DEF Resumption
    <2>3. /\ pc' \in [Executors -> {"idle", "starting", "boundary", "waiting", "project",
                                    "checkpoint", "round", "stopping", "finalizing"}]
          /\ at' \in [Executors -> Targets]
      BY <1>1, <2>1, <2>2 DEF TypeOK
    <2>4. QED
      BY <1>1, <1>3, <1>4, <2>3 DEF TypeOK
  <1>10. Holder(e)'
    <2>1. pc'[e] = Resumption /\ at'[e] = ckpt.done + 1
      BY <1>1 DEF TypeOK
    <2>2. /\ ckpt.boundary # "none" => projected[e] = ckpt.names /\ under[e] = ckpt.under
          /\ ckpt.boundary = "none" => projected[e] = run.revision /\ under[e] = run.revision
      BY <1>1 DEF Holder
    <2>3. ~renamed' => ~renamed
      BY <1>1, <1>2 DEF TypeOK
    <2>4. CASE Resumption = "finalizing"
      BY <1>1, <1>4, <2>1, <2>4 DEF Holder, Entering
    <2>5. CASE Resumption = "round"
      <3>1. barrier /\ ckpt.boundary = "before" /\ ckpt.done + 1 \in locked /\ Settled(ckpt.done + 1)
        BY <1>1, <2>5 DEF Resumption, Saved
      <3>2. projected[e] = run.revision /\ (~renamed => under[e] = run.revision)
        BY <1>1, <2>2, <3>1 DEF Saved
      <3>3. ckpt.done + 1 <= MaxRounds
        BY <1>8, <3>1
      <3>4. Settled(at[e])'
        BY <1>4, <2>1, <3>1 DEF Settled
      <3>5. QED
        BY <1>1, <1>3, <1>4, <2>1, <2>3, <2>5, <3>1, <3>2, <3>3, <3>4 DEF Holder, Entering
    <2>6. CASE Resumption \in {"boundary", "stopping"}
      <3>1. ~barrier /\ ckpt.boundary # "finalization" /\ (Resumption = "boundary" => ckpt.done < MaxRounds)
        BY <2>6 DEF Resumption
      <3>2. ~renamed => under[e] = projected[e]
        BY <1>1, <2>2, <3>1 DEF Saved, TypeOK
      <3>3. Resumption = "boundary" => ckpt.done + 1 <= MaxRounds
        BY <1>8, <3>1
      <3>4. QED
        BY <1>1, <1>3, <1>4, <2>1, <2>3, <2>6, <3>1, <3>2, <3>3 DEF Holder, Entering
    <2>7. QED
      BY <2>4, <2>5, <2>6 DEF Resumption
  <1>11. Holders'
    BY <1>1, <1>10, OneHolder
  <1>12. AtMostOneReviewer'
    BY DEF IInv, AtMostOneReviewer
  <1>13. QED
    BY <1>4, <1>5, <1>7, <1>9, <1>11, <1>12 DEF IInv

LEMMA LockKeeps ==
    ASSUME IInv, NEW e \in Executors, LockRound(e)
    PROVE  IInv'
  <1>1. /\ TypeOK /\ Rows /\ Chain /\ Saved /\ Holder(e) /\ Holds(e) /\ pc[e] = "boundary" /\ ~barrier
        /\ UNCHANGED <<run, rows, ckpt, barrier, extractions, review, at, approved, projected, under,
                       taken, chosen, lapses, renamed>>
        /\ locked' = locked \cup {at[e]} /\ pc' = [pc EXCEPT ![e] = "waiting"]
        /\ at[e] = ckpt.done + 1 /\ at[e] <= MaxRounds
    BY DEF LockRound, IInv, Holders, Holder
  <1>2. /\ Submissions' /\ Chain'
        /\ Accepted' = Accepted /\ AllPending' = AllPending /\ Done' = Done
        /\ Unsettled' = Unsettled /\ UNCHANGED <<status, target, base, result>>
    BY <1>1, SameRows
  <1>3. MaxRounds \in Nat /\ ckpt.done \in 0 .. MaxRounds
    BY <1>1, BoundsAssumption DEF Rows
  <1>4. Rows'
    <2>1. locked' \in {1 .. ckpt.done, 1 .. (ckpt.done + 1)}
      BY <1>1, <1>3 DEF Rows
    <2>2. Settled(ckpt.done)'
      BY <1>1, <1>2 DEF Rows, Settled
    <2>3. \A a \in Amendments : status[a] # "absent" =>
             target[a] \in Nat \ {0} /\ target[a] - 1 \in locked' \cup {0}
      BY <1>1 DEF Rows
    <2>4. QED
      BY <1>1, <1>2, <2>1, <2>2, <2>3 DEF Rows
  <1>5. Saved'
    BY <1>1, <1>2 DEF Saved
  <1>6. TypeOK'
    <2>1. at[e] \in Rounds
      BY <1>1, <1>3 DEF Rounds
    <2>2. locked' \in SUBSET Rounds
      BY <1>1, <2>1 DEF TypeOK
    <2>3. pc' \in [Executors -> {"idle", "starting", "boundary", "waiting", "project",
                                 "checkpoint", "round", "stopping", "finalizing"}]
      BY <1>1 DEF TypeOK
    <2>4. QED
      BY <1>1, <1>2, <2>2, <2>3 DEF TypeOK
  <1>7. Holder(e)'
    <2>1. pc'[e] = "waiting"
      BY <1>1 DEF TypeOK
    <2>2. QED
      BY <1>1, <1>2, <2>1 DEF Holder, Entering
  <1>8. Holders' /\ AtMostOneReviewer'
    BY <1>1, <1>7, OneHolder DEF IInv, AtMostOneReviewer
  <1>9. QED
    BY <1>2, <1>4, <1>5, <1>6, <1>8 DEF IInv

LEMMA PrepareKeeps ==
    ASSUME IInv, NEW e \in Executors, Prepare(e)
    PROVE  IInv'
  <1> DEFINE goal == IF Pending(at[e]) = {} THEN run.revision
                     ELSE result[CHOOSE a \in Pending(at[e]) : TRUE]
             row == IF Pending(at[e]) = {} THEN 0 ELSE CHOOSE a \in Pending(at[e]) : TRUE
  <1>1. /\ TypeOK /\ Rows /\ Chain /\ Saved
        /\ UNCHANGED <<run, rows, locked, ckpt, barrier, extractions, review, at, approved,
                       projected, under, lapses, renamed>>
        /\ pc[e] = "waiting" /\ Blocking(at[e]) = {}
    BY DEF Prepare, BoundaryReady, IInv
  <1>2. \/ goal = projected[e] /\ pc' = [pc EXCEPT ![e] = "checkpoint"] /\ UNCHANGED <<taken, chosen>>
        \/ /\ pc' = [pc EXCEPT ![e] = "project"]
           /\ taken' = [taken EXCEPT ![e] = row] /\ chosen' = [chosen EXCEPT ![e] = goal]
    BY DEF Prepare
  <1>3. /\ Pending(at[e]) \subseteq AllPending /\ AllPending \subseteq Amendments
        /\ \A a \in AllPending : target[a] = at[e] => a \in Pending(at[e])
        /\ \A a \in Pending(at[e]) : target[a] = at[e] /\ status[a] = "pending" /\ a \in Accepted
    BY DEF Pending, AllPending, Accepted
  <1>4. /\ row = 0 => Pending(at[e]) = {} /\ goal = run.revision
        /\ row # 0 => row \in Pending(at[e]) /\ goal = result[row]
    BY <1>3 DEF Amendments
  <1>5. /\ row \in Amendments \cup {0} /\ goal \in Revisions
    BY <1>1, <1>3, <1>4 DEF TypeOK
  <1> HIDE DEF goal, row
  <1>6. TypeOK'
    <2>1. /\ pc' \in [Executors -> {"idle", "starting", "boundary", "waiting", "project",
                                    "checkpoint", "round", "stopping", "finalizing"}]
          /\ taken' \in [Executors -> Amendments \cup {0}] /\ chosen' \in [Executors -> Revisions]
      BY <1>1, <1>2, <1>5 DEF TypeOK
    <2>2. QED
      BY <1>1, <2>1 DEF TypeOK, rows
  <1>7. ASSUME Holds(e) PROVE Holder(e)'
    <2>1. Holder(e) /\ run.revision \subseteq Done /\ at[e] = ckpt.done + 1
      BY <1>1, <1>7, RevisionIsDone DEF IInv, Holders, Holder, Entering
    <2>2. /\ Accepted' = Accepted /\ AllPending' = AllPending /\ Done' = Done
          /\ Unsettled' = Unsettled /\ UNCHANGED <<status, target, base, result>>
      BY <1>1 DEF Accepted, AllPending, Done, Unsettled, rows
    <2>3. /\ \A a \in AllPending \cup Unsettled : target[a] \in Nat /\ target[a] > ckpt.done
          /\ ckpt.done \in Nat
      BY <1>1, BoundsAssumption DEF Rows, Settled, AllPending, Unsettled, TypeOK, Targets
    <2>4. \A a \in Unsettled : target[a] > at[e]
      <3>1. \A a \in Unsettled : target[a] # at[e]
        BY <1>1 DEF Blocking
      <3>2. QED
        BY <2>1, <2>3, <3>1
    <2>5. \A a \in AllPending : target[a] > at[e] \/ a \in Pending(at[e])
      BY <1>3, <2>1, <2>3
    <2>6. CASE goal = projected[e] /\ pc' = [pc EXCEPT ![e] = "checkpoint"] /\ UNCHANGED <<taken, chosen>>
      <3>1. row = 0
        <4> SUFFICES ASSUME row # 0 PROVE FALSE
          OBVIOUS
        <4>1. row \in Pending(at[e]) /\ row \in Accepted /\ row \in AllPending /\ status[row] = "pending"
          BY <1>3, <1>4
        <4>2. row \in result[row]
          <5>1. result[row] = {b \in Accepted : target[b] <= target[row]}
            BY <1>1, <4>1 DEF Chain
          <5>2. target[row] \in Nat
            BY <2>3, <4>1
          <5>3. target[row] <= target[row]
            BY <5>2
          <5>4. QED
            BY <4>1, <5>1, <5>3
        <4>3. row \in Done
          BY <1>4, <2>1, <2>6, <4>2 DEF Holder
        <4>4. QED
          BY <4>1, <4>3 DEF Done
      <3>2. pc'[e] = "checkpoint" /\ projected[e] = run.revision /\ Settled(at[e])
        BY <1>1, <1>4, <2>4, <2>5, <2>6, <3>1 DEF TypeOK, Settled
      <3>3. Settled(at[e])'
        BY <1>1, <2>2, <3>2 DEF Settled
      <3>4. ~renamed => under[e] = run.revision
        BY <1>1, <2>1, <3>2 DEF Holder
      <3>5. QED
        BY <1>1, <2>1, <2>2, <3>2, <3>3, <3>4 DEF Holder, Entering
    <2>7. CASE /\ pc' = [pc EXCEPT ![e] = "project"]
               /\ taken' = [taken EXCEPT ![e] = row] /\ chosen' = [chosen EXCEPT ![e] = goal]
      <3>1. pc'[e] = "project" /\ taken'[e] = row /\ chosen'[e] = goal
        BY <1>1, <2>7 DEF TypeOK
      <3>2. \A a \in AllPending : target[a] > at[e] \/ a = row
        <4>1. \A a \in Pending(at[e]) : row # 0 /\ a = row
          <5> SUFFICES ASSUME NEW a \in Pending(at[e]) PROVE row # 0 /\ a = row
            OBVIOUS
          <5>1. row # 0
            BY <1>4
          <5>2. QED
            BY <1>3, <1>4, <5>1, <1>1 DEF Chain
        <4>2. QED
          BY <2>5, <4>1
      <3>3. row # 0 => status[row] = "pending" /\ target[row] = at[e]
        BY <1>3, <1>4
      <3>4. QED
        BY <1>1, <1>4, <2>1, <2>2, <2>4, <3>1, <3>2, <3>3 DEF Holder, Entering
    <2>8. QED
      BY <1>2, <2>6, <2>7
  <1>8. Alone(e)
    BY <1>1, <1>2 DEF Alone, TypeOK
  <1>9. QED
    BY <1>1, <1>6, <1>7, <1>8, OthersHold DEF IInv, AtMostOneReviewer

\* Adopting a revision and stopping the search touch the executor's locals only.
LEMMA LocalKeeps ==
    ASSUME IInv, NEW e \in Executors, AdoptRevision(e) \/ StopSearch(e)
    PROVE  IInv'
  <1>1. /\ TypeOK /\ Chain
        /\ UNCHANGED <<run, rows, locked, ckpt, barrier, extractions, review, at, lapses, renamed>>
        /\ UNCHANGED <<status, target, base, result>>
    BY DEF AdoptRevision, StopSearch, IInv, rows
  <1>2. /\ Accepted' = Accepted /\ AllPending' = AllPending /\ Done' = Done /\ Unsettled' = Unsettled
    BY <1>1 DEF Accepted, AllPending, Done, Unsettled
  <1>3. CASE StopSearch(e)
    <2>1. /\ pc' = [pc EXCEPT ![e] = "stopping"] /\ ~barrier
          /\ UNCHANGED <<approved, projected, under, taken, chosen>>
      BY <1>3 DEF StopSearch
    <2>2. pc'[e] = "stopping" /\ Alone(e) /\ TypeOK'
      BY <1>1, <2>1 DEF TypeOK, Alone
    <2>3. Holds(e) => Holder(e)'
      BY <1>1, <1>2, <2>1, <2>2 DEF IInv, Holders, Holder, Entering
    <2>4. QED
      BY <1>1, <2>2, <2>3, OthersHold DEF IInv, AtMostOneReviewer
  <1>4. CASE AdoptRevision(e)
    <2>1. /\ pc[e] = "project" /\ (taken[e] # 0 => status[taken[e]] = "applied")
          /\ under' = [under EXCEPT ![e] = chosen[e]] /\ approved' = [approved EXCEPT ![e] = chosen[e]]
          /\ projected' = [projected EXCEPT ![e] = chosen[e]] /\ pc' = [pc EXCEPT ![e] = "checkpoint"]
          /\ taken' = [taken EXCEPT ![e] = 0] /\ chosen' = [chosen EXCEPT ![e] = {}]
      BY <1>4 DEF AdoptRevision
    <2>2. /\ pc'[e] = "checkpoint" /\ under'[e] = chosen[e] /\ approved'[e] = chosen[e]
          /\ projected'[e] = chosen[e] /\ Alone(e)
      BY <1>1, <2>1 DEF TypeOK, Alone
    <2>3. TypeOK'
      <3>1. chosen[e] \in Revisions /\ {} \in Revisions
        BY <1>1 DEF TypeOK, Revisions
      <3>2. /\ under' \in [Executors -> Revisions] /\ approved' \in [Executors -> Revisions]
            /\ projected' \in [Executors -> Revisions] /\ chosen' \in [Executors -> Revisions]
        BY <1>1, <2>1, <3>1 DEF TypeOK
      <3>3. /\ pc' \in [Executors -> {"idle", "starting", "boundary", "waiting", "project",
                                      "checkpoint", "round", "stopping", "finalizing"}]
            /\ taken' \in [Executors -> Amendments \cup {0}]
        BY <1>1, <2>1 DEF TypeOK
      <3>4. QED
        BY <1>1, <3>2, <3>3 DEF TypeOK
    <2>4. ASSUME Holds(e) PROVE Holder(e)'
      <3>1. Holder(e) /\ run.revision \subseteq Done
        BY <1>1, <2>4, RevisionIsDone DEF IInv, Holders
      <3>2. taken[e] = 0 /\ chosen[e] = run.revision
        BY <2>1, <3>1 DEF Holder
      <3>3. Settled(at[e])
        <4>1. \A a \in AllPending : a # 0
          BY DEF AllPending, Amendments
        <4>2. QED
          BY <2>1, <3>1, <3>2, <4>1 DEF Holder, Settled
      <3>4. Settled(at[e])'
        BY <1>1, <1>2, <3>3 DEF Settled
      <3>5. QED
        BY <1>1, <1>2, <2>1, <2>2, <3>1, <3>2, <3>4 DEF Holder, Entering
    <2>5. QED
      BY <1>1, <2>2, <2>3, <2>4, OthersHold DEF IInv, AtMostOneReviewer
  <1>5. QED
    BY <1>3, <1>4

\* A step of the holder that writes the checkpoint or the barrier of its round.
LEMMA HolderWrites ==
    ASSUME IInv, NEW e \in Executors, Holds(e),
           UNCHANGED <<run, rows, locked, extractions, review, lapses, renamed>>,
           TypeOK', ckpt'.done \in 0 .. MaxRounds, Settled(ckpt'.done),
           locked \in {1 .. ckpt'.done, 1 .. (ckpt'.done + 1)},
           Saved', Holder(e)'
    PROVE  IInv'
  <1>1. /\ Submissions' /\ Chain'
        /\ Accepted' = Accepted /\ AllPending' = AllPending /\ Done' = Done
        /\ Unsettled' = Unsettled /\ UNCHANGED <<status, target, base, result>>
    BY SameRows
  <1>2. Settled(ckpt.done)'
    BY <1>1 DEF Settled
  <1>3. Rows'
    BY <1>1, <1>2 DEF IInv, Rows
  <1>4. Holders' /\ AtMostOneReviewer'
    BY OneHolder DEF IInv, AtMostOneReviewer
  <1>5. QED
    BY <1>1, <1>3, <1>4 DEF IInv

LEMMA EnterRoundKeeps ==
    ASSUME IInv, NEW e \in Executors, EnterRound(e)
    PROVE  IInv'
  <1>1. /\ TypeOK /\ Rows /\ Saved /\ Holder(e) /\ Holds(e) /\ pc[e] = "checkpoint" /\ Chain
        /\ UNCHANGED <<run, rows, locked, barrier, extractions, review, at, approved, projected,
                       under, taken, chosen, lapses, renamed>>
        /\ ckpt' = [boundary |-> "before", round |-> at[e], done |-> at[e] - 1,
                    names |-> approved[e], under |-> under[e]]
        /\ pc' = [pc EXCEPT ![e] = "round"]
    BY DEF EnterRound, WriteCheckpoint, IInv, Holders
  <1>2. /\ Accepted' = Accepted /\ AllPending' = AllPending /\ Done' = Done
        /\ Unsettled' = Unsettled /\ UNCHANGED <<status, target, base, result>>
    BY <1>1 DEF Accepted, AllPending, Done, Unsettled, rows
  <1>3. /\ MaxRounds \in Nat /\ ckpt.done \in 0 .. MaxRounds
        /\ at[e] = ckpt.done + 1 /\ at[e] <= MaxRounds /\ at[e] - 1 = ckpt.done
        /\ ~barrier /\ approved[e] = run.revision /\ run.revision \subseteq Done
        /\ Settled(at[e]) /\ projected[e] = run.revision /\ (~renamed => under[e] = run.revision)
    <2>1. MaxRounds \in Nat /\ ckpt.done \in 0 .. MaxRounds /\ run.revision \subseteq Done
      BY <1>1, BoundsAssumption, RevisionIsDone DEF Rows
    <2>2. at[e] = ckpt.done + 1 /\ at[e] <= MaxRounds /\ ~barrier /\ approved[e] = run.revision
      BY <1>1 DEF Holder, Entering
    <2>3. Settled(at[e]) /\ projected[e] = run.revision /\ (~renamed => under[e] = run.revision)
      BY <1>1 DEF Holder
    <2>4. QED
      BY <2>1, <2>2, <2>3
  <1>4. /\ ckpt'.boundary = "before" /\ ckpt'.done = ckpt.done
        /\ ckpt'.names = run.revision /\ ckpt'.under = under[e] /\ pc'[e] = "round"
    BY <1>1, <1>3 DEF TypeOK
  <1>5. TypeOK'
    <2>1. at[e] \in Targets /\ at[e] - 1 \in Targets /\ approved[e] \in Revisions /\ under[e] \in Revisions
      BY <1>1, <1>3 DEF TypeOK, Targets
    <2>2. ckpt' \in [boundary : {"none", "before", "after", "finalization"},
                     round : Targets, done : Targets, names : Revisions, under : Revisions]
      BY <1>1, <2>1
    <2>3. pc' \in [Executors -> {"idle", "starting", "boundary", "waiting", "project",
                                 "checkpoint", "round", "stopping", "finalizing"}]
      BY <1>1 DEF TypeOK
    <2>4. QED
      BY <1>1, <1>2, <2>2, <2>3 DEF TypeOK
  <1>6. Saved'
    BY <1>1, <1>2, <1>3, <1>4 DEF Saved
  <1>7. Settled(at[e])'
    BY <1>1, <1>2, <1>3 DEF Settled
  <1>8. Holder(e)'
    BY <1>1, <1>2, <1>3, <1>4, <1>7 DEF Holder, Entering
  <1>9. QED
    BY <1>1, <1>3, <1>4, <1>5, <1>6, <1>8, HolderWrites DEF Rows

LEMMA OpenBarrierKeeps ==
    ASSUME IInv, NEW e \in Executors, OpenBarrier(e)
    PROVE  IInv'
  <1>1. /\ TypeOK /\ Rows /\ Saved /\ Holder(e) /\ Holds(e) /\ pc[e] = "round"
        /\ UNCHANGED <<run, rows, locked, ckpt, extractions, review, lapses, renamed>>
        /\ UNCHANGED <<pc, at, approved, projected, under, taken, chosen>> /\ barrier'
    BY DEF OpenBarrier, execVars, IInv, Holders
  <1>2. /\ Accepted' = Accepted /\ AllPending' = AllPending /\ Done' = Done
        /\ Unsettled' = Unsettled /\ UNCHANGED <<status, target, base, result>>
    BY <1>1 DEF Accepted, AllPending, Done, Unsettled, rows
  <1>3. /\ ckpt.boundary = "before" /\ ckpt.names = run.revision /\ at[e] = ckpt.done + 1
        /\ at[e] \in locked /\ Settled(at[e])
    BY <1>1 DEF Holder, Entering
  <1>4. TypeOK'
    BY <1>1, <1>2 DEF TypeOK, OpenBarrier
  <1>5. Settled(at[e])'
    BY <1>1, <1>2, <1>3 DEF Settled
  <1>6. Settled(ckpt.done + 1)'
    BY <1>1, <1>2, <1>3 DEF Settled
  <1>7. Saved'
    BY <1>1, <1>2, <1>3, <1>6 DEF Saved
  <1>8. Holder(e)'
    BY <1>1, <1>2, <1>3, <1>5 DEF Holder, Entering
  <1>9. QED
    BY <1>1, <1>4, <1>7, <1>8, HolderWrites DEF Rows

LEMMA FinishRoundKeeps ==
    ASSUME IInv, NEW e \in Executors, FinishRound(e)
    PROVE  IInv'
  <1> DEFINE next == IF at[e] < MaxRounds THEN "boundary" ELSE "stopping"
             then == IF at[e] < MaxRounds THEN at[e] + 1 ELSE at[e]
  <1>1. /\ TypeOK /\ Rows /\ Saved /\ Holder(e) /\ Holds(e) /\ pc[e] = "round" /\ Chain
        /\ UNCHANGED <<run, rows, locked, extractions, review, approved, projected, under,
                       taken, chosen, lapses, renamed>>
        /\ ckpt' = [boundary |-> "after", round |-> at[e], done |-> at[e],
                    names |-> approved[e], under |-> under[e]]
        /\ ~barrier'
    BY DEF FinishRound, WriteCheckpoint, IInv, Holders
  <1>2. /\ Accepted' = Accepted /\ AllPending' = AllPending /\ Done' = Done
        /\ Unsettled' = Unsettled /\ UNCHANGED <<status, target, base, result>>
    BY <1>1 DEF Accepted, AllPending, Done, Unsettled, rows
  <1>3. /\ MaxRounds \in Nat /\ ckpt.done \in 0 .. MaxRounds
        /\ at[e] = ckpt.done + 1 /\ at[e] <= MaxRounds /\ at[e] \in locked
        /\ approved[e] = run.revision /\ run.revision \subseteq Done
        /\ Settled(at[e]) /\ projected[e] = run.revision /\ (~renamed => under[e] = run.revision)
    <2>1. MaxRounds \in Nat /\ ckpt.done \in 0 .. MaxRounds /\ run.revision \subseteq Done
      BY <1>1, BoundsAssumption, RevisionIsDone DEF Rows
    <2>2. at[e] = ckpt.done + 1 /\ at[e] <= MaxRounds /\ at[e] \in locked /\ approved[e] = run.revision
      BY <1>1 DEF Holder, Entering
    <2>3. Settled(at[e]) /\ projected[e] = run.revision /\ (~renamed => under[e] = run.revision)
      BY <1>1 DEF Holder
    <2>4. QED
      BY <2>1, <2>2, <2>3
  <1>4. /\ ckpt'.boundary = "after" /\ ckpt'.done = at[e]
        /\ ckpt'.names = run.revision /\ ckpt'.under = under[e]
    BY <1>1, <1>3
  <1>5. pc' = [pc EXCEPT ![e] = next] /\ at' = [at EXCEPT ![e] = then]
    BY <1>1 DEF FinishRound, TypeOK
  <1>6. /\ next \in {"boundary", "stopping"} /\ then \in Targets
        /\ next = "boundary" => then = at[e] + 1 /\ then <= MaxRounds
    BY <1>3 DEF Targets
  <1> HIDE DEF next, then
  <1>7. pc'[e] = next /\ at'[e] = then
    BY <1>1, <1>5 DEF TypeOK
  <1>8. TypeOK'
    <2>1. at[e] \in Targets /\ approved[e] \in Revisions /\ under[e] \in Revisions
      BY <1>1 DEF TypeOK
    <2>2. ckpt' \in [boundary : {"none", "before", "after", "finalization"},
                     round : Targets, done : Targets, names : Revisions, under : Revisions]
      BY <1>1, <2>1
    <2>3. /\ pc' \in [Executors -> {"idle", "starting", "boundary", "waiting", "project",
                                    "checkpoint", "round", "stopping", "finalizing"}]
          /\ at' \in [Executors -> Targets]
      BY <1>1, <1>5, <1>6 DEF TypeOK
    <2>4. barrier' \in BOOLEAN
      BY DEF FinishRound
    <2>5. QED
      BY <1>1, <1>2, <2>2, <2>3, <2>4 DEF TypeOK
  <1>9. Saved'
    BY <1>1, <1>2, <1>3, <1>4 DEF Saved
  <1>10. Holder(e)'
    BY <1>1, <1>2, <1>3, <1>4, <1>6, <1>7 DEF Holder, Entering
  <1>11. at[e] \in 0 .. MaxRounds /\ locked \in {1 .. at[e], 1 .. (at[e] + 1)}
    <2>1. locked \in {1 .. ckpt.done, 1 .. (ckpt.done + 1)}
      BY <1>1 DEF Rows
    <2>2. ckpt.done + 1 \notin 1 .. ckpt.done
      BY <1>3
    <2>3. QED
      BY <1>3, <2>1, <2>2
  <1>12. QED
    BY <1>1, <1>3, <1>4, <1>8, <1>9, <1>10, <1>11, HolderWrites

LEMMA EnterFinalizationKeeps ==
    ASSUME IInv, NEW e \in Executors, EnterFinalization(e)
    PROVE  IInv'
  <1>1. /\ TypeOK /\ Rows /\ Saved /\ Holder(e) /\ Holds(e) /\ pc[e] = "stopping" /\ Chain
        /\ UNCHANGED <<run, rows, locked, barrier, extractions, review, at, approved, projected,
                       under, taken, chosen, lapses, renamed>>
        /\ ckpt' = [boundary |-> "finalization", round |-> ckpt.done, done |-> ckpt.done,
                    names |-> approved[e], under |-> under[e]]
        /\ pc' = [pc EXCEPT ![e] = "finalizing"]
    BY DEF EnterFinalization, WriteCheckpoint, IInv, Holders
  <1>2. /\ Accepted' = Accepted /\ AllPending' = AllPending /\ Done' = Done
        /\ Unsettled' = Unsettled /\ UNCHANGED <<status, target, base, result>>
    BY <1>1 DEF Accepted, AllPending, Done, Unsettled, rows
  <1>3. ~barrier /\ approved[e] = run.revision /\ run.revision \subseteq Done
    BY <1>1, RevisionIsDone DEF Holder
  <1>4. /\ ckpt'.boundary = "finalization" /\ ckpt'.done = ckpt.done /\ ckpt'.names = run.revision
        /\ pc'[e] = "finalizing"
    BY <1>1, <1>3 DEF TypeOK
  <1>5. TypeOK'
    <2>1. ckpt.done \in Targets /\ approved[e] \in Revisions /\ under[e] \in Revisions
      BY <1>1 DEF TypeOK
    <2>2. ckpt' \in [boundary : {"none", "before", "after", "finalization"},
                     round : Targets, done : Targets, names : Revisions, under : Revisions]
      BY <1>1, <2>1
    <2>3. pc' \in [Executors -> {"idle", "starting", "boundary", "waiting", "project",
                                 "checkpoint", "round", "stopping", "finalizing"}]
      BY <1>1 DEF TypeOK
    <2>4. QED
      BY <1>1, <1>2, <2>2, <2>3 DEF TypeOK
  <1>6. Saved'
    BY <1>1, <1>2, <1>3, <1>4 DEF Saved
  <1>7. Holder(e)'
    BY <1>1, <1>2, <1>3, <1>4 DEF Holder, Entering
  <1>8. QED
    BY <1>1, <1>4, <1>5, <1>6, <1>7, HolderWrites DEF Rows

\* The row of the boundary becomes part of the run's revision.
LEMMA ActivateKeeps ==
    ASSUME IInv, NEW e \in Executors, Activate(e)
    PROVE  IInv'
  <1> DEFINE p == taken[e]
  <1>1. /\ TypeOK /\ Rows /\ Submissions /\ Saved /\ Holder(e) /\ Holds(e) /\ Chain
        /\ pc[e] = "project" /\ p # 0 /\ status[p] = "pending" /\ target[p] = at[e]
        /\ status' = [status EXCEPT ![p] = "applied"]
        /\ run' = [run EXCEPT !.revision = result[p]]
        /\ UNCHANGED <<target, base, result, locked, ckpt, barrier, extractions, review, at,
                       lapses, renamed>>
        /\ under' = [under EXCEPT ![e] = chosen[e]] /\ approved' = [approved EXCEPT ![e] = chosen[e]]
        /\ projected' = [projected EXCEPT ![e] = chosen[e]] /\ pc' = [pc EXCEPT ![e] = "checkpoint"]
        /\ taken' = [taken EXCEPT ![e] = 0] /\ chosen' = [chosen EXCEPT ![e] = {}]
    BY DEF Activate, IInv, Holders
  <1>2. p \in Amendments /\ result[p] \in Revisions /\ chosen[e] \in Revisions
    BY <1>1 DEF TypeOK
  <1>3. /\ MaxRounds \in Nat /\ ckpt.done \in 0 .. MaxRounds
        /\ at[e] = ckpt.done + 1 /\ at[e] <= MaxRounds /\ at[e] \in locked
        /\ ~barrier /\ chosen[e] = result[p]
        /\ \A a \in Unsettled : target[a] > at[e]
        /\ \A a \in AllPending : target[a] > at[e] \/ a = p
        /\ \A a \in Amendments : target[a] \in Nat
    <2>1. MaxRounds \in Nat /\ ckpt.done \in 0 .. MaxRounds
      BY <1>1, BoundsAssumption DEF Rows
    <2>2. at[e] = ckpt.done + 1 /\ at[e] <= MaxRounds /\ at[e] \in locked /\ ~barrier
      BY <1>1 DEF Holder, Entering
    <2>3. /\ chosen[e] = result[p] /\ \A a \in Unsettled : target[a] > at[e]
          /\ \A a \in AllPending : target[a] > at[e] \/ a = p
      BY <1>1 DEF Holder
    <2>4. \A a \in Amendments : target[a] \in Nat
      BY <1>1, BoundsAssumption DEF TypeOK, Targets
    <2>5. QED
      BY <2>1, <2>2, <2>3, <2>4
  <1>4. locked = 1 .. at[e]
    <2>1. locked \in {1 .. ckpt.done, 1 .. (ckpt.done + 1)}
      BY <1>1 DEF Rows
    <2>2. ckpt.done + 1 \notin 1 .. ckpt.done
      BY <1>3
    <2>3. QED
      BY <1>3, <2>1, <2>2
  <1> HIDE DEF p
  <1>5. status'[p] = "applied" /\ \A a \in Amendments \ {p} : status'[a] = status[a]
    BY <1>1, <1>2 DEF TypeOK
  <1>6. /\ Accepted' = Accepted /\ AllPending' = AllPending \ {p} /\ Done' = Done \cup {p}
        /\ Unsettled' = Unsettled /\ p \in AllPending
        /\ AllPending \subseteq Accepted /\ Accepted \subseteq Amendments
    BY <1>1, <1>2, <1>5 DEF Accepted, AllPending, Done, Unsettled
  <1>7. /\ run'.revision = result[p] /\ run'.holder = run.holder /\ run'.status = run.status
        /\ run' \in [status : Live \cup {"completed", "failed", "cancelled"},
                     revision : Revisions, holder : Executors \cup {NoOne}]
    BY <1>1, <1>2 DEF TypeOK
  <1>8. ASSUME NEW b \in Accepted, target[b] \notin locked
        PROVE  \E q \in AllPending \ {p} : target[q] = target[b]
    <2>1. PICK q \in AllPending : target[q] = target[b]
      BY <1>1, <1>8 DEF Chain
    <2>2. q # p
      BY <1>1, <1>3, <1>8, <2>1
    <2>3. QED
      BY <2>1, <2>2
  <1>9. Chain'
    <2>1. \A a, b \in AllPending' : target'[a] = target'[b] => a = b
      BY <1>1, <1>6 DEF Chain
    <2>2. \A q \in AllPending' : result'[q] = {b \in Accepted' : target'[b] <= target'[q]}
      BY <1>1, <1>6 DEF Chain
    <2>3. run'.revision = {b \in Accepted' : \A q \in AllPending' : target'[b] < target'[q]}
      <3>1. run'.revision = {b \in Accepted : target[b] <= at[e]}
        <4>1. result[p] = {b \in Accepted : target[b] <= target[p]}
          BY <1>1, <1>6 DEF Chain
        <4>2. QED
          BY <1>1, <1>7, <4>1
      <3>2. ASSUME NEW b \in Accepted
            PROVE  target[b] <= at[e] <=> \A q \in AllPending \ {p} : target[b] < target[q]
        <4>1. b \in Amendments /\ target[b] \in Nat /\ \A q \in AllPending : target[q] \in Nat
          BY <1>3, <1>6
        <4>2. target[b] <= at[e] => \A q \in AllPending \ {p} : target[b] < target[q]
          BY <1>3, <4>1
        <4>3. ASSUME ~(target[b] <= at[e])
              PROVE  ~(\A q \in AllPending \ {p} : target[b] < target[q])
          <5>1. target[b] \notin locked
            BY <1>3, <1>4, <4>1, <4>3
          <5>2. PICK q \in AllPending \ {p} : target[q] = target[b]
            BY <1>8, <5>1
          <5>3. ~(target[b] < target[q])
            BY <4>1, <5>2
          <5>4. QED
            BY <5>3
        <4>4. QED
          BY <4>2, <4>3
      <3>3. QED
        BY <1>1, <1>6, <3>1, <3>2
    <2>4. \A b \in Accepted' : target'[b] \notin locked' => \E q \in AllPending' : target'[q] = target'[b]
      BY <1>1, <1>6, <1>8
    <2>5. QED
      BY <2>1, <2>2, <2>3, <2>4 DEF Chain
  <1>10. Submissions'
    <2>1. \A a \in extractions : status'[a] = "extracting"
      BY <1>1, <1>5 DEF Submissions, TypeOK
    <2>2. \A v \in Reviewers : review[v].row # 0 =>
             /\ status'[review[v].row] = "needs_review"
             /\ review[v].base = base[review[v].row]
             /\ review[v].after = target[review[v].row] - 1
      <3> SUFFICES ASSUME NEW v \in Reviewers, review[v].row # 0
                   PROVE  /\ status'[review[v].row] = "needs_review"
                          /\ review[v].base = base[review[v].row]
                          /\ review[v].after = target[review[v].row] - 1
        OBVIOUS
      <3>1. /\ review[v].row \in Amendments /\ status[review[v].row] = "needs_review"
            /\ review[v].base = base[review[v].row]
            /\ review[v].after = target[review[v].row] - 1
        BY <1>1 DEF Submissions, TypeOK
      <3>2. review[v].row # p
        BY <1>1, <3>1
      <3>3. QED
        BY <1>5, <3>1, <3>2
    <2>3. ASSUME NEW a \in Unsettled
          PROVE  /\ base[a] = Accepted
                 /\ \A b \in Accepted : target[b] <= target[a]
                 /\ \A b \in Accepted : target[b] = target[a] =>
                       \E q \in AllPending \ {p} : target[q] = target[a]
      <3>1. /\ base[a] = Accepted /\ \A b \in Accepted : target[b] <= target[a]
            /\ \A b \in Accepted : target[b] = target[a] => \E q \in AllPending : target[q] = target[a]
        BY <1>1 DEF Submissions
      <3>2. target[a] # target[p]
        <4>1. target[a] > at[e]
          BY <1>3
        <4>2. QED
          BY <1>1, <1>3, <4>1
      <3>3. QED
        BY <3>1, <3>2
    <2>4. \A a, b \in Unsettled' : a = b
      BY <1>1, <1>6 DEF Submissions
    <2>5. QED
      BY <1>1, <1>6, <2>1, <2>2, <2>3, <2>4 DEF Submissions
  <1>11. Settled(at[e])' /\ Settled(ckpt.done)'
    <2>1. \A a \in (AllPending \cup Unsettled)' : target'[a] > at[e] /\ a \in AllPending \cup Unsettled
      BY <1>1, <1>3, <1>6
    <2>2. Settled(ckpt.done)
      BY <1>1 DEF Rows
    <2>3. at[e] = at'[e]
      BY <1>1
    <2>4. QED
      BY <1>1, <2>1, <2>2 DEF Settled
  <1>12. Rows'
    <2>1. \A a \in Amendments : status'[a] # "absent" => status[a] # "absent"
      BY <1>1, <1>5
    <2>2. QED
      BY <1>1, <1>11, <2>1 DEF Rows
  <1>13. Saved'
    BY <1>1, <1>3, <1>6 DEF Saved
  <1>14. TypeOK'
    <2>1. status' \in [Amendments -> {"absent", "extracting", "needs_review", "pending",
                                      "superseded", "applied", "failed"}]
      BY <1>1 DEF TypeOK
    <2>2. /\ under' \in [Executors -> Revisions] /\ approved' \in [Executors -> Revisions]
          /\ projected' \in [Executors -> Revisions] /\ chosen' \in [Executors -> Revisions]
      <3>1. {} \in Revisions
        BY DEF Revisions
      <3>2. QED
        BY <1>1, <1>2, <3>1 DEF TypeOK
    <2>3. /\ pc' \in [Executors -> {"idle", "starting", "boundary", "waiting", "project",
                                    "checkpoint", "round", "stopping", "finalizing"}]
          /\ taken' \in [Executors -> Amendments \cup {0}]
      BY <1>1 DEF TypeOK
    <2>4. QED
      BY <1>1, <1>7, <2>1, <2>2, <2>3 DEF TypeOK
  <1>15. Holder(e)'
    <2>1. /\ pc'[e] = "checkpoint" /\ under'[e] = result[p] /\ approved'[e] = result[p]
          /\ projected'[e] = result[p]
      BY <1>1, <1>3 DEF TypeOK
    <2>2. run'.revision \subseteq Done'
      <3>1. result[p] = {b \in Accepted : target[b] <= target[p]}
        BY <1>1, <1>6 DEF Chain
      <3>2. \A b \in result[p] : b \in Accepted /\ b \in Amendments /\ target[b] <= at[e]
        BY <1>1, <1>6, <3>1
      <3>3. \A b \in result[p] : b \notin AllPending \ {p}
        BY <1>3, <3>2
      <3>4. \A b \in Accepted : b \in AllPending \/ b \in Done
        BY DEF Accepted, AllPending, Done
      <3>5. QED
        BY <1>6, <1>7, <3>2, <3>3, <3>4
    <2>3. QED
      BY <1>1, <1>3, <1>7, <1>11, <2>1, <2>2 DEF Holder, Entering
  <1>16. Holders' /\ AtMostOneReviewer'
    BY <1>1, <1>7, <1>15, OneHolder DEF IInv, AtMostOneReviewer
  <1>17. QED
    BY <1>9, <1>10, <1>12, <1>13, <1>14, <1>16 DEF IInv

-----------------------------------------------------------------------------
(* The invariant.                                                          *)

LEMMA InitHolds ==
    ASSUME AtMostOneReviewer, Init
    PROVE  IInv
  <1>1. 0 \in Targets /\ {} \in Revisions /\ 0 \in 0 .. MaxLapses /\ MaxRounds \in Nat
    BY BoundsAssumption DEF Targets, Revisions
  <1>2. TypeOK
    <2>1. /\ run \in [status : Live \cup {"completed", "failed", "cancelled"},
                      revision : Revisions, holder : Executors \cup {NoOne}]
          /\ ckpt \in [boundary : {"none", "before", "after", "finalization"},
                       round : Targets, done : Targets, names : Revisions, under : Revisions]
          /\ review \in [Reviewers -> [row : Amendments \cup {0}, after : Targets, base : Revisions]]
      BY <1>1 DEF Init, NoCheckpoint, NoReview, Live
    <2>2. QED
      BY <1>1, <2>1 DEF Init, TypeOK
  <1>3. Accepted = {} /\ AllPending = {} /\ Done = {} /\ Unsettled = {}
    BY DEF Init, Accepted, AllPending, Done, Unsettled
  <1>4. Rows
    BY <1>1, <1>3 DEF Init, NoCheckpoint, Rows, Settled
  <1>5. Submissions /\ Chain
    BY <1>3 DEF Init, NoReview, Submissions, Chain
  <1>6. Saved
    BY DEF Init, NoCheckpoint, Saved
  <1>7. Holders
    BY NoOneAssumption DEF Init, Holders, Holds
  <1>8. QED
    BY <1>2, <1>4, <1>5, <1>6, <1>7 DEF IInv

LEMMA StutterKeeps ==
    ASSUME IInv, UNCHANGED vars
    PROVE  IInv'
  <1>1. /\ UNCHANGED <<run, rows, locked, ckpt, barrier, extractions, review, lapses, renamed>>
        /\ UNCHANGED <<pc, at, approved, projected, under, taken, chosen>>
        /\ UNCHANGED <<status, target, base, result>>
    BY DEF vars, rows, execVars
  <1>2. /\ Accepted' = Accepted /\ AllPending' = AllPending /\ Done' = Done /\ Unsettled' = Unsettled
    BY <1>1 DEF Accepted, AllPending, Done, Unsettled
  <1>3. TypeOK'
    BY <1>1 DEF IInv, TypeOK
  <1>4. Rows'
    BY <1>1, <1>2 DEF IInv, Rows, Settled
  <1>5. Submissions' /\ Chain'
    BY <1>1, <1>2 DEF IInv, Submissions, Chain
  <1>6. Saved'
    BY <1>1, <1>2 DEF IInv, Saved, Settled
  <1>7. ASSUME NEW e \in Executors, Holds(e) PROVE Holder(e)'
    <2>1. Holder(e) /\ (Settled(at[e]) => Settled(at[e])')
      BY <1>1, <1>2, <1>7 DEF IInv, Holders, Settled
    <2>2. QED
      BY <1>1, <1>2, <2>1 DEF Holder
  <1>8. Holders'
    BY <1>1, <1>7 DEF Holders, Holds, Open
  <1>9. QED
    BY <1>3, <1>4, <1>5, <1>6, <1>8 DEF IInv, AtMostOneReviewer

LEMMA StepKeeps ==
    ASSUME IInv, [Next]_vars
    PROVE  IInv'
  <1>1. CASE \E after \in {0} \cup locked : Reserve(after)
    BY <1>1, ReserveKeeps
  <1>2. CASE \E a \in Amendments :
                ExtractionCompletes(a) \/ ExtractionStops(a) \/ SubmitterDies(a)
    BY <1>2, CompletesKeeps, StopsKeeps, QuietKeeps
  <1>3. CASE \E v \in Reviewers : ResolveReview(v) \/ \E a \in Amendments : BeginReview(v, a)
    BY <1>3, ResolveKeeps, QuietKeeps
  <1>4. CASE \E e \in Executors : Claim(e) \/ ExecutorStep(e)
    <2>1. PICK e \in Executors : Claim(e) \/ ExecutorStep(e)
      BY <1>4
    <2>2. CASE Claim(e)
      BY <2>2, ClaimKeeps
    <2>3. CASE Start(e) \/ StartRefreshed(e)
      BY <2>3, StartKeeps
    <2>4. CASE LockRound(e)
      BY <2>4, LockKeeps
    <2>5. CASE Prepare(e)
      BY <2>5, PrepareKeeps
    <2>6. CASE AdoptRevision(e) \/ StopSearch(e)
      BY <2>6, LocalKeeps
    <2>7. CASE Activate(e)
      BY <2>7, ActivateKeeps
    <2>8. CASE EnterRound(e)
      BY <2>8, EnterRoundKeeps
    <2>9. CASE OpenBarrier(e)
      BY <2>9, OpenBarrierKeeps
    <2>10. CASE FinishRound(e)
      BY <2>10, FinishRoundKeeps
    <2>11. CASE EnterFinalization(e)
      BY <2>11, EnterFinalizationKeeps
    <2>12. CASE Complete(e) \/ RunFails(e) \/ Park(e) \/ FencedOut(e)
      BY <2>12, EndKeeps
    <2>13. BoundaryFails(e) \/ WorkFails(e) => RunFails(e)
      BY DEF BoundaryFails, WorkFails
    <2>14. CASE ReportRunning(e)
      BY <2>14, StatusKeeps
    <2>15. QED
      BY <2>1, <2>2, <2>3, <2>4, <2>5, <2>6, <2>7, <2>8, <2>9, <2>10, <2>11, <2>12, <2>13,
         <2>14 DEF ExecutorStep
  <1>5. CASE LoseLease \/ CancelRun
    BY <1>5, EndKeeps
  <1>6. CASE Unpark \/ PauseWaiting
    BY <1>6, StatusKeeps
  <1>7. CASE UNCHANGED vars
    BY <1>7, StutterKeeps
  <1>8. QED
    BY <1>1, <1>2, <1>3, <1>4, <1>5, <1>6, <1>7 DEF Next

\* The invariant of the amendments, over all the steps of submitters, the reviewer
\* and the execution attempts.
THEOREM AmendmentInvariant == AtMostOneReviewer /\ Spec => []IInv
  <1>1. AtMostOneReviewer /\ Init => IInv
    BY InitHolds
  <1>2. IInv /\ [Next]_vars => IInv'
    BY StepKeeps
  <1>3. QED
    BY <1>1, <1>2, PTL DEF Spec

-----------------------------------------------------------------------------
(* What follows.                                                           *)

\* The rows of runtime_requirement_amendments, the checkpoint and the closures of
\* an execution attempt keep their types.
THEOREM AmendmentTypes == AtMostOneReviewer /\ Spec => []TypeOK
  <1>1. IInv => TypeOK
    BY DEF IInv
  <1>2. QED
    BY <1>1, AmendmentInvariant, PTL

\* The boundary never finds two pending rows for its round, so commands.py:573
\* never raises runtime_requirement_amendment_chain_conflict.
THEOREM RowsDoNotConflict == AtMostOneReviewer /\ Spec => []OnePendingPerRound
  <1>1. IInv => OnePendingPerRound
    <2> SUFFICES ASSUME IInv, NEW k \in 1 .. (MaxRounds + 1) PROVE Cardinality(Pending(k)) <= 1
      BY DEF OnePendingPerRound
    <2>1. \A a, b \in Pending(k) : a = b
      BY DEF Pending, IInv, Chain, AllPending
    <2>2. CASE Pending(k) = {}
      BY <2>2, FS_EmptySet
    <2>3. CASE Pending(k) # {}
      <3>1. PICK a : Pending(k) = {a}
        BY <2>1, <2>3
      <3>2. Cardinality({a}) = 1
        BY FS_Singleton
      <3>3. QED
        BY <3>1, <3>2
    <2>4. QED
      BY <2>2, <2>3
  <1>2. QED
    BY <1>1, AmendmentInvariant, PTL

\* The query terms and scorecards of the round being searched are projected under
\* the run's active revision (executor.py:285), unless a refresh renamed a
\* checkpoint.
THEOREM RoundsUseTheRevision == AtMostOneReviewer /\ Spec => []RoundUsesActiveRevision
  <1>1. IInv => RoundUsesActiveRevision
    BY DEF IInv, Holders, Holder, RoundUsesActiveRevision, InRound
  <1>2. QED
    BY <1>1, AmendmentInvariant, PTL

\* A round is searched under exactly the amendments submitted for it or for an
\* earlier one (store.py:3247, commands.py:530), unless a refresh renamed a
\* checkpoint.
THEOREM SubmissionsAreHonoured == AtMostOneReviewer /\ Spec => []RoundHonoursSubmissions
  <1>1. ASSUME IInv, NEW e \in Executors, InRound(e), ~renamed
        PROVE  under[e] = Submitted(at[e])
    <2>1. /\ TypeOK /\ Rows /\ Chain /\ Holder(e) /\ pc[e] = "round"
      BY <1>1 DEF IInv, Holders, InRound
    <2>2. /\ under[e] = run.revision /\ Settled(at[e]) /\ at[e] \in locked
          /\ at[e] = ckpt.done + 1 /\ ckpt.done \in Nat /\ \A a \in Amendments : target[a] \in Nat
      BY <1>1, <2>1, BoundsAssumption DEF Holder, Entering, Rows, TypeOK, Targets
    <2>3. locked = 1 .. at[e]
      <3>1. locked \in {1 .. ckpt.done, 1 .. (ckpt.done + 1)}
        BY <2>1 DEF Rows
      <3>2. ckpt.done + 1 \notin 1 .. ckpt.done
        BY <2>2
      <3>3. QED
        BY <2>2, <3>1, <3>2
    <2>4. ASSUME NEW a \in Amendments PROVE a \in run.revision <=> a \in Submitted(at[e])
      <3>1. CASE a \in Accepted
        <4>1. a \in Submitted(at[e]) <=> target[a] <= at[e]
          BY <3>1 DEF Submitted, Accepted
        <4>2. target[a] <= at[e] => \A p \in AllPending : target[a] < target[p]
          BY <2>2 DEF Settled, AllPending
        <4>3. ASSUME ~(target[a] <= at[e]) PROVE ~(\A p \in AllPending : target[a] < target[p])
          <5>1. target[a] \notin locked
            BY <2>2, <2>3, <4>3
          <5>2. PICK p \in AllPending : target[p] = target[a]
            BY <2>1, <3>1, <5>1 DEF Chain
          <5>3. ~(target[a] < target[p])
            BY <2>2, <5>2
          <5>4. QED
            BY <5>3
        <4>4. a \in run.revision <=> \A p \in AllPending : target[a] < target[p]
          BY <2>1, <3>1 DEF Chain
        <4>5. QED
          BY <4>1, <4>2, <4>3, <4>4
      <3>2. CASE a \notin Accepted
        <4>1. a \notin run.revision
          BY <2>1, <3>2 DEF Chain
        <4>2. status[a] \in {"absent", "failed"} \/ a \in Unsettled
          BY <2>1, <3>2 DEF TypeOK, Accepted, Unsettled
        <4>3. a \in Unsettled => ~(target[a] <= at[e])
          BY <2>2 DEF Settled
        <4>4. QED
          BY <4>1, <4>2, <4>3 DEF Submitted
      <3>3. QED
        BY <3>1, <3>2
    <2>5. run.revision \subseteq Amendments /\ Submitted(at[e]) \subseteq Amendments
      BY <2>1 DEF Submitted, Chain, Accepted
    <2>6. QED
      BY <2>2, <2>4, <2>5
  <1>2. IInv => RoundHonoursSubmissions
    BY <1>1 DEF RoundHonoursSubmissions
  <1>3. QED
    BY <1>2, AmendmentInvariant, PTL
=============================================================================
