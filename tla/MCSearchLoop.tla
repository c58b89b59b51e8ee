---------------------------- MODULE MCSearchLoop ----------------------------
(* An instance of SearchLoop for TLC: one active term, a secondary title    *)
(* anchor and a reserve; amendments may add an alias of the first and a new *)
(* term, and the candidates may suggest one.                                *)
EXTENDS SearchLoop, TLC

CONSTANTS java, jvm, spring, lead, rust

MCInitial == {java, spring, lead}
MCActive == {java, lead}
MCSecondary == {lead}
MCAmend == {jvm}
MCFeedback == {rust}
MCFamily == [t \in {java, jvm, spring, lead, rust} |-> IF t = jvm THEN java ELSE t]

=============================================================================
