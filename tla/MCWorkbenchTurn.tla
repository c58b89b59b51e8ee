-------------------------- MODULE MCWorkbenchTurn --------------------------
(* WorkbenchTurn with one key of each of some scopes.                        *)
EXTENDS WorkbenchTurn

KeysTurn == {"chat", "confirm", "recheck", "view"}
KindTurn == [k \in KeysTurn |-> IF k = "chat" THEN "turn" ELSE k]

KeysForm == {"chat", "edit", "amend"}
KindForm == [k \in KeysForm |-> IF k = "chat" THEN "turn" ELSE k]
=============================================================================
