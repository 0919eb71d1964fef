------------------------- MODULE MCWorkspaceStorage -------------------------
(***************************************************************************)
(* WorkspaceStorage for TLC: two saved workspaces, one with two tabs that  *)
(* are not in alphabetical order and one without tabs, and names to type   *)
(* that collide with theirs, once in other letters.                        *)
(***************************************************************************)
EXTENDS WorkspaceStorage, TLC

CONSTANTS manager, viewer

Plain(n) == [key |-> <<n>>, caps |-> FALSE]

Node(n, shown) == [id |-> Plain(n), name |-> Plain(n), panel |-> shown]

MCSaved == <<[id |-> Plain(1), name |-> Plain(1), order |-> <<Plain(2), Plain(1)>>,
              nodes |-> <<Node(2, TRUE), Node(1, FALSE)>>],
             [id |-> Plain(2), name |-> Plain(2), order |-> <<>>, nodes |-> <<>>]>>

Budget(ofM, ofV, faulty) == [turns |-> (manager :> ofM @@ viewer :> ofV), faults |-> faulty]

\* The manager alone, and the two windows at once.
MCBudgets == {Budget(3, 0, 1), Budget(1, 1, 1)}

MCTypedNames == {Plain(2), [key |-> <<1>>, caps |-> TRUE]}

\* One manager, one new name, no faults.
MCOneBudget == {Budget(2, 0, 0)}

MCNewName == {Plain(3)}

=============================================================================
