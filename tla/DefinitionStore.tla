--------------------------- MODULE DefinitionStore ---------------------------
(***************************************************************************)
(* What saving promises of the set of saved workspaces.  A saver has a     *)
(* list of names.  It writes them one at a time, and only when the whole   *)
(* list is written may it remove names that are not on its list.  It may   *)
(* stop at any point: it is done, a file could not be written, or its      *)
(* process is gone.  Several savers run at once and none knows the others. *)
(***************************************************************************)
CONSTANT Savers

VARIABLES
    names,   \* the workspaces that load
    active,  \* savers inside a save
    target,  \* the list each of them saves
    added    \* what each of them has written of it

vars == <<names, active, target, added>>

Init ==
    /\ active = {}
    /\ target = [s \in Savers |-> {}]
    /\ added = [s \in Savers |-> {}]

\* Any list may be saved, the empty one included.
Begin(s) ==
    /\ s \notin active
    /\ active' = active \cup {s}
    /\ target' = [target EXCEPT ![s] = target'[s]]
    /\ added' = [added EXCEPT ![s] = {}]
    /\ UNCHANGED names

Write(s) ==
    /\ s \in active
    /\ \E n \in target[s] :
           /\ names' = names \cup {n}
           /\ added' = [added EXCEPT ![s] = @ \cup {n}]
    /\ UNCHANGED <<active, target>>

Remove(s) ==
    /\ s \in active
    /\ added[s] = target[s]
    /\ \E n \in names \ target[s] : names' = names \ {n}
    /\ UNCHANGED <<active, target, added>>

End(s) ==
    /\ s \in active
    /\ active' = active \ {s}
    /\ target' = [target EXCEPT ![s] = {}]
    /\ added' = [added EXCEPT ![s] = {}]
    /\ UNCHANGED names

Next == \E s \in Savers : Begin(s) \/ Write(s) \/ Remove(s) \/ End(s)

Spec == Init /\ [][Next]_vars

=============================================================================
