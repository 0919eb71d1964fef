------------------------------ MODULE Filtering ------------------------------
(***************************************************************************)
(* std::copy_if, std::erase_if and filtering loops: the entries of a       *)
(* sequence that belong to a set, in their order.  std::find_if: the place *)
(* of the first of them, or 0.                                             *)
(***************************************************************************)
EXTENDS Naturals, Sequences

Filter(s, T) ==
    LET kept[n \in 0..Len(s)] ==
            IF n = 0 THEN <<>>
            ELSE IF s[n] \in T THEN Append(kept[n - 1], s[n]) ELSE kept[n - 1]
    IN  kept[Len(s)]

Find(s, T) ==
    IF \E k \in DOMAIN s : s[k] \in T
    THEN CHOOSE k \in DOMAIN s : s[k] \in T /\ \A j \in DOMAIN s : s[j] \in T => k <= j
    ELSE 0

==============================================================================
