-------------------------------- MODULE Index --------------------------------
(***************************************************************************)
(* What an index promises its callers (lib/sql/index.h, IIndex with        *)
(* isUnique() true): a map from keys to row ids.  An insert that throws    *)
(* may lose pairs; it never invents one and never moves one to another     *)
(* key.                                                                    *)
(***************************************************************************)
CONSTANTS Keys, Rids, NoRid      \* NoRid is none of Rids

VARIABLES
    index,          \* key -> row id, or NoRid
    removed,        \* what the last remove returned
    threw           \* whether the last operation threw

vars == <<index, removed, threw>>

Init ==
    /\ index = [k \in Keys |-> NoRid]
    /\ removed = FALSE
    /\ threw = FALSE

\* Only the row id of k changes (its new value first: a cheap test).
Becomes(k, r) ==
    /\ index'[k] = r
    /\ index' = [index EXCEPT ![k] = r]

Insert(k, r) ==
    /\ threw' = FALSE
    /\ UNCHANGED removed
    /\ index[k] = NoRid
    /\ Becomes(k, r)

\* The pairs that are left were there before or are the new one.
InsertThrows(k, r) ==
    /\ threw' = TRUE
    /\ UNCHANGED removed
    /\ index[k] = NoRid
    /\ index' \in [Keys -> Rids \cup {NoRid}]
    /\ \A x \in Keys :
          index'[x] # NoRid => index'[x] = IF x = k THEN r ELSE index[x]

Remove(k) ==
    /\ threw' = FALSE
    /\ removed' = (index[k] # NoRid)
    /\ Becomes(k, NoRid)

Next ==
    \E k \in Keys :
        \/ \E r \in Rids : Insert(k, r) \/ InsertThrows(k, r)
        \/ Remove(k)

Spec == Init /\ [][Next]_vars
=============================================================================
