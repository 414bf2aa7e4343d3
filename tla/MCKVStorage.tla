---------------------------- MODULE MCKVStorage ----------------------------
(* Instances of KVStorage for TLC: short strings over a few characters.     *)
EXTENDS KVStorage

MCKeys2 == {<<1>>, <<2, 1>>}
MCKeys3 == {<<1>>, <<2, 1>>, <<3, 1, 2>>}
MCValues2 == {<<4, 5>>, <<6>>}
MCKillsAdding == [d \in BOOLEAN |-> IF d THEN 0 ELSE 2]
MCKillsDeleting == [d \in BOOLEAN |-> 1]
=============================================================================
