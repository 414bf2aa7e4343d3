------------------------------ MODULE MCBTree ------------------------------
(* Instances of BTree for TLC: leaves of two or four pairs.                 *)
EXTENDS BTree
=============================================================================
