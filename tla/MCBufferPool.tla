---------------------------- MODULE MCBufferPool ----------------------------
(* Instances of BufferPool for TLC.  Users and files are interchangeable;   *)
(* descriptors are numbers, as the kernel's are.                            *)
EXTENDS BufferPool, TLC

Symm == Permutations(Files) \cup Permutations(Users)
=============================================================================
