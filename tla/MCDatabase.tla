----------------------------- MODULE MCDatabase -----------------------------
(* Two threads at one table of a database whose pool has more frames than  *)
(* the process has descriptors, as that of a chunk has.                    *)
EXTENDS Database, TLC
MCSchemas == {<<"c">>, <<"d", "e">>}
Symmetry == Permutations(Threads)
=============================================================================
