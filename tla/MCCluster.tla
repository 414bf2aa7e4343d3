------------------------------ MODULE MCCluster -----------------------------
EXTENDS Cluster
\* A table of size 2 takes a part of one chunk, one of size 4 does not fit any.
MCCapacity == [c \in Chunks |-> 3]

Runs(t, n, operations) == [table |-> t, size |-> n, operations |-> operations]
Fill == <<"AddTableOnMaster", "CreateTable", "InsertRowOnTable">>
MCPrograms == {
    \* one table, made and filled by both
    [a |-> Runs(1, 2, Fill), b |-> Runs(1, 4, Fill)],
    \* what the first table takes splits the entry of a chunk
    [a |-> Runs(1, 2, <<"AddTableOnMaster">>), b |-> Runs(2, 4, Fill)],
    \* one makes the table, the other uses it
    [a |-> Runs(1, 2, <<"AddTableOnMaster", "CreateTable">>),
     b |-> Runs(1, 2, <<"InsertRowOnTable", "GetTableContent">>)],
    \* a table is removed
    [a |-> Runs(1, 2, <<"AddTableOnMaster", "CreateTable", "GetTableContent">>),
     b |-> Runs(1, 2, <<"RemoveTableOnMaster">>)],
    \* a table without parts
    [a |-> Runs(1, 0, Fill), b |-> Runs(1, 0, <<"CreateTable">>)]}
=============================================================================
