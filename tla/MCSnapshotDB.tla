---------------------------- MODULE MCSnapshotDB ----------------------------
(* Small instance of SnapshotDB: two keys and a fixed program for each block. *)
EXTENDS SnapshotDB

MCKeys == 1 .. 2

Ops == <<[k \in {1} |-> "put"],
         [k \in {1, 2} |-> IF k = 1 THEN "del" ELSE "put"],
         [k \in {2} |-> "put"],
         [k \in {1} |-> "put"]>>

MCProgram == [h \in Hash |-> Ops[h[1]]]
=============================================================================
