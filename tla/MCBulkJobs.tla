----------------------------- MODULE MCBulkJobs -----------------------------
(* Small instances of BulkJobs. *)
EXTENDS BulkJobs, TLC

CONSTANTS t1, t2, t3, w1, w2

(* The first job repeats a term in a later chunk; the second brings an        *)
(* invalid row and a term of the first.                                       *)
MCContent ==
  [j \in Jobs |-> [r \in Rows |->
     IF j = 1 THEN IF r = 0 THEN t1 ELSE IF r = 1 THEN t2 ELSE t1
              ELSE IF r = 0 THEN Invalid ELSE IF r = 1 THEN t2 ELSE t3]]

(* One term in both imports, each with an invalid row. *)
MCShortContent ==
  [j \in Jobs |-> [r \in Rows |-> IF r = j - 1 THEN t1 ELSE Invalid]]

WorkerSymmetry == Permutations(Workers)
=============================================================================
