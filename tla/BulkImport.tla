----------------------------- MODULE BulkImport -----------------------------
(* What an asynchronous bulk import promises its user, whoever carries it     *)
(* out: an import is decided row by row in order, each row once, until every  *)
(* row is decided (completed) or the import is given up or cancelled.         *)
EXTENDS Naturals

CONSTANTS Jobs, Rows          \* Rows: 0..n-1

VARIABLES
  state,      \* "absent" | "open" | "completed" | "failed" | "cancelled"
  outcome     \* what became of each row: "pending" | "imported" | "reported"

vars == <<state, outcome>>

Init ==
  /\ state = [j \in Jobs |-> "absent"]
  /\ outcome = [j \in Jobs |-> [r \in Rows |-> "pending"]]

Submit(j) ==
  /\ state[j] = "absent"
  /\ state' = [state EXCEPT ![j] = "open"]
  /\ UNCHANGED outcome

Pending(j) == {r \in Rows : outcome[j][r] = "pending"}

(* The next rows, up to but not including upTo, are decided. *)
Decide(j) ==
  /\ state[j] = "open"
  /\ \E upTo \in {r + 1 : r \in Pending(j)} :
       LET block == {r \in Pending(j) : r < upTo}
       IN  /\ \E good \in SUBSET block :
                outcome' = [outcome EXCEPT ![j] =
                  [r \in Rows |-> IF r \in good THEN "imported"
                                  ELSE IF r \in block THEN "reported" ELSE @[r]]]
           /\ state' = [state EXCEPT ![j] = IF block = Pending(j) THEN "completed" ELSE "open"]

GiveUp(j) ==
  /\ state[j] = "open"
  /\ \E end \in {"failed", "cancelled"} : state' = [state EXCEPT ![j] = end]
  /\ UNCHANGED outcome

Next == \E j \in Jobs : Submit(j) \/ Decide(j) \/ GiveUp(j)

Spec == Init /\ [][Next]_vars
=============================================================================
