--------------------------- MODULE MCIdempotency ---------------------------
(* Small instances of Idempotency. *)
EXTENDS Idempotency, TLC

CONSTANTS r1, r2, r3, r4

(* One request brings another body. *)
MCBody == [r \in Requests |-> IF r = r4 THEN "other" ELSE "same"]
=============================================================================
