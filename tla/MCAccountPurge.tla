--------------------------- MODULE MCAccountPurge ---------------------------
(* Small instances of AccountPurge. *)
EXTENDS AccountPurge, TLC

=============================================================================
