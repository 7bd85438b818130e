---------------------------- MODULE MCAiMetering ----------------------------
(* Small instances of AiMetering. *)
EXTENDS AiMetering, TLC

=============================================================================
