--------------------------- MODULE MCExecutionCache ---------------------------
(* Small instances of ExecutionCache. *)
EXTENDS ExecutionCache, TLC

CONSTANTS e1, e2

ExecutorSymmetry == Permutations(Executors)
=============================================================================
