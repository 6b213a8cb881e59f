--------------------------- MODULE MCExecutionGate ---------------------------
(* Small instances of ExecutionGate for TLC. *)
EXTENDS ExecutionGate, TLC

CONSTANTS r1, r2, r3, c1, c2

Symmetry == Permutations(Request) \cup Permutations(Execution)
=============================================================================
