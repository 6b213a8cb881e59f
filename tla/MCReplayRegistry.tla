-------------------------- MODULE MCReplayRegistry --------------------------
(* Small instances of ReplayRegistry for TLC. *)
EXTENDS ReplayRegistry, TLC

CONSTANTS p1, p2, i1, i2, i3

\* Every process uses the same capacity: two slots.
SameCapacity == [p \in Process |-> 2]

\* p1 is configured with three slots, p2 with two.
MixedCapacity == [p \in Process |-> IF p = p1 THEN 3 ELSE 2]

\* i1 and i2 start at the same slot.
Colliding == [i \in Identity |-> IF i = i1 THEN 1 ELSE IF i = i2 THEN 3 ELSE 2]

Processes == Permutations(Process)
=============================================================================
