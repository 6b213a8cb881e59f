---------------------------- MODULE MCRos2Runtime ----------------------------
(* Small instances of Ros2Runtime for TLC. *)
EXTENDS Ros2Runtime, TLC

CONSTANTS p1, p2, p3

Symmetry == Permutations(Proposal)
=============================================================================
