--------------------------- MODULE MCCloudWorkflow ---------------------------
(* Small instances of CloudWorkflow for TLC: one proposal, delivered again. *)
EXTENDS CloudWorkflow

CONSTANTS a
=============================================================================
