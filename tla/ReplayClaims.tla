---------------------------- MODULE ReplayClaims ----------------------------
(***************************************************************************)
(* What a ProposalReplayRegistry promises its callers, whatever stores the *)
(* claims: a process asks for one identity at a time and gets one answer,  *)
(* and no identity is ever answered "claimed" twice, not even by two       *)
(* processes, nor across a crash or a loss of power.                       *)
(***************************************************************************)
EXTENDS Naturals, FiniteSets

CONSTANTS
    Process,     \* the callers of claim(), any number of OS processes
    Identity,    \* the proposal identities (release, policy, device, proposer, proposal)
    NoIdentity,  \* "no claim outstanding"
    MaxClaims    \* MaxClaims[p]: the capacity process p was configured with

VARIABLES
    grants,      \* grants[i]: how often a caller was told it claimed i
    asking       \* asking[p]: the identity p is claiming, or NoIdentity

vars == <<grants, asking>>

Granted == {i \in Identity : grants[i] > 0}

TypeOK ==
    /\ grants \in [Identity -> 0 .. 1]
    /\ asking \in [Process -> Identity \cup {NoIdentity}]

Init ==
    /\ grants = [i \in Identity |-> 0]
    /\ asking = [p \in Process |-> NoIdentity]

Ask(p, i) ==
    /\ asking[p] = NoIdentity
    /\ asking' = [asking EXCEPT ![p] = i]
    /\ UNCHANGED grants

\* "claimed": at most once per identity, never beyond the caller's capacity.
Grant(p) ==
    /\ asking[p] \in Identity \ Granted
    /\ Cardinality(Granted) < MaxClaims[p]
    /\ grants' = [grants EXCEPT ![asking[p]] = 1]
    /\ asking' = [asking EXCEPT ![p] = NoIdentity]

\* "duplicate", "capacity_exceeded", "unavailable", or the death of the caller.
Refuse(p) ==
    /\ asking[p] \in Identity
    /\ asking' = [asking EXCEPT ![p] = NoIdentity]
    /\ UNCHANGED grants

\* Every caller dies at once; what was granted stays granted.
PowerLoss ==
    /\ asking' = [p \in Process |-> NoIdentity]
    /\ UNCHANGED grants

Next ==
    \/ \E p \in Process : (\E i \in Identity : Ask(p, i)) \/ Grant(p) \/ Refuse(p)
    \/ PowerLoss

Spec == Init /\ [][Next]_vars
=============================================================================
