--------------------------- MODULE ValidationCases ---------------------------
(***************************************************************************)
(* apps/cli/validate-external-ros2.ts: what record and finalize accept as  *)
(* the proof of a validation.  An operator runs cases under the harness of *)
(* examples/external-validation, which binds the command, its log, its     *)
(* observer and its execution to one run of one case in one session; the   *)
(* Cloud's evidence, the proposal and the approval are files of their own, *)
(* which the operator may take from another run, an earlier set-up or an   *)
(* earlier session.  The runtime, the Cloud and the files are honest: what *)
(* is modelled is a mix-up, and whether the collector notices.             *)
(*                                                                         *)
(* Abstractions.  The state keeps what happened; the acceptance of a       *)
(* collection is a predicate over everything that could be handed in.      *)
(* Only the five cases with Cloud evidence: clean_install, malformed_input *)
(* and stale_state are bound to their run like these, without evidence.    *)
(* A hash stands for what was hashed.  A run takes one unit of time and    *)
(* its evidence is stored at its end; releases do not expire.  The device, *)
(* the controller, the action, the runtime and the Cloud are the same in   *)
(* every run.                                                              *)
(***************************************************************************)
EXTENDS Integers, Sequences, FiniteSets

CONSTANTS
    Skew,           \* MAX_EXTERNAL_CLOCK_SKEW_MS, in units of a run
    MaxRuns,        \* bound: the runs of the harness
    MaxExtra        \* bound: sessions after the first, and runs that repeat a
                    \* case or end otherwise than their case wants

CaseId == {"setup_zero_to_shadow", "duplicate_replay", "restart_shadow",
           "revoked_release", "configuration_drift"}

\* CASES: the reason assertCaseReason wants; a case that passes is allowed and
\* exits with 0, every other one is blocked and exits with 2.
ReasonOf(c) == CASE c = "duplicate_replay" -> "proposal_id_duplicate"
                 [] c = "revoked_release" -> "cloud_release_not_eligible:revoked"
                 [] c = "configuration_drift" -> "configuration_mismatch"
                 [] OTHER -> "shadow_permit_evaluated_no_controller_call"
Allowed(reason) == reason = "shadow_permit_evaluated_no_controller_call"
ExitCode(reason) == IF Allowed(reason) THEN 0 ELSE 2

\* What the theorems assume of the constants.
Bounds == MaxRuns \in Nat /\ MaxExtra \in Nat

VARIABLES
    now,
    session,        \* the number of the current session and when it was made
    approved,       \* per release, in the order of the set-ups: when
    revoked,        \* the releases a Cloud user has revoked
    runs, chain,    \* what the harness recorded, the evidence of the Cloud
    extra

vars == <<now, session, approved, revoked, runs, chain, extra>>

Current == Len(approved)        \* setup.json names the last set-up's release
Presented == {chain[n].proposal.id : n \in DOMAIN chain}

-----------------------------------------------------------------------------
(* The runs                                                                 *)

\* CloudConnectedRos2Workflow.run, in the order of its refusals.
Outcome(proposal, release, isRevoked, drifted) ==
    IF proposal.id \in Presented THEN "proposal_id_duplicate"
    ELSE IF isRevoked THEN "cloud_release_not_eligible:revoked"
    ELSE IF drifted THEN "configuration_mismatch"
    ELSE "shadow_permit_evaluated_no_controller_call"

\* The digest the workflow observed: none before the replay registry agreed.
Observed(reason, drifted) ==
    IF reason = "proposal_id_duplicate" THEN "none"
    ELSE IF drifted THEN "other" ELSE "approved"

Store(c, proposal, release, reason, drifted) ==
    /\ chain' = Append(chain,
          [proposal |-> proposal, release |-> release, reason |-> reason,
           observed |-> Observed(reason, drifted), at |-> now + 1,
           revokedThen |-> release \in revoked, driftThen |-> drifted])
    /\ runs' = Append(runs,
          [case |-> c, session |-> session.id, proposal |-> proposal,
           setup |-> release, start |-> now, finish |-> now + 1,
           exit |-> ExitCode(reason)])
    /\ now' = now + 1
    /\ extra' = IF reason = ReasonOf(c) /\ \A n \in DOMAIN runs : runs[n].case # c
                THEN extra ELSE extra + 1
    /\ extra' <= MaxExtra

\* setup-zero-to-shadow.sh: a release of its own, approved for the deployed
\* configuration while the command runs, and a first proposal for it.
RunSetup ==
    LET release == Current + 1
        proposal == [id |-> now, release |-> release, created |-> now]
    IN
    /\ Len(runs) < MaxRuns
    /\ approved' = Append(approved, now)
    /\ chain' = Append(chain,
          [proposal |-> proposal, release |-> release,
           reason |-> ReasonOf("setup_zero_to_shadow"), observed |-> "approved",
           at |-> now + 1, revokedThen |-> FALSE, driftThen |-> FALSE])
    /\ runs' = Append(runs,
          [case |-> "setup_zero_to_shadow", session |-> session.id,
           proposal |-> proposal, setup |-> release, start |-> now,
           finish |-> now + 1, exit |-> 0])
    /\ now' = now + 1
    /\ extra' = IF Current = 0 THEN extra ELSE extra + 1
    /\ extra' <= MaxExtra
    /\ UNCHANGED <<session, revoked>>

\* shadow-once-from-setup.sh and duplicate-replay-from-setup.sh: a proposal
\* that is new or was presented before, for the release of the set-up, and a
\* deployed configuration that is the approved one or not.
RunCase(c, proposal) ==
    /\ Current > 0 /\ Len(runs) < MaxRuns
    /\ \E drifted \in BOOLEAN :
          Store(c, proposal, Current,
                Outcome(proposal, Current, Current \in revoked, drifted), drifted)
    /\ UNCHANGED <<session, approved, revoked>>

RunFresh(c) == RunCase(c, [id |-> now, release |-> Current, created |-> now])
RunAgain(c) == \E n \in DOMAIN runs :
    runs[n].proposal.release = Current /\ RunCase(c, runs[n].proposal)

Revoke ==
    /\ Current > 0 /\ Current \notin revoked
    /\ revoked' = revoked \cup {Current}
    /\ UNCHANGED <<now, session, approved, runs, chain, extra>>

\* init with another directory.
NewSession ==
    /\ extra < MaxExtra /\ runs # <<>>
    /\ session' = [id |-> session.id + 1, created |-> now]
    /\ extra' = extra + 1
    /\ UNCHANGED <<now, approved, revoked, runs, chain>>

Init ==
    /\ now = 1 /\ session = [id |-> 1, created |-> 1]
    /\ approved = <<>> /\ revoked = {}
    /\ runs = <<>> /\ chain = <<>> /\ extra = 0

Next ==
    \/ RunSetup
    \/ \E c \in CaseId \ {"setup_zero_to_shadow"} : RunFresh(c) \/ RunAgain(c)
    \/ Revoke \/ NewSession

Spec == Init /\ [][Next]_vars

-----------------------------------------------------------------------------
(* What the collector accepts                                               *)

\* A recorded case: the run its command, log, observer and execution are
\* from, the proposal and the evidence handed in with them.
Piece(c) == [case : {c}, run : DOMAIN runs, proposal : {runs[n].proposal : n \in DOMAIN runs},
             evidence : DOMAIN chain]

Within(at, n) == at >= runs[n].start - Skew /\ at <= runs[n].finish + Skew

\* parseInvocation, parseObserver, parseExecution: the files of one run refer
\* to each other by hash and to the case and session by name.
RunBound(x) ==
    LET r == runs[x.run] IN
    /\ r.case = x.case
    /\ r.session = session.id /\ r.start >= session.created
    /\ r.exit = ExitCode(ReasonOf(x.case))

\* fault: any blocked decision will do for a case that must be blocked
EvidenceDecisionOnly(x) ==
    LET e == chain[x.evidence] IN
    /\ Allowed(e.reason) <=> Allowed(ReasonOf(x.case))
    /\ e.proposal.id = x.proposal.id /\ e.release = x.proposal.release

\* parseEvidence and what record compares with the proposal.
EvidenceBound(x) ==
    LET e == chain[x.evidence] IN
    /\ e.reason = ReasonOf(x.case)
    /\ e.proposal.id = x.proposal.id /\ e.release = x.proposal.release

\* parseApproval: the set-up's release was approved for this session.
ApprovalBound(x) ==
    x.case = "setup_zero_to_shadow" =>
        /\ approved[x.proposal.release] >= session.created - Skew
        /\ Within(approved[x.proposal.release], x.run)

\* readCase: record's conditions again, the proposal that the invocation
\* names (a set-up has none yet), and the times.
CaseHolds(x) ==
    /\ RunBound(x) /\ EvidenceBound(x) /\ ApprovalBound(x)
    /\ IF x.case = "setup_zero_to_shadow" THEN x.proposal.created <= now
       ELSE /\ x.proposal = runs[x.run].proposal
            /\ x.proposal.created <= runs[x.run].start
    /\ x.proposal.created >= session.created
    /\ Within(chain[x.evidence].at, x.run)

Candidates(c) == {x \in Piece(c) : CaseHolds(x)}

E(x) == chain[x.evidence]

\* assertCrossCaseBindings, of the set-up s and the other cases: every later
\* command read the set-up's state file, and the approval came first.
SetupBound(s, others) ==
    /\ \A x, y \in others : runs[x.run].setup = runs[y.run].setup
    /\ approved[s.proposal.release] <= E(s).at

\* ... of all: one release, an entry and an observer of its own for each case,
\* and times that follow the chain.
EvidenceOrdered(release, pieces) ==
    /\ \A x \in pieces : E(x).release = release
    /\ \A x, y \in pieces : x # y => x.evidence # y.evidence /\ x.run # y.run
    /\ \A x, y \in pieces : x.evidence < y.evidence => E(x).at <= E(y).at

\* ... of what each case is to show: the duplicate d has the set-up's proposal
\* and the others one of their own, the restart r ran under the approved
\* configuration, the revocation v came after the set-up, and the drift f
\* observed another configuration; the export, a prefix of the chain, has all.
LifecycleBound(s, d, r, v, f) ==
    LET pieces == {s, d, r, v, f} IN
    /\ \A x \in pieces : x.proposal.release = s.proposal.release
    /\ \A x, y \in pieces \ {d} : x # y => x.proposal.id # y.proposal.id
    /\ d.proposal = s.proposal
    /\ v.evidence > s.evidence /\ E(v).at > E(s).at
    /\ E(r).observed = "approved" /\ E(f).observed = "other"
    /\ \E exported \in DOMAIN chain : \A x \in pieces : x.evidence <= exported

CrossBound(s, d, r, v, f) ==
    /\ SetupBound(s, {d, r, v, f})
    /\ EvidenceOrdered(s.proposal.release, {s, d, r, v, f})
    /\ LifecycleBound(s, d, r, v, f)

-----------------------------------------------------------------------------
(* Properties                                                               *)

TypeOK ==
    /\ now \in Nat /\ extra \in 0 .. MaxExtra
    /\ approved \in Seq(Nat) /\ revoked \subseteq DOMAIN approved
    /\ Len(runs) <= MaxRuns /\ Len(chain) = Len(runs)
    /\ session.created <= now

\* Whatever the operator mixes up, a collection that finalize accepts tells
\* one story of this session: its proposal was first allowed and later
\* refused as a duplicate; a proposal nobody had presented was allowed after
\* a restart; one was refused when the release had been revoked, after the
\* set-up, and one because the configuration had drifted, while the release
\* was approved; all of it in this session.
CollectedIsTrue ==
    \A s \in Candidates("setup_zero_to_shadow"), d \in Candidates("duplicate_replay"),
       r \in Candidates("restart_shadow"), v \in Candidates("revoked_release"),
       f \in Candidates("configuration_drift") :
        CrossBound(s, d, r, v, f) =>
            /\ s.evidence < d.evidence /\ E(s).proposal = E(d).proposal
            /\ r.evidence = CHOOSE n \in DOMAIN chain :
                  /\ chain[n].proposal = r.proposal
                  /\ \A m \in 1 .. n - 1 : chain[m].proposal # r.proposal
            /\ E(v).revokedThen /\ v.evidence > s.evidence
            /\ E(f).driftThen /\ ~E(f).revokedThen
            /\ \A x \in {s, d, r, v, f} : E(x).at > session.created

=============================================================================
