---------------------------- MODULE ExecutionGate ----------------------------
(***************************************************************************)
(* ReleaseExecutionGate, the evidence file behind it and the facts it      *)
(* decides on.  A caller collects facts (state, release record, execution  *)
(* configuration, runtime attestation), evaluate() turns them into a       *)
(* single-use permit, execute() spends the permit, reads the facts again   *)
(* and crosses the controller boundary.  Two clocks run underneath: the    *)
(* monotonic one, and the wall clock, which may be adjusted at any moment. *)
(*                                                                         *)
(* Abstractions.  The content of a request is one value: "authorized", or  *)
(* "altered" when anything the permit binds differs from what was          *)
(* evaluated (a hash comparison is the comparison of the contents).  In    *)
(* execute() it is two: the action and the state, which are copied before  *)
(* the first await, and the terms, everything that is compared where the   *)
(* caller keeps it: identifiers, claimed hash, time of the state, release. *)
(* The reason text of a refusal is left out.  performance.now() never runs *)
(* backwards and dates are finite, so the branches for broken clocks are   *)
(* left out.  An adapter or provider call is one step, between the steps   *)
(* of the call that awaits it.                                             *)
(***************************************************************************)
EXTENDS Integers, Sequences, FiniteSets

CONSTANTS
    Request,            \* requests a caller may evaluate
    Execution,          \* calls of execute()
    Missing,            \* no observation, no permit, no supplied time
    MaxInFlight,        \* requests a caller works on at once (the gateway: 1)
    PermitCap,          \* the fixed cap on a permit's life (1000 ms)
    MaxStateAge,        \* runtimePolicy.maxStateAgeMs, also for attestations
    MaxConfigurationAge,
    ReleaseExpiry,      \* deployment.expiresAt
    MaxEntries,         \* evidence entries the file holds
    StartWall,          \* the wall clock at the start
    MaxMono,            \* bound: monotonic time in a behaviour
    MaxDisturbances,    \* bound: clock adjustments, revocations, drifts and
                        \* runtime restarts, together
    MaxWriteFailures    \* bound: failed writes of the evidence file

ASSUME ConstantsAssumption ==
    /\ Request \cap Execution = {}      \* told apart in the evidence
    /\ MaxInFlight \in Nat \ {0}
    /\ PermitCap \in Nat \ {0}
    /\ MaxStateAge \in Nat \ {0}
    /\ MaxConfigurationAge \in Nat
    /\ ReleaseExpiry \in Int
    /\ MaxEntries \in Nat
    /\ StartWall \in Int
    /\ {MaxMono, MaxDisturbances, MaxWriteFailures} \subseteq Nat
    /\ Missing \notin Int
    /\ Missing \notin [drifted : BOOLEAN, at : Int]
    /\ Missing \notin [token : Nat, capable : BOOLEAN, at : Int]
    /\ Missing \notin [stateAt : Int, evaluatedAt : Int, authorizedAt : Int,
                       issuedAt : Nat, expiresAt : Nat, token : Nat]

VARIABLES
    wall, mono, adjustments,    \* Date.now(), performance.now()
    revoked,        \* the stored release record is revoked
    drifted,        \* the live configuration left the approved one
    runtime,        \* the live runtime: continuity token and capabilities
    withdrawals,    \* how often one of these three changed
    phase,          \* phase[r]: progress of evaluate() on r
    facts,          \* facts[r]: what the caller collected for r
    body,           \* body[r]: content of the caller's request object
    started,        \* started[r]: both clocks when evaluate(r) began
    permits,        \* permits[r]: the permit on record, or Missing
    pc,             \* pc[c]: progress of execute() call c
    call,           \* call[c]: what execute() call c holds
    evidence,       \* the evidence file
    writeFailures

clock == <<wall, mono, adjustments>>
world == <<revoked, drifted, runtime, withdrawals>>
evaluation == <<phase, facts, body, started>>
sink == <<evidence, writeFailures>>
vars == <<clock, world, evaluation, permits, pc, call, sink>>

Configurations == [drifted : BOOLEAN, at : Int] \cup {Missing}
Attestations == [token : Nat, capable : BOOLEAN, at : Int] \cup {Missing}
Facts == [stateAt : Int, revoked : BOOLEAN,
          configuration : Configurations, attestation : Attestations]
Permits == [stateAt : Int, evaluatedAt : Int, authorizedAt : Int,
            issuedAt : Nat, expiresAt : Nat, token : Nat]
Bodies == {"authorized", "altered"}
Phases == {"new", "collected", "policy", "permitted", "refused", "threw"}
Labels == {"idle", "record", "configuration", "attestation", "check",
           "boundary", "dispatched", "recorded", "refused", "threw", "lost"}
Calls == [request : Request \cup {Missing}, held : Permits \cup {Missing},
          captured : Bodies, live : Bodies, terms : Bodies,
          supplied : Int \cup {Missing},
          revoked : BOOLEAN, configuration : Configurations,
          attestation : Attestations, decidedAt : Int,
          \* history: the world at entry, the time of the dispatch by the
          \* monotonic clock, the action that was handed to the adapter
          sound : BOOLEAN, dispatchedAt : Int \cup {Missing},
          sent : Bodies \cup {Missing}]
Entries == [of : Request \cup Execution, at : Int,
            says : {"not_sent", "attempted_unconfirmed"}]

TypeOK ==
    /\ wall \in Int /\ mono \in Nat /\ adjustments \in Nat
    /\ revoked \in BOOLEAN /\ drifted \in BOOLEAN
    /\ runtime \in [token : Nat, capable : BOOLEAN]
    /\ withdrawals \in Nat
    /\ phase \in [Request -> Phases]
    /\ facts \in [Request -> Facts \cup {Missing}]
    /\ body \in [Request -> Bodies]
    /\ started \in [Request -> [now : Int, mono : Nat] \cup {Missing}]
    /\ permits \in [Request -> Permits \cup {Missing}]
    /\ pc \in [Execution -> Labels]
    /\ call \in [Execution -> Calls]
    /\ evidence \in Seq(Entries)
    /\ writeFailures \in Nat

NotCalled ==
    [request |-> Missing, held |-> Missing, captured |-> "authorized",
     live |-> "authorized", terms |-> "authorized", supplied |-> Missing,
     revoked |-> FALSE, configuration |-> Missing, attestation |-> Missing,
     decidedAt |-> 0, sound |-> FALSE, dispatchedAt |-> Missing,
     sent |-> Missing]

Init ==
    /\ wall = StartWall /\ mono = 0 /\ adjustments = 0
    /\ revoked = FALSE
    /\ drifted = FALSE
    /\ runtime = [token |-> 0, capable |-> TRUE]
    /\ withdrawals = 0
    /\ phase = [r \in Request |-> "new"]
    /\ facts = [r \in Request |-> Missing]
    /\ body = [r \in Request |-> "authorized"]
    /\ started = [r \in Request |-> Missing]
    /\ permits = [r \in Request |-> Missing]
    /\ pc = [c \in Execution |-> "idle"]
    /\ call = [c \in Execution |-> NotCalled]
    /\ evidence = <<>>
    /\ writeFailures = 0

\* execute() runs from its check to the dispatch without yielding: meanwhile
\* only the clocks move.
Yielded == \A c \in Execution : pc[c] # "boundary"

Larger(a, b) == IF a > b THEN a ELSE b
Smaller(a, b) == IF a < b THEN a ELSE b

-----------------------------------------------------------------------------
(* What the gate may rely on at the time now. *)

Fresh(now, at, maxAge) == at <= now /\ now - at <= maxAge

ExecutionEligible(recordRevoked, now) == ~recordRevoked /\ now < ReleaseExpiry

ConfigurationBound(observed, now) ==
    /\ observed # Missing
    /\ Fresh(now, observed.at, MaxConfigurationAge)
    /\ ~observed.drifted

RuntimeAttested(observed, now) ==
    /\ observed # Missing
    /\ Fresh(now, observed.at, MaxStateAge)
    /\ observed.capable

Authorizes(f, now) ==
    /\ ExecutionEligible(f.revoked, now)
    /\ ConfigurationBound(f.configuration, now)
    /\ RuntimeAttested(f.attestation, now)
    /\ Fresh(now, f.stateAt, MaxStateAge)

\* monotonicProjectedNow: authorization time plus monotonic progress, and
\* never behind the wall clock (or the time the caller supplied).
WallOnlyNow(permit, supplied) ==                        \* fault
    IF supplied = Missing THEN wall ELSE supplied
ProjectedNow(permit, supplied) ==
    Larger(permit.authorizedAt + (mono - permit.issuedAt),
           IF supplied = Missing THEN wall ELSE supplied)

-----------------------------------------------------------------------------
(* The evidence file. *)

\* Fault: append() accepts decisions out of order.
AcceptsUnordered(at, stateAt) ==
    /\ Len(evidence) < MaxEntries
    /\ at <= wall
    /\ stateAt <= at

\* append(): room, no decision from the future, decision times in order, no
\* state observed after the decision.
Accepts(at, stateAt) ==
    /\ Len(evidence) < MaxEntries
    /\ at <= wall
    /\ \A n \in 1 .. Len(evidence) : evidence[n].at <= at
    /\ stateAt <= at

Recorded(of, says, at, stateAt) ==
    /\ Accepts(at, stateAt)
    /\ evidence' = Append(evidence, [of |-> of, at |-> at, says |-> says])
    /\ UNCHANGED writeFailures

\* append() throws: the entry is not acceptable, or the write fails.
AppendThrows(at, stateAt) ==
    /\ UNCHANGED evidence
    /\ \/ ~Accepts(at, stateAt) /\ UNCHANGED writeFailures
       \/ /\ Accepts(at, stateAt)
          /\ writeFailures < MaxWriteFailures
          /\ writeFailures' = writeFailures + 1

NeverFull == TRUE                                       \* fault
WritableBeforeDispatch == Len(evidence) < MaxEntries

-----------------------------------------------------------------------------
(* Clocks and the world. *)

Tick ==
    /\ mono < MaxMono
    /\ mono' = mono + 1
    /\ wall' = wall + 1
    /\ UNCHANGED <<adjustments, world, evaluation, permits, pc, call, sink>>

AdjustWallClock ==
    /\ adjustments + withdrawals < MaxDisturbances
    /\ adjustments' = adjustments + 1
    /\ \E step \in {-1, 1} : wall' = wall + step
    /\ UNCHANGED <<mono, world, evaluation, permits, pc, call, sink>>

Withdraw ==
    /\ Yielded
    /\ adjustments + withdrawals < MaxDisturbances
    /\ withdrawals' = withdrawals + 1
    /\ UNCHANGED <<clock, evaluation, permits, pc, call, sink>>

Revoke ==
    /\ Withdraw
    /\ ~revoked
    /\ revoked' = TRUE
    /\ UNCHANGED <<drifted, runtime>>

DriftConfiguration ==
    /\ Withdraw
    /\ ~drifted
    /\ drifted' = TRUE
    /\ UNCHANGED <<revoked, runtime>>

\* A restarted runtime has a new continuity token.
RestartRuntime ==
    /\ Withdraw
    /\ \E capable \in BOOLEAN :
          runtime' = [token |-> runtime.token + 1, capable |-> capable]
    /\ UNCHANGED <<revoked, drifted>>

ObservedConfiguration == [drifted |-> drifted, at |-> wall]
ObservedRuntime ==
    [token |-> runtime.token, capable |-> runtime.capable, at |-> wall]

-----------------------------------------------------------------------------
(* The caller, and evaluate(). *)

Ended == {"recorded", "refused", "threw", "lost"}

Finished(r) ==
    \/ phase[r] \in {"refused", "threw"}
    \/ /\ phase[r] = "permitted"
       /\ \E c \in Execution : call[c].request = r
       /\ \A c \in Execution : call[c].request = r => pc[c] \in Ended

InFlight == {r \in Request : phase[r] # "new" /\ ~Finished(r)}

MayWorkOn(r) == Cardinality(InFlight \cup {r}) <= MaxInFlight

Running == {c \in Execution : pc[c] \notin {"idle"} \cup Ended}

\* The caller reads the state, the release record and both observations; a
\* provider that fails yields none.  The state was stamped by another clock.
CollectFacts(r) ==
    /\ Yielded
    /\ phase[r] = "new"
    /\ MayWorkOn(r)
    /\ phase' = [phase EXCEPT ![r] = "collected"]
    /\ \E age \in {-1, 0, MaxStateAge, MaxStateAge + 1},
          configuration \in {ObservedConfiguration, Missing},
          attestation \in {ObservedRuntime, Missing} :
          facts' = [facts EXCEPT ![r] =
                      [stateAt |-> wall - age, revoked |-> revoked,
                       configuration |-> configuration,
                       attestation |-> attestation]]
    /\ UNCHANGED <<clock, world, body, started, permits, pc, call, sink>>

\* The caller owns the request object and may write to it while it waits.
AlterRequest(r) ==
    /\ Yielded
    /\ phase[r] \in {"collected", "policy"}
    /\ body[r] = "authorized"
    /\ body' = [body EXCEPT ![r] = "altered"]
    /\ UNCHANGED <<clock, world, phase, facts, started, permits, pc, call, sink>>

\* A refusal is written down before it is answered.
RefuseEvaluation(r, at) ==
    /\ \/ /\ Recorded(r, "not_sent", at, facts[r].stateAt)
          /\ phase' = [phase EXCEPT ![r] = "refused"]
       \/ /\ AppendThrows(at, facts[r].stateAt)
          /\ phase' = [phase EXCEPT ![r] = "threw"]
    /\ facts' = [facts EXCEPT ![r] = Missing]
    /\ body' = [body EXCEPT ![r] = "authorized"]
    /\ started' = [started EXCEPT ![r] = Missing]
    /\ UNCHANGED <<clock, world, permits, pc, call>>

BeginEvaluate(r) ==
    /\ Yielded
    /\ phase[r] = "collected"
    /\ IF Authorizes(facts[r], wall) /\ body[r] = "authorized"
       THEN /\ phase' = [phase EXCEPT ![r] = "policy"]
            /\ started' = [started EXCEPT ![r] = [now |-> wall, mono |-> mono]]
            /\ UNCHANGED <<clock, world, facts, body, permits, pc, call, sink>>
       ELSE RefuseEvaluation(r, wall)

PolicyDenies(r) ==
    /\ Yielded
    /\ phase[r] = "policy"
    /\ RefuseEvaluation(r, started[r].now)

AuthorizationNow(r) == started[r].now + (mono - started[r].mono)

IssuePermit(r, now) ==
    /\ permits' = [permits EXCEPT ![r] =
                     [stateAt |-> facts[r].stateAt,
                      evaluatedAt |-> started[r].now,
                      authorizedAt |-> now,
                      issuedAt |-> mono,
                      expiresAt |-> mono + Smaller(PermitCap, MaxStateAge),
                      token |-> facts[r].attestation.token]]
    /\ phase' = [phase EXCEPT ![r] = "permitted"]
    /\ UNCHANGED <<clock, world, facts, body, started, pc, call, sink>>

\* The policy allows: the content is hashed again, then every fact is checked
\* again at the time the monotonic clock says it is now.
PolicyAllows(r) ==
    /\ Yielded
    /\ phase[r] = "policy"
    /\ LET now == AuthorizationNow(r)
       IN  \/ /\ body[r] = "altered"
              /\ RefuseEvaluation(r, started[r].now)
           \/ /\ body[r] = "authorized"
              /\ ~Authorizes(facts[r], now)
              /\ RefuseEvaluation(r, now)
           \/ /\ body[r] = "authorized"
              /\ Authorizes(facts[r], now)
              /\ IssuePermit(r, now)

-----------------------------------------------------------------------------
(* execute(). *)

\* The call ends and forgets everything but the request it was for.
Forget(c, r) == call' = [call EXCEPT ![c] = [NotCalled EXCEPT !.request = r]]

RefuseExecution(c, r, at) ==
    /\ \/ /\ Recorded(c, "not_sent", at, facts[r].stateAt)
          /\ pc' = [pc EXCEPT ![c] = "refused"]
       \/ /\ AppendThrows(at, facts[r].stateAt)
          /\ pc' = [pc EXCEPT ![c] = "threw"]
    /\ Forget(c, r)

Permit(c) == call[c].held
Now(c) == ProjectedNow(Permit(c), call[c].supplied)

\* What must have changed in the world before execute() was entered for it to
\* be unable to dispatch, whatever it reads later.
WorldSupports(permit) ==
    /\ ~revoked
    /\ ~drifted
    /\ permit # Missing => permit.token = runtime.token

\* The permit leaves the map whether or not the call succeeds.
PermitKept(r) == permits                                \* fault
\* Fault: the record stays, with its deadline cleared.
PermitDisarmed(r) ==
    [permits EXCEPT ![r] = IF @ = Missing THEN @
                           ELSE [@ EXCEPT !.expiresAt = Missing]]
PermitSpent(r) == [permits EXCEPT ![r] = Missing]

PreliminaryRefusal(permit, supplied) ==
    \/ permit = Missing
    \/ /\ permit # Missing
       /\ \/ mono >= permit.expiresAt
          \/ supplied # Missing /\ supplied < permit.evaluatedAt

\* The caller passes no time, its own clock, or what evaluate() returned.
SuppliedTimes(permit) ==
    {Missing, wall} \cup (IF permit = Missing THEN {} ELSE {permit.authorizedAt})

\* The synchronous start of execute(): spend the permit, copy the action and
\* the state out of the caller's object.
StartExecute(c, r) ==
    /\ Yielded
    /\ pc[c] = "idle"
    /\ phase[r] = "permitted"
    /\ MayWorkOn(r) /\ Cardinality(Running) < MaxInFlight
    /\ permits' = PermitSpent(r)
    /\ \E content, terms \in Bodies, supplied \in SuppliedTimes(permits[r]) :
          LET permit == permits[r]
              entered == [NotCalled EXCEPT !.request = r, !.held = permit,
                            !.captured = content, !.live = content,
                            !.terms = terms, !.supplied = supplied,
                            !.sound = WorldSupports(permit)]
              entryNow == IF permit = Missing THEN wall
                          ELSE ProjectedNow(permit, supplied)
          IN  \/ /\ PreliminaryRefusal(permit, supplied)
                 /\ RefuseExecution(c, r, entryNow)
              \/ /\ ~PreliminaryRefusal(permit, supplied)
                 /\ WritableBeforeDispatch
                 /\ call' = [call EXCEPT ![c] = entered]
                 /\ pc' = [pc EXCEPT ![c] = "record"]
                 /\ UNCHANGED sink
              \/ /\ ~PreliminaryRefusal(permit, supplied)
                 /\ ~WritableBeforeDispatch
                 /\ Forget(c, r)
                 /\ pc' = [pc EXCEPT ![c] = "threw"]
                 /\ UNCHANGED sink
    /\ UNCHANGED <<clock, world, evaluation>>

\* The caller writes to the request it passed to execute(): to the action or
\* the state, which execute() does not read again, or to the terms.
AlterCall(c) ==
    /\ Yielded
    /\ pc[c] \in {"record", "configuration", "attestation", "check"}
    /\ \/ /\ call[c].live = "authorized"
          /\ call' = [call EXCEPT ![c].live = "altered"]
       \/ /\ call[c].terms = "authorized"
          /\ call' = [call EXCEPT ![c].terms = "altered"]
    /\ UNCHANGED <<clock, world, evaluation, permits, pc, sink>>

\* refreshReleaseRecord answers, or fails, which ends the call.
RecordRead(c) == revoked

RefreshReleaseRecord(c) ==
    /\ Yielded
    /\ pc[c] = "record"
    /\ \/ /\ call' = [call EXCEPT ![c].revoked = RecordRead(c)]
          /\ pc' = [pc EXCEPT ![c] = "configuration"]
          /\ UNCHANGED sink
       \/ RefuseExecution(c, call[c].request, Now(c))
    /\ UNCHANGED <<clock, world, evaluation, permits>>

\* A provider that fails yields no observation.
RefreshExecutionConfiguration(c) ==
    /\ Yielded
    /\ pc[c] = "configuration"
    /\ \E observed \in {ObservedConfiguration, Missing} :
          call' = [call EXCEPT ![c].configuration = observed]
    /\ pc' = [pc EXCEPT ![c] = "attestation"]
    /\ UNCHANGED <<clock, world, evaluation, permits, sink>>

RefreshRuntimeAttestation(c) ==
    /\ Yielded
    /\ pc[c] = "attestation"
    /\ \E observed \in {ObservedRuntime, Missing} :
          call' = [call EXCEPT ![c].attestation = observed]
    /\ pc' = [pc EXCEPT ![c] = "check"]
    /\ UNCHANGED <<clock, world, evaluation, permits, sink>>

\* The facts as execute() knows them now.
CurrentFacts(c) ==
    [stateAt |-> Permit(c).stateAt, revoked |-> call[c].revoked,
     configuration |-> call[c].configuration,
     attestation |-> call[c].attestation]

\* The hashes of the copies and the terms of the caller's object are those of
\* the permit; the release is one of the terms because its eligibility is
\* decided by the hash of the caller's object.
BoundContent(c) == call[c].captured = "authorized" /\ call[c].terms = "authorized"
ContinuousRuntime(c) == call[c].attestation.token = Permit(c).token

CheckHolds(c, now) ==
    /\ mono < Permit(c).expiresAt
    /\ Authorizes(CurrentFacts(c), now)
    /\ BoundContent(c)
    /\ ContinuousRuntime(c)

\* The check after the refreshes; it runs on to the boundary without a yield.
Check(c) ==
    /\ Yielded
    /\ pc[c] = "check"
    /\ \/ /\ CheckHolds(c, Now(c))
          /\ call' = [call EXCEPT ![c].decidedAt = Now(c)]
          /\ pc' = [pc EXCEPT ![c] = "boundary"]
          /\ UNCHANGED sink
       \/ /\ ~CheckHolds(c, Now(c))
          /\ RefuseExecution(c, call[c].request, Now(c))
    /\ UNCHANGED <<clock, world, evaluation, permits>>

BoundaryHolds(c, now) ==
    /\ mono < Permit(c).expiresAt
    /\ Authorizes(CurrentFacts(c), now)
    /\ RuntimeAttested(facts[call[c].request].attestation, now)

NotRecheckedAtBoundary(c, now) == TRUE                  \* fault
MayCross(c, now) == BoundaryHolds(c, now)

HandedOverLive(c) == call[c].live                        \* fault
\* The adapter is given the copy, whatever became of the caller's object.
HandedOver(c) == call[c].captured

\* The last check samples the clocks again: an expired permit is refused with
\* the time of the earlier check, anything else with the time of this one.
Dispatch(c) ==
    /\ pc[c] = "boundary"
    /\ \/ /\ MayCross(c, Now(c))
          /\ call' = [call EXCEPT ![c].decidedAt = Now(c), ![c].dispatchedAt = mono,
                                   ![c].sent = HandedOver(c)]
          /\ pc' = [pc EXCEPT ![c] = "dispatched"]
          /\ UNCHANGED sink
       \/ /\ ~MayCross(c, Now(c))
          /\ RefuseExecution(c, call[c].request,
                             IF mono >= Permit(c).expiresAt
                             THEN call[c].decidedAt ELSE Now(c))
    /\ UNCHANGED <<clock, world, evaluation, permits>>

\* The adapter answers or throws; either way the attempt is written down with
\* the decision time frozen before the dispatch.
SettleDispatch(c) ==
    /\ Yielded
    /\ pc[c] = "dispatched"
    /\ \/ /\ Recorded(c, "attempted_unconfirmed", call[c].decidedAt,
                   Permit(c).stateAt)
          /\ pc' = [pc EXCEPT ![c] = "recorded"]
       \/ /\ AppendThrows(call[c].decidedAt, Permit(c).stateAt)
          /\ pc' = [pc EXCEPT ![c] = "lost"]
    /\ UNCHANGED <<clock, world, evaluation, permits, call>>

Evaluate(r) ==
    CollectFacts(r) \/ AlterRequest(r) \/ BeginEvaluate(r)
        \/ PolicyDenies(r) \/ PolicyAllows(r)

Execute(c) ==
    \/ \E r \in Request : StartExecute(c, r)
    \/ AlterCall(c)
    \/ RefreshReleaseRecord(c)
    \/ RefreshExecutionConfiguration(c)
    \/ RefreshRuntimeAttestation(c)
    \/ Check(c)
    \/ Dispatch(c)
    \/ SettleDispatch(c)

Next ==
    \/ Tick \/ AdjustWallClock
    \/ Revoke \/ DriftConfiguration \/ RestartRuntime
    \/ \E r \in Request : Evaluate(r)
    \/ \E c \in Execution : Execute(c)

Spec == Init /\ [][Next]_vars

-----------------------------------------------------------------------------
(* Properties. *)

Dispatched == {c \in Execution : call[c].dispatchedAt # Missing}

\* A permit takes at most one action across the controller boundary, however
\* many execute() calls it is presented to (execution-gate.ts:499-502).
PermitSpentOnce ==
    \A c, d \in Dispatched : c # d => call[c].request # call[d].request

\* What is handed to the adapter is the action evaluate() authorized, though
\* the caller may rewrite its object at any await, also after execute() copied
\* it and without the call being refused; and the world had not withdrawn its
\* support when execute() was entered: the record was not revoked, the
\* configuration had not drifted, the runtime was the one the permit was issued
\* for (execution-gate.ts:508-516, 566-713, 822).
DispatchWithinAuthority ==
    \A c \in Dispatched : call[c].sent = "authorized" /\ call[c].sound

\* However the wall clock is adjusted after evaluate() read it, a dispatch
\* happens within the permit's life, and on a state that, by the monotonic
\* clock, is no older than the policy allows (execution-gate.ts:83-100, 719-775).
DispatchInTime ==
    \A c \in Dispatched :
       LET from == started[call[c].request]
           at == call[c].dispatchedAt
       IN  /\ at < Permit(c).expiresAt
           /\ from.now + (at - from.mono) - Permit(c).stateAt <= MaxStateAge

\* The file tells the truth: its decisions are in order, no call appears
\* twice, and it says that a signal was sent exactly for calls that sent one
\* (evidence.ts:416-439, execution-gate.ts:814-855).
EvidenceTruthful ==
    \A m, n \in 1 .. Len(evidence) :
       /\ m < n => evidence[m].at <= evidence[n].at
       /\ m # n => evidence[m].of # evidence[n].of
       /\ evidence[m].says # "not_sent" <=> evidence[m].of \in Dispatched

\* With a steady wall clock and a disk that works, a gateway that works on one
\* proposal at a time leaves evidence of everything it dispatched
\* (ros2.ts:505-553, ros2-reference-gateway/index.ts:268-280).
DispatchLeavesEvidence ==
    adjustments = 0 /\ writeFailures = 0
        => \A c \in Dispatched : pc[c] # "lost"

\* The comment at execution-gate.ts:61, "Fail closed before a Run dispatch when
\* durable Evidence cannot accept it": nothing is dispatched whose evidence a
\* working disk then refuses to take.
RefusedEvidenceMeansNoDispatch ==
    writeFailures = 0 => \A c \in Dispatched : pc[c] # "lost"
=============================================================================
