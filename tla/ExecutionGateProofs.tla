------------------------ MODULE ExecutionGateProofs ------------------------
(***************************************************************************)
(* Theorems about ExecutionGate, for any requests, calls of execute(),     *)
(* limits and bounds.                                                      *)
(*                                                                         *)
(* None of the properties is inductive: each needs to know what a call     *)
(* that has not yet dispatched holds.  IInv says it: the permit in the     *)
(* hands of a call has left the map and is in no other hands (Spent), it   *)
(* is dated by the clocks its evaluation read (Dated), and what withdrew   *)
(* the world's support before the call was entered is something the call   *)
(* has still to read, or has read (Supported).                             *)
(*                                                                         *)
(* DispatchLeavesEvidence is about a caller that works on one proposal at  *)
(* a time; what it needs beyond IInv is in a section of its own.           *)
(***************************************************************************)
EXTENDS ExecutionGate, SequenceTheorems, FiniteSetTheorems, TLAPS

\* The calls that hold a permit, and among them those that dispatched.
Sent == {"dispatched", "recorded", "lost"}
Holding == {"record", "configuration", "attestation", "check", "boundary"} \cup Sent

\* What evaluate() and execute() rely on having read is there.
Stage ==
    /\ \A r \in Request :
          /\ phase[r] \in {"collected", "policy", "permitted"} => facts[r] \in Facts
          /\ phase[r] \in {"policy", "permitted"} => started[r] \in [now : Int, mono : Nat]
    /\ \A c \in Execution :
          pc[c] \in Holding => call[c].request \in Request /\ call[c].held \in Permits

\* A permit is in the map or in the hands of one call.
Spent ==
    /\ \A r \in Request : permits[r] # Missing => phase[r] = "permitted"
    /\ \A c \in Execution : pc[c] \in Holding =>
          phase[call[c].request] = "permitted" /\ permits[call[c].request] = Missing
    /\ \A c, d \in Execution :
          pc[c] \in Holding /\ pc[d] \in Holding /\ call[c].request = call[d].request
              => c = d
    /\ \A c \in Execution : call[c].dispatchedAt # Missing <=> pc[c] \in Sent

\* The permit p is dated by the clocks as evaluate(r) read them.
DatedBy(p, r) == p.authorizedAt - p.issuedAt = started[r].now - started[r].mono

InTime(c) ==
    LET from == started[call[c].request]
        at == call[c].dispatchedAt
    IN  /\ at < Permit(c).expiresAt
        /\ from.now + (at - from.mono) - Permit(c).stateAt <= MaxStateAge

Dated ==
    /\ \A r \in Request : permits[r] # Missing => DatedBy(permits[r], r)
    /\ \A c \in Execution : pc[c] \in Holding => DatedBy(call[c].held, call[c].request)
    /\ \A c \in Execution : pc[c] \in Sent => InTime(c)

\* No observation is of a runtime to come.
Tokens ==
    /\ \A r \in Request : phase[r] \in {"collected", "policy"} =>
          facts[r].attestation = Missing \/ facts[r].attestation.token <= runtime.token
    /\ \A r \in Request : permits[r] # Missing => permits[r].token <= runtime.token
    /\ \A c \in Execution : pc[c] \in Holding => call[c].held.token <= runtime.token

\* An execute() call that was entered when the world no longer supported its permit
\* finds out: it has read the reason, or the reason is still there to be read.
ReadRevoked(c) ==
    IF pc[c] = "record" THEN revoked ELSE call[c].revoked
ReadDrifted(c) ==
    IF pc[c] \in {"record", "configuration"} THEN drifted
    ELSE call[c].configuration = Missing \/ call[c].configuration.drifted
ReadRestarted(c) ==
    IF pc[c] \in {"record", "configuration", "attestation"}
    THEN call[c].held.token < runtime.token
    ELSE call[c].attestation = Missing \/ call[c].held.token < call[c].attestation.token

Supported ==
    \A c \in Execution :
       /\ pc[c] \in {"record", "configuration", "attestation", "check"} /\ ~call[c].sound
             => ReadRevoked(c) \/ ReadDrifted(c) \/ ReadRestarted(c)
       /\ pc[c] \in {"boundary"} \cup Sent
             => call[c].captured = "authorized" /\ call[c].sound
       /\ pc[c] \in Sent => call[c].sent = "authorized"

\* The file holds the refusals and attempts that were answered, in order.
Told ==
    /\ \A m, n \in 1 .. Len(evidence) :
          /\ m < n => evidence[m].at <= evidence[n].at
          /\ m # n => evidence[m].of # evidence[n].of
    /\ \A n \in 1 .. Len(evidence) :
          \/ /\ evidence[n].of \in Request /\ phase[evidence[n].of] = "refused"
             /\ evidence[n].says = "not_sent"
          \/ /\ evidence[n].of \in Execution /\ pc[evidence[n].of] = "refused"
             /\ evidence[n].says = "not_sent"
          \/ /\ evidence[n].of \in Execution /\ pc[evidence[n].of] = "recorded"
             /\ evidence[n].says # "not_sent"

IInv ==
    /\ TypeOK /\ Stage /\ Spent /\ Dated /\ Tokens /\ Supported /\ Told

-----------------------------------------------------------------------------
(* Types: TypeOK and Stage are preserved together. *)

\* append() keeps the file a sequence of entries, whether or not it throws.
LEMMA SinkTypes ==
    ASSUME TypeOK, NEW of \in Request \cup Execution, NEW at \in Int, NEW stateAt,
           NEW says \in {"not_sent", "attempted_unconfirmed"},
           Recorded(of, says, at, stateAt) \/ AppendThrows(at, stateAt)
    PROVE  evidence' \in Seq(Entries) /\ writeFailures' \in Nat
<1>1. [of |-> of, at |-> at, says |-> says] \in Entries
  BY DEF Entries
<1>2. CASE Recorded(of, says, at, stateAt)
  <2>1. evidence' = Append(evidence, [of |-> of, at |-> at, says |-> says])
    BY <1>2 DEF Recorded
  <2>2. evidence \in Seq(Entries)
    BY DEF TypeOK
  <2>3. evidence' \in Seq(Entries)
    BY <1>1, <2>1, <2>2, AppendProperties
  <2> QED
    BY <1>2, <2>3 DEF Recorded, TypeOK
<1>3. CASE AppendThrows(at, stateAt)
  BY <1>3 DEF TypeOK, AppendThrows
<1> QED
  BY <1>2, <1>3

\* The initial state.
LEMMA InitTypes == Init => TypeOK /\ Stage
<1> SUFFICES ASSUME Init PROVE TypeOK /\ Stage
  OBVIOUS
<1>1. NotCalled \in Calls
  BY DEF NotCalled, Calls, Configurations, Attestations, Bodies
<1>2. StartWall \in Int
  BY ConstantsAssumption
<1>3. /\ wall \in Int /\ mono \in Nat /\ adjustments \in Nat
      /\ revoked \in BOOLEAN /\ drifted \in BOOLEAN
      /\ runtime \in [token : Nat, capable : BOOLEAN]
      /\ withdrawals \in Nat /\ writeFailures \in Nat
  BY <1>2 DEF Init
<1>4. /\ phase \in [Request -> Phases] /\ facts \in [Request -> Facts \cup {Missing}]
      /\ body \in [Request -> Bodies]
      /\ started \in [Request -> [now : Int, mono : Nat] \cup {Missing}]
      /\ permits \in [Request -> Permits \cup {Missing}]
  BY DEF Init, Phases, Bodies
<1>5. /\ pc \in [Execution -> Labels] /\ call \in [Execution -> Calls]
      /\ evidence \in Seq(Entries)
  BY <1>1 DEF Init, Labels
<1>6. Stage
  BY DEF Init, Stage, Holding, Sent
<1> QED
  BY <1>3, <1>4, <1>5, <1>6 DEF TypeOK

\* evaluate() refuses.
LEMMA RefuseEvaluationTypes ==
    ASSUME TypeOK, Stage, NEW r \in Request, NEW at \in Int, RefuseEvaluation(r, at)
    PROVE  TypeOK' /\ Stage'
<1>1. evidence' \in Seq(Entries) /\ writeFailures' \in Nat
  BY SinkTypes DEF RefuseEvaluation
<1>2. \/ phase' = [phase EXCEPT ![r] = "refused"]
      \/ phase' = [phase EXCEPT ![r] = "threw"]
  BY DEF RefuseEvaluation
<1>3. /\ facts' = [facts EXCEPT ![r] = Missing]
      /\ body' = [body EXCEPT ![r] = "authorized"]
      /\ started' = [started EXCEPT ![r] = Missing]
      /\ UNCHANGED <<clock, world, permits, pc, call>>
  BY DEF RefuseEvaluation
<1>4. TypeOK'
  BY <1>1, <1>2, <1>3 DEF TypeOK, Phases, Bodies, clock, world
<1>5. Stage'
  BY <1>2, <1>3 DEF Stage, TypeOK
<1> QED
  BY <1>4, <1>5

\* A step of the clocks or of the world outside the gate.
Outside == Tick \/ AdjustWallClock \/ Revoke \/ DriftConfiguration \/ RestartRuntime

\* It leaves the gate alone, and what it withdraws stays withdrawn.
LEMMA OutsideStep ==
    ASSUME TypeOK, Outside
    PROVE  /\ wall' \in Int /\ mono' \in Nat /\ adjustments' \in Nat
           /\ revoked' \in BOOLEAN /\ drifted' \in BOOLEAN
           /\ runtime' \in [token : Nat, capable : BOOLEAN] /\ withdrawals' \in Nat
           /\ (revoked => revoked') /\ (drifted => drifted')
           /\ runtime.token <= runtime'.token
           /\ UNCHANGED <<evaluation, permits, pc, call, sink>>
<1>1. CASE Tick
  BY <1>1 DEF TypeOK, Tick, world
<1>2. CASE AdjustWallClock
  BY <1>2 DEF TypeOK, AdjustWallClock, world
<1>3. CASE Revoke
  BY <1>3 DEF TypeOK, Revoke, Withdraw, clock
<1>4. CASE DriftConfiguration
  BY <1>4 DEF TypeOK, DriftConfiguration, Withdraw, clock
<1>5. CASE RestartRuntime
  BY <1>5 DEF TypeOK, RestartRuntime, Withdraw, clock
<1> QED
  BY <1>1, <1>2, <1>3, <1>4, <1>5 DEF Outside

\* The caller collects facts.
LEMMA CollectTypes ==
    ASSUME TypeOK, Stage, NEW r \in Request, CollectFacts(r)
    PROVE  TypeOK' /\ Stage'
<1>1. PICK age \in {-1, 0, MaxStateAge, MaxStateAge + 1},
           configuration \in {ObservedConfiguration, Missing},
           attestation \in {ObservedRuntime, Missing} :
        facts' = [facts EXCEPT ![r] =
                    [stateAt |-> wall - age, revoked |-> revoked,
                     configuration |-> configuration,
                     attestation |-> attestation]]
  BY DEF CollectFacts
<1>2. age \in Int
  BY ConstantsAssumption
<1>3. configuration \in Configurations /\ attestation \in Attestations
  BY DEF TypeOK, Configurations, Attestations, ObservedConfiguration, ObservedRuntime
<1>4. wall - age \in Int
  BY <1>2 DEF TypeOK
<1>5. [stateAt |-> wall - age, revoked |-> revoked,
       configuration |-> configuration, attestation |-> attestation] \in Facts
  BY <1>3, <1>4 DEF TypeOK, Facts
<1>6. /\ phase' = [phase EXCEPT ![r] = "collected"]
      /\ UNCHANGED <<clock, world, body, started, permits, pc, call, sink>>
  BY DEF CollectFacts
<1> QED
  BY <1>1, <1>5, <1>6 DEF TypeOK, Stage, Phases, clock, world, sink

\* A permit as evaluate() builds it.
LEMMA IssueTypes ==
    ASSUME TypeOK, Stage, NEW r \in Request, phase[r] = "policy",
           Authorizes(facts[r], AuthorizationNow(r)), IssuePermit(r, AuthorizationNow(r))
    PROVE  TypeOK' /\ Stage'
<1> DEFINE permit == [stateAt |-> facts[r].stateAt,
                      evaluatedAt |-> started[r].now,
                      authorizedAt |-> AuthorizationNow(r),
                      issuedAt |-> mono,
                      expiresAt |-> mono + Smaller(PermitCap, MaxStateAge),
                      token |-> facts[r].attestation.token]
<1>1. facts[r] \in Facts /\ started[r] \in [now : Int, mono : Nat]
  BY DEF Stage
<1>2. facts[r].attestation \in [token : Nat, capable : BOOLEAN, at : Int]
  BY <1>1 DEF Authorizes, RuntimeAttested, Facts, Attestations
<1>3. Smaller(PermitCap, MaxStateAge) \in Nat
  BY ConstantsAssumption DEF Smaller
<1>4. AuthorizationNow(r) \in Int
  BY <1>1 DEF AuthorizationNow, TypeOK
<1>5. permit \in Permits
  BY <1>1, <1>2, <1>3, <1>4 DEF Permits, Facts, TypeOK
<1>6. /\ permits' = [permits EXCEPT ![r] = permit]
      /\ phase' = [phase EXCEPT ![r] = "permitted"]
      /\ UNCHANGED <<clock, world, facts, body, started, pc, call, sink>>
  BY DEF IssuePermit
<1> HIDE DEF permit
<1> QED
  BY <1>1, <1>5, <1>6 DEF TypeOK, Stage, Phases, clock, world, sink

-----------------------------------------------------------------------------
(* What a step of one execute() call does to that call and to the others. *)

Others(c) == \A d \in Execution : d # c => pc'[d] = pc[d] /\ call'[d] = call[d]

\* The step of c leaves types intact and touches nothing but c, the map and the file.
Moves(c) ==
    /\ call' \in [Execution -> Calls] /\ pc' \in [Execution -> Labels]
    /\ evidence' \in Seq(Entries) /\ writeFailures' \in Nat
    /\ Others(c)
    /\ UNCHANGED <<clock, world, evaluation>>

\* The file gets one more entry, of x, that is not older than the others.
Writes(x, says) ==
    \E at \in Int :
       /\ \A n \in 1 .. Len(evidence) : evidence[n].at <= at
       /\ evidence' = Append(evidence, [of |-> x, at |-> at, says |-> says])

\* append() without an error writes one entry.
LEMMA RecordedWrites ==
    ASSUME NEW x, NEW says, NEW at \in Int, NEW stateAt, Recorded(x, says, at, stateAt)
    PROVE  Writes(x, says)
<1>1. /\ \A n \in 1 .. Len(evidence) : evidence[n].at <= at
      /\ evidence' = Append(evidence, [of |-> x, at |-> at, says |-> says])
  BY DEF Recorded, Accepts
<1> QED
  BY <1>1, Zenon DEF Writes

\* The call ends without a dispatch, and holds nothing any more.
Forgets(c) ==
    /\ Moves(c)
    /\ pc'[c] \in {"refused", "threw"} /\ call'[c].dispatchedAt = Missing
    /\ evidence' = evidence \/ (Writes(c, "not_sent") /\ pc'[c] = "refused")

\* The call goes on with the permit it holds.
Keeps(c) ==
    /\ Moves(c) /\ UNCHANGED permits
    /\ pc[c] \in Holding /\ pc'[c] \in Holding
    /\ call'[c].request = call[c].request /\ call'[c].held = call[c].held
    /\ call'[c].captured = call[c].captured /\ call'[c].sound = call[c].sound

\* One call and its label replaced.
LEMMA Replaced ==
    ASSUME TypeOK, NEW c \in Execution, NEW x \in Calls, NEW label \in Labels,
           call' = [call EXCEPT ![c] = x], pc' = [pc EXCEPT ![c] = label]
    PROVE  /\ call' \in [Execution -> Calls] /\ pc' \in [Execution -> Labels]
           /\ Others(c) /\ call'[c] = x /\ pc'[c] = label
  BY DEF TypeOK, Others

\* What a call holds before it is made, and when it has ended.
LEMMA EndedCall ==
    ASSUME NEW r \in Request
    PROVE  /\ NotCalled \in Calls /\ NotCalled.dispatchedAt = Missing
           /\ [NotCalled EXCEPT !.request = r] \in Calls
           /\ [NotCalled EXCEPT !.request = r].dispatchedAt = Missing
<1>1. NotCalled \in Calls
  BY DEF NotCalled, Calls, Configurations, Attestations, Bodies
<1>2. NotCalled.dispatchedAt = Missing
  BY DEF NotCalled
<1>3. [NotCalled EXCEPT !.request = r] \in Calls
  BY <1>1 DEF Calls
<1>4. [NotCalled EXCEPT !.request = r].dispatchedAt = NotCalled.dispatchedAt
  BY <1>1 DEF Calls
<1> QED
  BY <1>1, <1>2, <1>3, <1>4

\* A refusal by execute().
LEMMA RefusalForgets ==
    ASSUME TypeOK, NEW c \in Execution, NEW r \in Request, NEW at \in Int,
           RefuseExecution(c, r, at), UNCHANGED <<clock, world, evaluation>>
    PROVE  Forgets(c)
<1> DEFINE x == [NotCalled EXCEPT !.request = r]
<1>1. x \in Calls /\ x.dispatchedAt = Missing
  BY EndedCall
<1>2. evidence' \in Seq(Entries) /\ writeFailures' \in Nat
  BY SinkTypes DEF RefuseExecution
<1>3. call' = [call EXCEPT ![c] = x]
  BY DEF RefuseExecution, Forget
<1> HIDE DEF x
<1>4. PICK label \in {"refused", "threw"} : pc' = [pc EXCEPT ![c] = label]
  BY DEF RefuseExecution
<1>5. label \in Labels
  BY DEF Labels
<1>6. /\ call' \in [Execution -> Calls] /\ pc' \in [Execution -> Labels]
      /\ Others(c) /\ call'[c] = x /\ pc'[c] = label
  BY <1>1, <1>3, <1>4, <1>5, Replaced
<1>7. evidence' = evidence \/ (Writes(c, "not_sent") /\ pc'[c] = "refused")
  <2>1. CASE Recorded(c, "not_sent", at, facts[r].stateAt) /\ pc' = [pc EXCEPT ![c] = "refused"]
    BY <2>1, RecordedWrites DEF TypeOK
  <2>2. CASE AppendThrows(at, facts[r].stateAt)
    BY <2>2 DEF AppendThrows
  <2> QED
    BY <2>1, <2>2 DEF RefuseExecution
<1> QED
  BY <1>1, <1>2, <1>4, <1>6, <1>7 DEF Forgets, Moves

\* The projected time is an integer.
LEMMA ProjectedInt ==
    ASSUME TypeOK, NEW permit \in Permits, NEW supplied \in Int \cup {Missing}
    PROVE  ProjectedNow(permit, supplied) \in Int
  BY DEF TypeOK, ProjectedNow, Larger, Permits

\* The time a call that holds a permit works with is an integer.
LEMMA NowInt ==
    ASSUME TypeOK, Stage, NEW c \in Execution, pc[c] \in Holding PROVE Now(c) \in Int
<1>1. call[c].held \in Permits
  BY DEF Stage
<1>2. call[c].supplied \in Int \cup {Missing}
  BY DEF TypeOK, Calls
<1> QED
  BY <1>1, <1>2, ProjectedInt DEF Now, Permit

\* execute() begins: the permit moves from the map into the hands of the call.
Enters(c, r) ==
    /\ Moves(c) /\ UNCHANGED sink
    /\ permits' = [permits EXCEPT ![r] = Missing]
    /\ pc[c] = "idle" /\ pc'[c] = "record" /\ phase[r] = "permitted"
    /\ permits[r] # Missing
    /\ call'[c].request = r /\ call'[c].held = permits[r]
    /\ call'[c].dispatchedAt = Missing
    /\ call'[c].sound = WorldSupports(permits[r])

\* The synchronous start of execute() takes the permit out of the map, and the
\* call ends or enters.
LEMMA StartStep ==
    ASSUME TypeOK, Stage, NEW c \in Execution, NEW r \in Request, StartExecute(c, r)
    PROVE  /\ permits' = [permits EXCEPT ![r] = Missing]
           /\ pc[c] = "idle" /\ phase[r] = "permitted"
           /\ Forgets(c) \/ Enters(c, r)
<1>1. /\ permits' = [permits EXCEPT ![r] = Missing]
      /\ pc[c] = "idle" /\ phase[r] = "permitted"
      /\ UNCHANGED <<clock, world, evaluation>>
  BY DEF StartExecute, PermitSpent
<1> DEFINE permit == permits[r]
           entered(content, terms, supplied) ==
              [NotCalled EXCEPT !.request = r, !.held = permit,
                 !.captured = content, !.live = content, !.terms = terms,
                 !.supplied = supplied, !.sound = WorldSupports(permit)]
           entryNow(supplied) ==
              IF permit = Missing THEN wall ELSE ProjectedNow(permit, supplied)
<1>2. PICK content \in Bodies, terms \in Bodies, supplied \in SuppliedTimes(permit) :
         \/ /\ PreliminaryRefusal(permit, supplied)
            /\ RefuseExecution(c, r, entryNow(supplied))
         \/ /\ ~PreliminaryRefusal(permit, supplied)
            /\ call' = [call EXCEPT ![c] = entered(content, terms, supplied)]
            /\ pc' = [pc EXCEPT ![c] = "record"]
            /\ UNCHANGED sink
         \/ /\ ~PreliminaryRefusal(permit, supplied)
            /\ Forget(c, r)
            /\ pc' = [pc EXCEPT ![c] = "threw"]
            /\ UNCHANGED sink
  BY DEF StartExecute
<1>3. permit \in Permits \cup {Missing}
  BY DEF TypeOK
<1>4. supplied \in Int \cup {Missing}
  BY <1>3 DEF SuppliedTimes, TypeOK, Permits
<1>5. entryNow(supplied) \in Int
  BY <1>3, <1>4, ProjectedInt DEF TypeOK
<1>6. CASE RefuseExecution(c, r, entryNow(supplied))
  BY <1>1, <1>5, <1>6, RefusalForgets
<1>7. CASE /\ ~PreliminaryRefusal(permit, supplied)
           /\ call' = [call EXCEPT ![c] = entered(content, terms, supplied)]
           /\ pc' = [pc EXCEPT ![c] = "record"]
           /\ UNCHANGED sink
  <2> DEFINE x == entered(content, terms, supplied)
  <2>1. permit # Missing
    BY <1>7 DEF PreliminaryRefusal
  <2>2. WorldSupports(permit) \in BOOLEAN
    BY DEF WorldSupports
  <2>3. /\ x \in Calls
        /\ x.request = r /\ x.held = permit /\ x.dispatchedAt = Missing
        /\ x.sound = WorldSupports(permit)
    <3>1. NotCalled \in Calls /\ NotCalled.dispatchedAt = Missing
      BY EndedCall
    <3> QED
      BY <1>3, <1>4, <2>1, <2>2, <3>1 DEF Calls
  <2>4. call' = [call EXCEPT ![c] = x]
    BY <1>7
  <2> HIDE DEF x
  <2>5. "record" \in Labels
    BY DEF Labels
  <2>6. /\ call' \in [Execution -> Calls] /\ pc' \in [Execution -> Labels]
        /\ Others(c) /\ call'[c] = x /\ pc'[c] = "record"
    BY <1>7, <2>3, <2>4, <2>5, Replaced
  <2>7. evidence' \in Seq(Entries) /\ writeFailures' \in Nat
    BY <1>7 DEF TypeOK, sink
  <2> QED
    BY <1>1, <1>7, <2>1, <2>3, <2>6, <2>7 DEF Enters, Moves
<1>8. CASE /\ Forget(c, r)
           /\ pc' = [pc EXCEPT ![c] = "threw"]
           /\ UNCHANGED sink
  <2> DEFINE x == [NotCalled EXCEPT !.request = r]
  <2>1. x \in Calls /\ x.dispatchedAt = Missing
    BY EndedCall
  <2>2. call' = [call EXCEPT ![c] = x]
    BY <1>8 DEF Forget
  <2> HIDE DEF x
  <2>3. "threw" \in Labels
    BY DEF Labels
  <2>4. /\ call' \in [Execution -> Calls] /\ pc' \in [Execution -> Labels]
        /\ Others(c) /\ call'[c] = x /\ pc'[c] = "threw"
    BY <1>8, <2>1, <2>2, <2>3, Replaced
  <2>5. evidence' \in Seq(Entries) /\ writeFailures' \in Nat
    BY <1>8 DEF TypeOK, sink
  <2>6. evidence' = evidence
    BY <1>8 DEF sink
  <2>7. Moves(c) /\ pc'[c] \in {"refused", "threw"} /\ call'[c].dispatchedAt = Missing
    BY <1>1, <2>1, <2>4, <2>5 DEF Moves
  <2> QED
    BY <1>1, <2>6, <2>7, Zenon DEF Forgets
<1> QED
  BY <1>1, <1>2, <1>6, <1>7, <1>8

\* The caller writes to its request.
LEMMA AlterStep ==
    ASSUME TypeOK, NEW c \in Execution, AlterCall(c)
    PROVE  /\ Keeps(c) /\ UNCHANGED sink
           /\ pc[c] \notin Sent /\ pc'[c] = pc[c]
           /\ call'[c].dispatchedAt = call[c].dispatchedAt
           /\ call'[c].revoked = call[c].revoked
           /\ call'[c].configuration = call[c].configuration
           /\ call'[c].attestation = call[c].attestation
<1>1. PICK x \in {[call[c] EXCEPT !.live = "altered"], [call[c] EXCEPT !.terms = "altered"]} :
      /\ pc[c] \in {"record", "configuration", "attestation", "check"}
      /\ call' = [call EXCEPT ![c] = x] /\ pc' = pc
      /\ UNCHANGED <<clock, world, evaluation, permits, sink>>
  BY DEF AlterCall
<1>2. /\ x \in Calls /\ x.request = call[c].request /\ x.held = call[c].held
      /\ x.captured = call[c].captured /\ x.sound = call[c].sound
      /\ x.dispatchedAt = call[c].dispatchedAt /\ x.revoked = call[c].revoked
      /\ x.configuration = call[c].configuration /\ x.attestation = call[c].attestation
  <2>1. "altered" \in Bodies /\ call[c] \in Calls
    BY DEF Bodies, TypeOK
  <2>2. CASE x = [call[c] EXCEPT !.live = "altered"]
    BY <2>1, <2>2 DEF Calls
  <2>3. CASE x = [call[c] EXCEPT !.terms = "altered"]
    BY <2>1, <2>3 DEF Calls
  <2> QED
    BY <1>1, <2>2, <2>3
<1>3. call' \in [Execution -> Calls] /\ pc' \in [Execution -> Labels]
  BY <1>1, <1>2 DEF TypeOK
<1>4. Others(c) /\ call'[c] = x
  BY <1>1 DEF TypeOK, Others
<1>5. evidence' \in Seq(Entries) /\ writeFailures' \in Nat
  BY <1>1 DEF TypeOK, sink
<1> QED
  BY <1>1, <1>2, <1>3, <1>4, <1>5 DEF Keeps, Moves, Holding, Sent

\* The release record is read, and shows a revocation that has happened.
RecordIsRead(c) ==
    /\ Keeps(c) /\ UNCHANGED sink
    /\ pc[c] = "record" /\ pc'[c] = "configuration"
    /\ call'[c].dispatchedAt = call[c].dispatchedAt
    /\ call'[c].revoked = revoked

\* refreshReleaseRecord answers, or the call ends.
LEMMA RecordStep ==
    ASSUME TypeOK, Stage, NEW c \in Execution, RefreshReleaseRecord(c)
    PROVE  UNCHANGED permits /\ pc[c] \in Holding \ Sent
           /\ (RecordIsRead(c) \/ Forgets(c))
<1>1. pc[c] = "record" /\ UNCHANGED <<clock, world, evaluation, permits>>
  BY DEF RefreshReleaseRecord
<1>2. pc[c] \in Holding \ Sent
  BY <1>1 DEF Holding, Sent
<1>3. CASE RefuseExecution(c, call[c].request, Now(c))
  <2>1. call[c].request \in Request /\ Now(c) \in Int
    BY <1>2, NowInt DEF Stage
  <2> QED
    BY <1>1, <1>2, <1>3, <2>1, RefusalForgets
<1>4. CASE ~RefuseExecution(c, call[c].request, Now(c))
  <2> DEFINE x == [call[c] EXCEPT !.revoked = revoked]
  <2>1. /\ call' = [call EXCEPT ![c] = x]
        /\ pc' = [pc EXCEPT ![c] = "configuration"]
        /\ UNCHANGED sink
    BY <1>4 DEF RefreshReleaseRecord, RecordRead
  <2>2. /\ x \in Calls /\ x.request = call[c].request /\ x.held = call[c].held
        /\ x.captured = call[c].captured /\ x.sound = call[c].sound
        /\ x.dispatchedAt = call[c].dispatchedAt /\ x.revoked = revoked
    BY DEF TypeOK, Calls
  <2> HIDE DEF x
  <2>3. "configuration" \in Labels
    BY DEF Labels
  <2>4. /\ call' \in [Execution -> Calls] /\ pc' \in [Execution -> Labels]
        /\ Others(c) /\ call'[c] = x /\ pc'[c] = "configuration"
    BY <2>1, <2>2, <2>3, Replaced
  <2>5. evidence' \in Seq(Entries) /\ writeFailures' \in Nat
    BY <2>1 DEF TypeOK, sink
  <2> QED
    BY <1>1, <1>2, <2>1, <2>2, <2>4, <2>5 DEF RecordIsRead, Keeps, Moves, Holding, Sent
<1> QED
  BY <1>3, <1>4

\* The execution configuration is read, or there is no observation of it.
ConfigurationIsRead(c) ==
    /\ Keeps(c) /\ UNCHANGED <<permits, sink>>
    /\ pc[c] = "configuration" /\ pc'[c] = "attestation"
    /\ call'[c].dispatchedAt = call[c].dispatchedAt
    /\ call'[c].revoked = call[c].revoked
    /\ call'[c].configuration = Missing \/ call'[c].configuration.drifted = drifted

\* refreshExecutionConfiguration answers, or fails.
LEMMA ConfigurationStep ==
    ASSUME TypeOK, NEW c \in Execution, RefreshExecutionConfiguration(c)
    PROVE  ConfigurationIsRead(c)
<1>1. PICK observed \in {ObservedConfiguration, Missing} :
         call' = [call EXCEPT ![c] = [call[c] EXCEPT !.configuration = observed]]
  BY DEF RefreshExecutionConfiguration
<1>2. /\ pc[c] = "configuration"
      /\ pc' = [pc EXCEPT ![c] = "attestation"]
      /\ UNCHANGED <<clock, world, evaluation, permits, sink>>
  BY DEF RefreshExecutionConfiguration
<1>3. observed \in Configurations /\ (observed = Missing \/ observed.drifted = drifted)
  BY DEF ObservedConfiguration, Configurations, TypeOK
<1> DEFINE x == [call[c] EXCEPT !.configuration = observed]
<1>4. /\ x \in Calls /\ x.request = call[c].request /\ x.held = call[c].held
      /\ x.captured = call[c].captured /\ x.sound = call[c].sound
      /\ x.dispatchedAt = call[c].dispatchedAt /\ x.revoked = call[c].revoked
      /\ x.configuration = observed
  BY <1>3 DEF TypeOK, Calls
<1>5. call' = [call EXCEPT ![c] = x]
  BY <1>1
<1> HIDE DEF x
<1>6. "attestation" \in Labels
  BY DEF Labels
<1>7. /\ call' \in [Execution -> Calls] /\ pc' \in [Execution -> Labels]
      /\ Others(c) /\ call'[c] = x /\ pc'[c] = "attestation"
  BY <1>2, <1>4, <1>5, <1>6, Replaced
<1>8. evidence' \in Seq(Entries) /\ writeFailures' \in Nat
  BY <1>2 DEF TypeOK, sink
<1> QED
  BY <1>2, <1>3, <1>4, <1>7, <1>8 DEF ConfigurationIsRead, Keeps, Moves, Holding, Sent

\* The runtime is attested, or there is no attestation.
RuntimeIsRead(c) ==
    /\ Keeps(c) /\ UNCHANGED <<permits, sink>>
    /\ pc[c] = "attestation" /\ pc'[c] = "check"
    /\ call'[c].dispatchedAt = call[c].dispatchedAt
    /\ call'[c].revoked = call[c].revoked
    /\ call'[c].configuration = call[c].configuration
    /\ call'[c].attestation = Missing \/ call'[c].attestation.token = runtime.token

\* refreshRuntimeAttestation answers, or fails.
LEMMA AttestationStep ==
    ASSUME TypeOK, NEW c \in Execution, RefreshRuntimeAttestation(c)
    PROVE  RuntimeIsRead(c)
<1>1. PICK observed \in {ObservedRuntime, Missing} :
         call' = [call EXCEPT ![c] = [call[c] EXCEPT !.attestation = observed]]
  BY DEF RefreshRuntimeAttestation
<1>2. /\ pc[c] = "attestation"
      /\ pc' = [pc EXCEPT ![c] = "check"]
      /\ UNCHANGED <<clock, world, evaluation, permits, sink>>
  BY DEF RefreshRuntimeAttestation
<1>3. observed \in Attestations /\ (observed = Missing \/ observed.token = runtime.token)
  BY DEF ObservedRuntime, Attestations, TypeOK
<1> DEFINE x == [call[c] EXCEPT !.attestation = observed]
<1>4. /\ x \in Calls /\ x.request = call[c].request /\ x.held = call[c].held
      /\ x.captured = call[c].captured /\ x.sound = call[c].sound
      /\ x.dispatchedAt = call[c].dispatchedAt /\ x.revoked = call[c].revoked
      /\ x.configuration = call[c].configuration /\ x.attestation = observed
  BY <1>3 DEF TypeOK, Calls
<1>5. call' = [call EXCEPT ![c] = x]
  BY <1>1
<1> HIDE DEF x
<1>6. "check" \in Labels
  BY DEF Labels
<1>7. /\ call' \in [Execution -> Calls] /\ pc' \in [Execution -> Labels]
      /\ Others(c) /\ call'[c] = x /\ pc'[c] = "check"
  BY <1>2, <1>4, <1>5, <1>6, Replaced
<1>8. evidence' \in Seq(Entries) /\ writeFailures' \in Nat
  BY <1>2 DEF TypeOK, sink
<1> QED
  BY <1>2, <1>3, <1>4, <1>7, <1>8 DEF RuntimeIsRead, Keeps, Moves, Holding, Sent

\* The check passes: the content is the one that was authorized, and what was
\* read supports the permit.
CheckPasses(c) ==
    /\ Keeps(c) /\ UNCHANGED sink
    /\ pc[c] = "check" /\ pc'[c] = "boundary"
    /\ call'[c].dispatchedAt = call[c].dispatchedAt
    /\ call[c].captured = "authorized"
    /\ ~call[c].revoked
    /\ call[c].configuration # Missing /\ ~call[c].configuration.drifted
    /\ call[c].attestation # Missing
    /\ call[c].attestation.token = call[c].held.token

\* The check after the refreshes passes, or the call ends.
LEMMA CheckStep ==
    ASSUME TypeOK, Stage, NEW c \in Execution, Check(c)
    PROVE  UNCHANGED permits /\ pc[c] \in Holding \ Sent
           /\ (CheckPasses(c) \/ Forgets(c))
<1>1. pc[c] = "check" /\ UNCHANGED <<clock, world, evaluation, permits>>
  BY DEF Check
<1>2. pc[c] \in Holding \ Sent
  BY <1>1 DEF Holding, Sent
<1>3. call[c].request \in Request /\ Now(c) \in Int
  BY <1>2, NowInt DEF Stage
<1>4. CASE RefuseExecution(c, call[c].request, Now(c))
  BY <1>1, <1>2, <1>3, <1>4, RefusalForgets
<1>5. CASE ~RefuseExecution(c, call[c].request, Now(c))
  <2> DEFINE x == [call[c] EXCEPT !.decidedAt = Now(c)]
  <2>1. /\ CheckHolds(c, Now(c))
        /\ call' = [call EXCEPT ![c] = x]
        /\ pc' = [pc EXCEPT ![c] = "boundary"]
        /\ UNCHANGED sink
    BY <1>5 DEF Check
  <2>2. /\ x \in Calls /\ x.request = call[c].request /\ x.held = call[c].held
        /\ x.captured = call[c].captured /\ x.sound = call[c].sound
        /\ x.dispatchedAt = call[c].dispatchedAt
    BY <1>3 DEF TypeOK, Calls
  <2> HIDE DEF x
  <2>3. "boundary" \in Labels
    BY DEF Labels
  <2>4. /\ call' \in [Execution -> Calls] /\ pc' \in [Execution -> Labels]
        /\ Others(c) /\ call'[c] = x /\ pc'[c] = "boundary"
    BY <2>1, <2>2, <2>3, Replaced
  <2>5. evidence' \in Seq(Entries) /\ writeFailures' \in Nat
    BY <2>1 DEF TypeOK, sink
  <2>6. Authorizes(CurrentFacts(c), Now(c)) /\ BoundContent(c) /\ ContinuousRuntime(c)
    BY <2>1 DEF CheckHolds
  <2>7. /\ call[c].captured = "authorized"
        /\ ~call[c].revoked
        /\ call[c].configuration # Missing /\ ~call[c].configuration.drifted
        /\ call[c].attestation # Missing
        /\ call[c].attestation.token = call[c].held.token
    BY <2>6 DEF Authorizes, ExecutionEligible, ConfigurationBound, RuntimeAttested,
                CurrentFacts, BoundContent, ContinuousRuntime, Permit
  <2> QED
    BY <1>1, <1>2, <2>1, <2>2, <2>4, <2>5, <2>7
       DEF CheckPasses, Keeps, Moves, Holding, Sent
<1> QED
  BY <1>4, <1>5

\* The action crosses the boundary, within the life of the permit and the age of
\* the state.
Crosses(c) ==
    /\ Keeps(c) /\ UNCHANGED sink
    /\ pc[c] = "boundary" /\ pc'[c] = "dispatched"
    /\ call'[c].dispatchedAt = mono /\ call'[c].sent = call[c].captured
    /\ mono < call[c].held.expiresAt
    /\ Now(c) - call[c].held.stateAt <= MaxStateAge

\* The check at the boundary passes, or the call ends.
LEMMA DispatchStep ==
    ASSUME TypeOK, Stage, NEW c \in Execution, Dispatch(c)
    PROVE  UNCHANGED permits /\ pc[c] \in Holding \ Sent
           /\ (Crosses(c) \/ Forgets(c))
<1>1. pc[c] = "boundary" /\ UNCHANGED <<clock, world, evaluation, permits>>
  BY DEF Dispatch
<1>2. pc[c] \in Holding \ Sent
  BY <1>1 DEF Holding, Sent
<1>3. call[c].request \in Request /\ Now(c) \in Int /\ call[c].decidedAt \in Int
  BY <1>2, NowInt DEF Stage, TypeOK, Calls
<1> DEFINE at == IF mono >= Permit(c).expiresAt THEN call[c].decidedAt ELSE Now(c)
<1>4. at \in Int
  BY <1>3
<1>5. CASE RefuseExecution(c, call[c].request, at)
  BY <1>1, <1>2, <1>3, <1>4, <1>5, RefusalForgets
<1>6. CASE ~RefuseExecution(c, call[c].request, at)
  <2> DEFINE x == [call[c] EXCEPT !.decidedAt = Now(c), !.dispatchedAt = mono,
                              !.sent = call[c].captured]
  <2>1. /\ MayCross(c, Now(c))
        /\ call' = [call EXCEPT ![c].decidedAt = Now(c), ![c].dispatchedAt = mono,
                                 ![c].sent = call[c].captured]
        /\ pc' = [pc EXCEPT ![c] = "dispatched"]
        /\ UNCHANGED sink
    BY <1>6 DEF Dispatch, HandedOver
  <2>2. /\ x \in Calls /\ x.request = call[c].request /\ x.held = call[c].held
        /\ x.captured = call[c].captured /\ x.sound = call[c].sound
        /\ x.dispatchedAt = mono /\ x.sent = call[c].captured
    <3>1. call[c] \in Calls /\ mono \in Int /\ call[c].captured \in Bodies
      BY DEF TypeOK, Calls
    <3> QED
      BY <1>3, <3>1 DEF Calls
  <2>3. call' = [call EXCEPT ![c] = x]
    BY <2>1 DEF TypeOK
  <2> HIDE DEF x
  <2>4. "dispatched" \in Labels
    BY DEF Labels
  <2>5. /\ call' \in [Execution -> Calls] /\ pc' \in [Execution -> Labels]
        /\ Others(c) /\ call'[c] = x /\ pc'[c] = "dispatched"
    BY <2>1, <2>2, <2>3, <2>4, Replaced
  <2>6. evidence' \in Seq(Entries) /\ writeFailures' \in Nat
    BY <2>1 DEF TypeOK, sink
  <2>7. mono < call[c].held.expiresAt /\ Now(c) - call[c].held.stateAt <= MaxStateAge
    BY <2>1 DEF MayCross, BoundaryHolds, Authorizes, Fresh, CurrentFacts, Permit
  <2> QED
    BY <1>1, <1>2, <2>1, <2>2, <2>5, <2>6, <2>7
       DEF Crosses, Keeps, Moves, Holding, Sent
<1> QED
  BY <1>5, <1>6

\* The attempt is settled: the call keeps everything but its label.
Settles(c) ==
    /\ Keeps(c) /\ UNCHANGED call
    /\ pc[c] = "dispatched" /\ pc'[c] \in {"recorded", "lost"}
    /\ evidence' = evidence
         \/ (Writes(c, "attempted_unconfirmed") /\ pc'[c] = "recorded")

\* The adapter has answered.
LEMMA SettleStep ==
    ASSUME TypeOK, Stage, NEW c \in Execution, SettleDispatch(c) PROVE Settles(c)
<1>1. pc[c] = "dispatched" /\ UNCHANGED <<clock, world, evaluation, permits, call>>
  BY DEF SettleDispatch
<1>2. PICK label \in {"recorded", "lost"} : pc' = [pc EXCEPT ![c] = label]
  BY DEF SettleDispatch
<1>3. call[c].decidedAt \in Int
  BY DEF TypeOK, Calls
<1>4. evidence' \in Seq(Entries) /\ writeFailures' \in Nat
  <2>1. \/ Recorded(c, "attempted_unconfirmed", call[c].decidedAt, Permit(c).stateAt)
        \/ AppendThrows(call[c].decidedAt, Permit(c).stateAt)
    BY DEF SettleDispatch
  <2> QED
    BY <1>3, <2>1, SinkTypes
<1>5. label \in Labels
  BY DEF Labels
<1>6. pc' \in [Execution -> Labels] /\ pc'[c] = label /\ Others(c)
  BY <1>1, <1>2, <1>5 DEF TypeOK, Others
<1>7. evidence' = evidence \/ (Writes(c, "attempted_unconfirmed") /\ pc'[c] = "recorded")
  <2>1. CASE /\ Recorded(c, "attempted_unconfirmed", call[c].decidedAt, Permit(c).stateAt)
             /\ pc' = [pc EXCEPT ![c] = "recorded"]
    BY <1>3, <2>1, RecordedWrites DEF TypeOK
  <2>2. CASE AppendThrows(call[c].decidedAt, Permit(c).stateAt)
    BY <2>2 DEF AppendThrows
  <2> QED
    BY <2>1, <2>2 DEF SettleDispatch
<1> QED
  BY <1>1, <1>2, <1>4, <1>6, <1>7 DEF Settles, Keeps, Moves, Holding, Sent, TypeOK

-----------------------------------------------------------------------------
(* Each part of IInv under each kind of step. *)

\* A step of an execute() call is one of these.
Step(c) ==
    \/ Forgets(c) /\ UNCHANGED permits /\ pc[c] \in Holding \ Sent
    \/ Forgets(c) /\ pc[c] = "idle"
       /\ \E r \in Request : permits' = [permits EXCEPT ![r] = Missing]
    \/ \E r \in Request : Enters(c, r)
    \/ Keeps(c) /\ pc'[c] = pc[c] /\ pc[c] \notin Sent /\ UNCHANGED sink
       /\ call'[c].dispatchedAt = call[c].dispatchedAt
       /\ call'[c].revoked = call[c].revoked
       /\ call'[c].configuration = call[c].configuration
       /\ call'[c].attestation = call[c].attestation
    \/ RecordIsRead(c) \/ ConfigurationIsRead(c) \/ RuntimeIsRead(c)
    \/ CheckPasses(c) \/ Crosses(c) \/ Settles(c)

\* Every action of an execute() call is such a step.
LEMMA ExecuteSteps ==
    ASSUME TypeOK, Stage, NEW c \in Execution, Execute(c) PROVE Step(c)
<1>1. ASSUME NEW r \in Request, StartExecute(c, r) PROVE Step(c)
  BY <1>1, StartStep DEF Step
<1>2. CASE AlterCall(c)
  BY <1>2, AlterStep DEF Step
<1>3. CASE RefreshReleaseRecord(c)
  BY <1>3, RecordStep DEF Step
<1>4. CASE RefreshExecutionConfiguration(c)
  BY <1>4, ConfigurationStep DEF Step
<1>5. CASE RefreshRuntimeAttestation(c)
  BY <1>5, AttestationStep DEF Step
<1>6. CASE Check(c)
  BY <1>6, CheckStep DEF Step
<1>7. CASE Dispatch(c)
  BY <1>7, DispatchStep DEF Step
<1>8. CASE SettleDispatch(c)
  BY <1>8, SettleStep DEF Step
<1> QED
  BY <1>1, <1>2, <1>3, <1>4, <1>5, <1>6, <1>7, <1>8 DEF Execute

\* In three words: the call ends, begins, or goes on with what it holds.
LEMMA StepKinds ==
    ASSUME TypeOK, NEW c \in Execution, Step(c)
    PROVE  /\ Moves(c)
           /\ \/ Forgets(c) /\ (UNCHANGED permits
                 \/ \E r \in Request : permits' = [permits EXCEPT ![r] = Missing])
              \/ \E r \in Request : Enters(c, r)
              \/ Keeps(c)
           /\ permits' \in [Request -> Permits \cup {Missing}]
           /\ \A r \in Request : permits'[r] # Missing => permits'[r] = permits[r]
<1>1. \/ Forgets(c) /\ (UNCHANGED permits
           \/ \E r \in Request : permits' = [permits EXCEPT ![r] = Missing])
      \/ \E r \in Request : Enters(c, r)
      \/ Keeps(c)
  BY DEF Step, RecordIsRead, ConfigurationIsRead, RuntimeIsRead, CheckPasses,
         Crosses, Settles
<1>2. Moves(c)
  BY <1>1 DEF Forgets, Enters, Keeps
<1>3. \/ UNCHANGED permits
      \/ \E r \in Request : permits' = [permits EXCEPT ![r] = Missing]
  BY <1>1 DEF Enters, Keeps
<1>4. /\ permits' \in [Request -> Permits \cup {Missing}]
      /\ \A r \in Request : permits'[r] # Missing => permits'[r] = permits[r]
  BY <1>3 DEF TypeOK
<1> QED
  BY <1>1, <1>2, <1>4

\* Types.
LEMMA StepTypes ==
    ASSUME TypeOK, Stage, Spent, NEW c \in Execution, Step(c) PROVE TypeOK' /\ Stage'
<1>1. Moves(c) /\ permits' \in [Request -> Permits \cup {Missing}]
  BY StepKinds
<1>2. TypeOK'
  BY <1>1 DEF TypeOK, Moves, clock, world, evaluation
<1>3. UNCHANGED <<phase, facts, started>>
  BY <1>1 DEF Moves, evaluation
<1>4. pc'[c] \in Holding => call'[c].request \in Request /\ call'[c].held \in Permits
  <2>1. CASE Forgets(c)
    BY <2>1 DEF Forgets, Holding, Sent
  <2>2. ASSUME NEW r \in Request, Enters(c, r)
        PROVE  call'[c].request \in Request /\ call'[c].held \in Permits
    BY <2>2 DEF Enters, TypeOK
  <2>3. CASE Keeps(c)
    BY <2>3 DEF Keeps, Stage
  <2> QED
    BY <2>1, <2>2, <2>3, StepKinds
<1>5. ASSUME NEW d \in Execution, pc'[d] \in Holding
      PROVE  call'[d].request \in Request /\ call'[d].held \in Permits
  BY <1>1, <1>4, <1>5 DEF Moves, Others, Stage
<1> QED
  BY <1>2, <1>3, <1>5 DEF Stage

\* The steps of evaluate() and of its caller, on the request r.
OtherRequests(r) ==
    \A s \in Request : s # r => phase'[s] = phase[s] /\ facts'[s] = facts[s]
                                /\ started'[s] = started[s]

Collects(r) ==
    /\ OtherRequests(r) /\ UNCHANGED <<started, permits, sink>>
    /\ phase[r] = "new" /\ phase'[r] = "collected"
    /\ facts'[r].attestation = Missing \/ facts'[r].attestation.token = runtime.token

Refuses(r) ==
    /\ OtherRequests(r) /\ UNCHANGED permits
    /\ phase[r] \in {"collected", "policy"} /\ phase'[r] \in {"refused", "threw"}
    /\ evidence' = evidence \/ (Writes(r, "not_sent") /\ phase'[r] = "refused")

Begins(r) ==
    /\ OtherRequests(r) /\ UNCHANGED <<facts, permits, sink>>
    /\ phase[r] = "collected" /\ phase'[r] = "policy"

Issues(r) ==
    /\ OtherRequests(r) /\ UNCHANGED <<facts, started, sink>>
    /\ phase[r] = "policy" /\ phase'[r] = "permitted"
    /\ \A s \in Request : s # r => permits'[s] = permits[s]
    /\ facts[r].attestation # Missing
    /\ permits'[r].token = facts[r].attestation.token
    /\ permits'[r].authorizedAt - permits'[r].issuedAt = started[r].now - started[r].mono

Evaluates(r) ==
    /\ UNCHANGED <<clock, world, pc, call>>
    /\ \/ Collects(r) \/ Refuses(r) \/ Begins(r) \/ Issues(r)
       \/ UNCHANGED <<phase, facts, started, permits, sink>>

\* evaluate() refuses.
LEMMA RefuseStep ==
    ASSUME TypeOK, Stage, NEW r \in Request, NEW at \in Int, RefuseEvaluation(r, at),
           phase[r] \in {"collected", "policy"}
    PROVE  TypeOK' /\ Stage' /\ Evaluates(r)
<1>1. TypeOK' /\ Stage'
  BY RefuseEvaluationTypes
<1>2. /\ OtherRequests(r) /\ phase'[r] \in {"refused", "threw"}
      /\ UNCHANGED <<clock, world, permits, pc, call>>
  BY DEF RefuseEvaluation, OtherRequests, TypeOK
<1>3. evidence' = evidence \/ (Writes(r, "not_sent") /\ phase'[r] = "refused")
  <2>1. CASE /\ Recorded(r, "not_sent", at, facts[r].stateAt)
             /\ phase' = [phase EXCEPT ![r] = "refused"]
    BY <2>1, RecordedWrites DEF TypeOK
  <2>2. CASE AppendThrows(at, facts[r].stateAt)
    BY <2>2 DEF AppendThrows
  <2> QED
    BY <2>1, <2>2 DEF RefuseEvaluation
<1>4. Refuses(r)
  BY <1>2, <1>3 DEF Refuses
<1> QED
  BY <1>1, <1>2, <1>4 DEF Evaluates

\* The caller collects its facts.
LEMMA CollectStep ==
    ASSUME TypeOK, Stage, NEW r \in Request, CollectFacts(r)
    PROVE  TypeOK' /\ Stage' /\ Evaluates(r)
<1>1. TypeOK' /\ Stage'
  BY CollectTypes
<1>2. PICK age \in {-1, 0, MaxStateAge, MaxStateAge + 1},
           configuration \in {ObservedConfiguration, Missing},
           attestation \in {ObservedRuntime, Missing} :
        facts' = [facts EXCEPT ![r] =
                    [stateAt |-> wall - age, revoked |-> revoked,
                     configuration |-> configuration,
                     attestation |-> attestation]]
  BY DEF CollectFacts
<1>3. /\ phase[r] = "new" /\ phase' = [phase EXCEPT ![r] = "collected"]
      /\ UNCHANGED <<clock, world, body, started, permits, pc, call, sink>>
  BY DEF CollectFacts
<1>4. facts'[r].attestation = attestation
  BY <1>2 DEF TypeOK
<1>5. attestation = Missing \/ attestation.token = runtime.token
  BY DEF ObservedRuntime
<1>6. OtherRequests(r) /\ phase'[r] = "collected"
  BY <1>2, <1>3 DEF OtherRequests, TypeOK
<1>7. Collects(r)
  BY <1>3, <1>4, <1>5, <1>6 DEF Collects
<1> QED
  BY <1>1, <1>3, <1>7 DEF Evaluates

\* The caller writes to the request it evaluates.
LEMMA AlterRequestStep ==
    ASSUME TypeOK, Stage, NEW r \in Request, AlterRequest(r)
    PROVE  TypeOK' /\ Stage' /\ Evaluates(r)
<1>1. /\ body' = [body EXCEPT ![r] = "altered"]
      /\ UNCHANGED <<clock, world, phase, facts, started, permits, pc, call, sink>>
  BY DEF AlterRequest
<1>2. TypeOK'
  BY <1>1 DEF TypeOK, Bodies, clock, world, sink
<1>3. Stage'
  BY <1>1 DEF Stage
<1> QED
  BY <1>1, <1>2, <1>3 DEF Evaluates

\* evaluate() begins, or refuses at once.
LEMMA BeginStep ==
    ASSUME TypeOK, Stage, NEW r \in Request, BeginEvaluate(r)
    PROVE  TypeOK' /\ Stage' /\ Evaluates(r)
<1>1. phase[r] = "collected" /\ wall \in Int
  BY DEF BeginEvaluate, TypeOK
<1>2. CASE RefuseEvaluation(r, wall)
  BY <1>1, <1>2, RefuseStep
<1>3. CASE ~RefuseEvaluation(r, wall)
  <2>1. /\ phase' = [phase EXCEPT ![r] = "policy"]
        /\ started' = [started EXCEPT ![r] = [now |-> wall, mono |-> mono]]
        /\ UNCHANGED <<clock, world, facts, body, permits, pc, call, sink>>
    BY <1>3 DEF BeginEvaluate
  <2>2. [now |-> wall, mono |-> mono] \in [now : Int, mono : Nat]
    BY DEF TypeOK
  <2>3. TypeOK'
    BY <2>1, <2>2 DEF TypeOK, Phases, clock, world, sink
  <2>4. Stage'
    BY <1>1, <2>1, <2>2 DEF Stage, TypeOK
  <2>5. Begins(r)
    BY <1>1, <2>1 DEF Begins, OtherRequests, TypeOK
  <2> QED
    BY <2>1, <2>3, <2>4, <2>5 DEF Evaluates
<1> QED
  BY <1>2, <1>3

\* The policy denies.
LEMMA PolicyDeniesStep ==
    ASSUME TypeOK, Stage, NEW r \in Request, PolicyDenies(r)
    PROVE  TypeOK' /\ Stage' /\ Evaluates(r)
<1>1. phase[r] = "policy" /\ RefuseEvaluation(r, started[r].now)
  BY DEF PolicyDenies
<1>2. started[r].now \in Int
  BY <1>1 DEF Stage
<1> QED
  BY <1>1, <1>2, RefuseStep

\* The policy allows: a permit, or a refusal by the second check.
LEMMA PolicyAllowsStep ==
    ASSUME TypeOK, Stage, NEW r \in Request, PolicyAllows(r)
    PROVE  TypeOK' /\ Stage' /\ Evaluates(r)
<1>1. phase[r] = "policy"
  BY DEF PolicyAllows
<1>2. started[r] \in [now : Int, mono : Nat] /\ facts[r] \in Facts
  BY <1>1 DEF Stage
<1>3. AuthorizationNow(r) \in Int /\ started[r].now \in Int
  BY <1>2 DEF AuthorizationNow, TypeOK
<1>4. CASE RefuseEvaluation(r, started[r].now) \/ RefuseEvaluation(r, AuthorizationNow(r))
  BY <1>1, <1>3, <1>4, RefuseStep
<1>5. CASE ~(RefuseEvaluation(r, started[r].now)
               \/ RefuseEvaluation(r, AuthorizationNow(r)))
  <2>1. Authorizes(facts[r], AuthorizationNow(r)) /\ IssuePermit(r, AuthorizationNow(r))
    BY <1>5 DEF PolicyAllows
  <2>2. TypeOK' /\ Stage'
    BY <1>1, <2>1, IssueTypes
  <2>3. facts[r].attestation # Missing
    BY <2>1 DEF Authorizes, RuntimeAttested
  <2>4. /\ phase' = [phase EXCEPT ![r] = "permitted"]
        /\ UNCHANGED <<clock, world, facts, body, started, pc, call, sink>>
    BY <2>1 DEF IssuePermit
  <2>5. /\ permits'[r].token = facts[r].attestation.token
        /\ permits'[r].authorizedAt = AuthorizationNow(r)
        /\ permits'[r].issuedAt = mono
        /\ \A s \in Request : s # r => permits'[s] = permits[s]
    BY <2>1 DEF IssuePermit, TypeOK
  <2>6. permits'[r].authorizedAt - permits'[r].issuedAt = started[r].now - started[r].mono
    BY <1>2, <2>5 DEF AuthorizationNow, TypeOK
  <2>7. OtherRequests(r) /\ phase'[r] = "permitted"
    BY <2>4 DEF OtherRequests, TypeOK
  <2>8. Issues(r)
    BY <1>1, <2>3, <2>4, <2>5, <2>6, <2>7 DEF Issues
  <2> QED
    BY <2>2, <2>4, <2>8 DEF Evaluates
<1> QED
  BY <1>4, <1>5

\* Every action on a request is such a step and keeps the types.
LEMMA EvaluateSteps ==
    ASSUME TypeOK, Stage, NEW r \in Request, Evaluate(r)
    PROVE  TypeOK' /\ Stage' /\ Evaluates(r)
  BY CollectStep, AlterRequestStep, BeginStep, PolicyDeniesStep, PolicyAllowsStep
     DEF Evaluate

\* A step outside the gate keeps the types.
LEMMA OutsideTypes ==
    ASSUME TypeOK, Stage, Outside PROVE TypeOK' /\ Stage'
<1>1. UNCHANGED <<phase, facts, body, started, permits, pc, call, evidence, writeFailures>>
  BY OutsideStep DEF evaluation, sink
<1>2. TypeOK'
  BY <1>1, OutsideStep DEF TypeOK
<1>3. Stage'
  BY <1>1 DEF Stage
<1> QED
  BY <1>2, <1>3

-----------------------------------------------------------------------------
(* Spent: a permit is in one place. *)

\* evaluate() puts a permit into the map only for a request that had none.
LEMMA EvaluateSpent ==
    ASSUME TypeOK, Spent, Stage, NEW r \in Request, Evaluates(r) PROVE Spent'
<1>1. pc' = pc /\ call' = call
  BY DEF Evaluates
<1>2. \A s \in Request : phase[s] = "permitted" =>
         phase'[s] = "permitted" /\ (permits[s] = Missing => permits'[s] = Missing)
  BY DEF Evaluates, Collects, Refuses, Begins, Issues, OtherRequests
<1>3. \A s \in Request : permits'[s] # Missing => phase'[s] = "permitted"
  BY DEF Evaluates, Collects, Refuses, Begins, Issues, OtherRequests, Spent
<1>4. \A c \in Execution : pc[c] \in Holding => call[c].request \in Request
  BY DEF Stage
<1> QED
  BY <1>1, <1>2, <1>3, <1>4 DEF Spent

\* execute() takes it out, and whoever holds it keeps it from the others.
LEMMA StepSpent ==
    ASSUME TypeOK, Stage, Spent, NEW c \in Execution, Step(c) PROVE Spent'
<1>1. /\ Moves(c) /\ UNCHANGED phase
      /\ \A r \in Request : permits'[r] # Missing => permits'[r] = permits[r]
  BY StepKinds DEF Moves, evaluation
<1>2. \A r \in Request : permits'[r] # Missing => phase'[r] = "permitted"
  BY <1>1 DEF Spent
<1>3. pc'[c] \in Holding =>
        \/ /\ pc[c] \in Holding /\ call'[c].request = call[c].request
        \/ /\ permits[call'[c].request] # Missing
           /\ permits'[call'[c].request] = Missing
           /\ phase[call'[c].request] = "permitted"
  <2>1. CASE Forgets(c)
    BY <2>1 DEF Forgets, Holding, Sent
  <2>2. ASSUME NEW r \in Request, Enters(c, r)
        PROVE  /\ permits[call'[c].request] # Missing
               /\ permits'[call'[c].request] = Missing
               /\ phase[call'[c].request] = "permitted"
    BY <2>2 DEF Enters, TypeOK
  <2>3. CASE Keeps(c)
    BY <2>3 DEF Keeps
  <2> QED
    BY <2>1, <2>2, <2>3, StepKinds
<1>4. \A d \in Execution : pc[d] \in Holding => permits'[call[d].request] = Missing
  BY <1>1 DEF Spent, Stage
<1>5. \A d \in Execution : pc'[d] \in Holding =>
         phase'[call'[d].request] = "permitted" /\ permits'[call'[d].request] = Missing
  BY <1>1, <1>3, <1>4 DEF Spent, Moves, Others
<1>6. ASSUME NEW d \in Execution, NEW e \in Execution,
             pc'[d] \in Holding, pc'[e] \in Holding, call'[d].request = call'[e].request
      PROVE  d = e
  BY <1>1, <1>3, <1>6 DEF Spent, Moves, Others
<1>7. call'[c].dispatchedAt # Missing <=> pc'[c] \in Sent
  <2>1. call[c].dispatchedAt # Missing <=> pc[c] \in Sent
    BY DEF Spent
  <2>2. mono # Missing
    BY ConstantsAssumption DEF TypeOK
  <2> QED
    BY <2>1, <2>2 DEF Step, Forgets, Enters, RecordIsRead, ConfigurationIsRead,
                      RuntimeIsRead, CheckPasses, Crosses, Settles, Sent
<1>8. \A d \in Execution : call'[d].dispatchedAt # Missing <=> pc'[d] \in Sent
  BY <1>1, <1>7 DEF Spent, Moves, Others
<1> QED
  BY <1>2, <1>5, <1>6, <1>8 DEF Spent

-----------------------------------------------------------------------------
(* Dated: what a permit says of time is what the clocks said. *)

\* A permit is issued with the time its evaluation projected.
LEMMA EvaluateDated ==
    ASSUME TypeOK, Stage, Spent, Dated, NEW r \in Request, Evaluates(r) PROVE Dated'
<1>1. pc' = pc /\ call' = call
  BY DEF Evaluates
<1>2. \A s \in Request : phase[s] = "permitted" => started'[s] = started[s]
  BY DEF Evaluates, Collects, Refuses, Begins, Issues, OtherRequests
<1>3. \A c \in Execution : pc[c] \in Holding =>
         call[c].request \in Request /\ started'[call[c].request] = started[call[c].request]
  BY <1>2 DEF Stage, Spent
<1>4. ASSUME NEW s \in Request, permits'[s] # Missing PROVE DatedBy(permits[s], s)'
  <2>1. CASE Issues(r) /\ s = r
    BY <2>1 DEF Issues, DatedBy
  <2>2. CASE ~(Issues(r) /\ s = r)
    <3>1. permits'[s] = permits[s]
      BY <2>2 DEF Evaluates, Collects, Refuses, Begins, Issues
    <3>2. started'[s] = started[s]
      BY <1>2, <1>4, <3>1 DEF Spent
    <3> QED
      BY <1>4, <3>1, <3>2 DEF Dated, DatedBy
  <2> QED
    BY <2>1, <2>2
<1>5. \A c \in Execution : pc'[c] \in Holding => DatedBy(call[c].held, call[c].request)'
  BY <1>1, <1>3 DEF Dated, DatedBy
<1>6. \A c \in Execution : pc'[c] \in Sent => InTime(c)'
  <2>1. Sent \subseteq Holding
    BY DEF Holding
  <2> QED
    BY <1>1, <1>3, <2>1 DEF Dated, InTime, Permit
<1> QED
  BY <1>1, <1>4, <1>5, <1>6 DEF Dated

\* The last check looked at a projected time that is not behind the monotonic clock.
LEMMA CrossesInTime ==
    ASSUME TypeOK, Stage, Spent, Dated, NEW c \in Execution, Crosses(c)
    PROVE  InTime(c)'
<1> DEFINE held == call[c].held
           r == call[c].request
<1>1. /\ call'[c].held = held /\ call'[c].request = r
      /\ call'[c].dispatchedAt = mono /\ started' = started
      /\ pc[c] = "boundary"
  BY DEF Crosses, Keeps, Moves, evaluation
<1>2. pc[c] \in Holding
  BY DEF Crosses, Keeps
<1>3. held \in Permits /\ r \in Request /\ DatedBy(held, r)
  BY <1>2 DEF Stage, Dated
<1>4. started[r] \in [now : Int, mono : Nat]
  <2>1. phase[r] = "permitted"
    BY <1>2 DEF Spent
  <2> QED
    BY <1>3, <2>1 DEF Stage
<1>5. Now(c) >= held.authorizedAt + (mono - held.issuedAt)
  <2>1. call[c].supplied \in Int \cup {Missing}
    BY DEF TypeOK, Calls
  <2>2. held.authorizedAt + (mono - held.issuedAt) \in Int
    BY <1>3 DEF Permits, TypeOK
  <2>3. (IF call[c].supplied = Missing THEN wall ELSE call[c].supplied) \in Int
    BY <2>1 DEF TypeOK
  <2> QED
    BY <2>2, <2>3 DEF Now, Permit, ProjectedNow, Larger
<1>6. mono < held.expiresAt /\ Now(c) - held.stateAt <= MaxStateAge
  BY DEF Crosses
<1>7. Now(c) \in Int
  BY <1>2, NowInt
<1>8. started[r].now + (mono - started[r].mono) - held.stateAt <= MaxStateAge
  <2>1. /\ held.authorizedAt \in Int /\ held.issuedAt \in Int /\ held.stateAt \in Int
        /\ started[r].now \in Int /\ started[r].mono \in Int /\ mono \in Int
        /\ MaxStateAge \in Int
    <3>1. mono \in Int
      BY DEF TypeOK
    <3>2. MaxStateAge \in Int
      BY ConstantsAssumption
    <3> QED
      BY <1>3, <1>4, <3>1, <3>2 DEF Permits
  <2>2. held.authorizedAt - held.issuedAt = started[r].now - started[r].mono
    BY <1>3 DEF DatedBy
  <2> HIDE DEF held, r
  <2> QED
    BY <1>5, <1>6, <1>7, <2>1, <2>2
<1> QED
  BY <1>1, <1>6, <1>8 DEF InTime, Permit

\* The call that takes the permit keeps its dates, and dispatches in time.
LEMMA StepDated ==
    ASSUME TypeOK, Stage, Spent, Dated, NEW c \in Execution, Step(c) PROVE Dated'
<1>1. /\ Moves(c) /\ UNCHANGED started
      /\ \A r \in Request : permits'[r] # Missing => permits'[r] = permits[r]
  BY StepKinds DEF Moves, evaluation
<1>2. \A r \in Request : permits'[r] # Missing => DatedBy(permits[r], r)'
  BY <1>1 DEF Dated, DatedBy
<1>3. pc'[c] \in Holding => DatedBy(call'[c].held, call'[c].request)
  <2>1. CASE Forgets(c)
    BY <2>1 DEF Forgets, Holding, Sent
  <2>2. ASSUME NEW r \in Request, Enters(c, r)
        PROVE  DatedBy(call'[c].held, call'[c].request)
    BY <2>2 DEF Enters, Dated
  <2>3. CASE Keeps(c)
    BY <2>3 DEF Keeps, Dated
  <2> QED
    BY <2>1, <2>2, <2>3, StepKinds
<1>4. ASSUME NEW d \in Execution, pc'[d] \in Holding
      PROVE  DatedBy(call[d].held, call[d].request)'
  <2>1. DatedBy(call'[d].held, call'[d].request)
    BY <1>1, <1>3, <1>4 DEF Dated, Moves, Others
  <2> QED
    BY <1>1, <2>1 DEF DatedBy
<1>5. ASSUME NEW d \in Execution, pc'[d] \in Sent PROVE InTime(d)'
  <2>1. CASE d # c
    <3>1. pc'[d] = pc[d] /\ call'[d] = call[d]
      BY <1>1, <2>1 DEF Moves, Others
    <3> QED
      BY <1>1, <1>5, <3>1 DEF Dated, InTime, Permit
  <2>2. CASE d = c /\ Crosses(c)
    BY <2>2, CrossesInTime
  <2>3. CASE d = c /\ Settles(c)
    <3>1. pc[c] \in Sent /\ call' = call
      BY <2>3 DEF Settles, Sent
    <3> QED
      BY <1>1, <2>3, <3>1 DEF Dated, InTime, Permit
  <2>4. CASE d = c /\ ~Crosses(c) /\ ~Settles(c)
    BY <1>5, <2>4 DEF Step, Forgets, Enters, RecordIsRead, ConfigurationIsRead,
                      RuntimeIsRead, CheckPasses, Sent
  <2> QED
    BY <2>1, <2>2, <2>3, <2>4
<1> QED
  BY <1>2, <1>4, <1>5 DEF Dated

-----------------------------------------------------------------------------
(* Tokens: a continuity token that was observed is not ahead of the runtime. *)

\* The runtime only gets newer tokens.
LEMMA OutsideTokens ==
    ASSUME TypeOK, Stage, Tokens, Outside PROVE Tokens'
<1>1. /\ UNCHANGED <<phase, facts, permits, pc, call>>
      /\ runtime.token <= runtime'.token
  BY OutsideStep DEF evaluation
<1>2. runtime.token \in Int /\ runtime'.token \in Int
  BY OutsideStep DEF TypeOK
<1>3. \A r \in Request : phase[r] \in {"collected", "policy"} =>
         facts[r].attestation = Missing \/ facts[r].attestation.token \in Int
  BY DEF Stage, Facts, Attestations
<1>4. \A r \in Request : permits[r] # Missing => permits[r].token \in Int
  BY DEF TypeOK, Permits
<1>5. \A c \in Execution : pc[c] \in Holding => call[c].held.token \in Int
  BY DEF Stage, Permits
<1>6. \A r \in Request : phase'[r] \in {"collected", "policy"} =>
         facts'[r].attestation = Missing \/ facts'[r].attestation.token <= runtime'.token
  BY <1>1, <1>2, <1>3 DEF Tokens
<1>7. \A r \in Request : permits'[r] # Missing => permits'[r].token <= runtime'.token
  BY <1>1, <1>2, <1>4 DEF Tokens
<1>8. \A c \in Execution : pc'[c] \in Holding => call'[c].held.token <= runtime'.token
  BY <1>1, <1>2, <1>5 DEF Tokens
<1> QED
  BY <1>6, <1>7, <1>8 DEF Tokens

\* evaluate() passes on the token it was given.
LEMMA EvaluateTokens ==
    ASSUME TypeOK, Stage, Tokens, NEW r \in Request, Evaluates(r) PROVE Tokens'
<1>1. UNCHANGED <<pc, call, runtime>> /\ runtime.token \in Int
  BY DEF Evaluates, world, TypeOK
<1>2. \A s \in Request : phase'[s] \in {"collected", "policy"} =>
         facts'[s].attestation = Missing \/ facts'[s].attestation.token <= runtime.token
  BY <1>1 DEF Evaluates, Collects, Refuses, Begins, Issues, OtherRequests, Tokens
<1>3. \A s \in Request : permits'[s] # Missing => permits'[s].token <= runtime.token
  BY DEF Evaluates, Collects, Refuses, Begins, Issues, Tokens
<1> QED
  BY <1>1, <1>2, <1>3 DEF Tokens

\* A call holds the token of its permit.
LEMMA StepTokens ==
    ASSUME TypeOK, Stage, Tokens, NEW c \in Execution, Step(c) PROVE Tokens'
<1>1. /\ Moves(c) /\ UNCHANGED <<phase, facts, runtime>>
      /\ \A r \in Request : permits'[r] # Missing => permits'[r] = permits[r]
  BY StepKinds DEF Moves, evaluation, world
<1>2. pc'[c] \in Holding => call'[c].held.token <= runtime.token
  <2>1. CASE Forgets(c)
    BY <2>1 DEF Forgets, Holding, Sent
  <2>2. ASSUME NEW r \in Request, Enters(c, r)
        PROVE  call'[c].held.token <= runtime.token
    BY <2>2 DEF Enters, Tokens
  <2>3. CASE Keeps(c)
    BY <2>3 DEF Keeps, Tokens
  <2> QED
    BY <2>1, <2>2, <2>3, StepKinds
<1>3. \A d \in Execution : pc'[d] \in Holding => call'[d].held.token <= runtime.token
  BY <1>1, <1>2 DEF Tokens, Moves, Others
<1> QED
  BY <1>1, <1>3 DEF Tokens

-----------------------------------------------------------------------------
(* Supported: a call finds out what withdrew the support before it was entered. *)

\* What is withdrawn stays withdrawn, so it is still there to be read.
LEMMA OutsideSupported ==
    ASSUME TypeOK, Stage, Supported, Outside PROVE Supported'
<1>1. /\ UNCHANGED <<pc, call>>
      /\ (revoked => revoked') /\ (drifted => drifted')
      /\ runtime.token <= runtime'.token
  BY OutsideStep
<1>2. runtime.token \in Int /\ runtime'.token \in Int
  BY OutsideStep DEF TypeOK
<1> SUFFICES ASSUME NEW c \in Execution
             PROVE  /\ pc[c] \in {"record", "configuration", "attestation", "check"}
                          /\ ~call[c].sound
                       => (ReadRevoked(c) \/ ReadDrifted(c) \/ ReadRestarted(c))'
                    /\ pc[c] \in {"boundary"} \cup Sent
                       => call[c].captured = "authorized" /\ call[c].sound
                    /\ pc[c] \in Sent => call[c].sent = "authorized"
  BY <1>1 DEF Supported
<1>3. pc[c] \in Holding => call[c].held.token \in Int
  BY DEF Stage, Permits
<1>4. ReadRevoked(c) => ReadRevoked(c)'
  BY <1>1 DEF ReadRevoked
<1>5. ReadDrifted(c) => ReadDrifted(c)'
  BY <1>1 DEF ReadDrifted
<1>6. ASSUME pc[c] \in {"record", "configuration", "attestation", "check"},
             ReadRestarted(c)
      PROVE  ReadRestarted(c)'
  <2>1. call[c].held.token \in Int
    BY <1>3, <1>6 DEF Holding
  <2> QED
    BY <1>1, <1>2, <1>6, <2>1 DEF ReadRestarted
<1> QED
  BY <1>4, <1>5, <1>6 DEF Supported

\* evaluate() concerns no call.
LEMMA EvaluateSupported ==
    ASSUME TypeOK, Supported, NEW r \in Request, Evaluates(r) PROVE Supported'
<1>1. UNCHANGED <<pc, call, revoked, drifted, runtime>>
  BY DEF Evaluates, world
<1> QED
  BY <1>1 DEF Supported, ReadRevoked, ReadDrifted, ReadRestarted

\* Each read finds what was withdrawn before, and the check refuses it.
LEMMA StepSupported ==
    ASSUME TypeOK, Stage, Tokens, Supported, NEW c \in Execution, Step(c)
    PROVE  Supported'
<1>1. Moves(c) /\ UNCHANGED <<revoked, drifted, runtime>>
  BY StepKinds DEF Moves, world
<1> DEFINE Finds(d) == /\ pc[d] \in {"record", "configuration", "attestation", "check"}
                             /\ ~call[d].sound
                          => ReadRevoked(d) \/ ReadDrifted(d) \/ ReadRestarted(d)
           Backed(d) == /\ pc[d] \in {"boundary"} \cup Sent
                              => call[d].captured = "authorized" /\ call[d].sound
                        /\ pc[d] \in Sent => call[d].sent = "authorized"
<1>2. Finds(c)' /\ Backed(c)'
  <2>1. CASE Forgets(c)
    BY <2>1 DEF Forgets, Sent
  <2>2. ASSUME NEW r \in Request, Enters(c, r) PROVE Finds(c)' /\ Backed(c)'
    <3>1. /\ pc'[c] = "record" /\ call'[c].held = permits[r] /\ permits[r] # Missing
          /\ call'[c].sound = WorldSupports(permits[r])
      BY <2>2 DEF Enters
    <3>2. permits[r].token <= runtime.token
      BY <3>1 DEF Tokens
    <3>3. permits[r].token \in Int /\ runtime.token \in Int
      BY <3>1 DEF TypeOK, Permits
    <3>4. WorldSupports(permits[r]) \/ revoked \/ drifted \/ permits[r].token < runtime.token
      BY <3>1, <3>2, <3>3 DEF WorldSupports
    <3> QED
      BY <1>1, <3>1, <3>4 DEF ReadRevoked, ReadDrifted, ReadRestarted, Sent
  <2>3. CASE Keeps(c) /\ pc'[c] = pc[c] /\ pc[c] \notin Sent /\ UNCHANGED sink
             /\ call'[c].dispatchedAt = call[c].dispatchedAt
             /\ call'[c].revoked = call[c].revoked
             /\ call'[c].configuration = call[c].configuration
             /\ call'[c].attestation = call[c].attestation
    BY <1>1, <2>3 DEF Keeps, Supported, ReadRevoked, ReadDrifted, ReadRestarted
  <2>4. CASE RecordIsRead(c)
    BY <1>1, <2>4 DEF RecordIsRead, Keeps, Supported, ReadRevoked, ReadDrifted,
                      ReadRestarted, Sent
  <2>5. CASE ConfigurationIsRead(c)
    BY <1>1, <2>5 DEF ConfigurationIsRead, Keeps, Supported, ReadRevoked, ReadDrifted,
                      ReadRestarted, Sent
  <2>6. CASE RuntimeIsRead(c)
    BY <1>1, <2>6 DEF RuntimeIsRead, Keeps, Supported, ReadRevoked, ReadDrifted,
                      ReadRestarted, Sent
  <2>7. CASE CheckPasses(c)
    <3>1. /\ pc[c] = "check" /\ pc'[c] = "boundary"
          /\ call[c].captured = "authorized" /\ ~call[c].revoked
          /\ call[c].configuration # Missing /\ ~call[c].configuration.drifted
          /\ call[c].attestation # Missing
          /\ call[c].attestation.token = call[c].held.token
          /\ call'[c].captured = call[c].captured /\ call'[c].sound = call[c].sound
      BY <2>7 DEF CheckPasses, Keeps
    <3>2. call[c].held.token \in Int
      BY <3>1 DEF Stage, Holding, Permits
    <3>3. ~ReadRevoked(c) /\ ~ReadDrifted(c) /\ ~ReadRestarted(c)
      BY <3>1, <3>2 DEF ReadRevoked, ReadDrifted, ReadRestarted
    <3> QED
      BY <3>1, <3>3 DEF Supported, Sent
  <2>8. CASE Crosses(c)
    BY <2>8 DEF Crosses, Keeps, Supported, Sent
  <2>9. CASE Settles(c)
    BY <2>9 DEF Settles, Keeps, Supported, Sent
  <2> QED
    BY <2>1, <2>2, <2>3, <2>4, <2>5, <2>6, <2>7, <2>8, <2>9 DEF Step
<1>3. ASSUME NEW d \in Execution PROVE Finds(d)' /\ Backed(d)'
  <2>1. CASE d # c
    <3>1. pc'[d] = pc[d] /\ call'[d] = call[d]
      BY <1>1, <2>1 DEF Moves, Others
    <3> QED
      BY <1>1, <3>1 DEF Supported, ReadRevoked, ReadDrifted, ReadRestarted
  <2>2. CASE d = c
    BY <1>2, <2>2
  <2> QED
    BY <2>1, <2>2
<1> QED
  BY <1>3 DEF Supported

-----------------------------------------------------------------------------
(* Told: the file is in order and says what happened. *)

\* A new entry of something that has none yet leaves the file in order.
LEMMA WrittenInOrder ==
    ASSUME TypeOK, Told, NEW x \in Request \cup Execution,
           NEW says \in {"not_sent", "attempted_unconfirmed"}, Writes(x, says),
           \A n \in 1 .. Len(evidence) : evidence[n].of # x
    PROVE  /\ \A m, n \in 1 .. Len(evidence') :
                 /\ m < n => evidence'[m].at <= evidence'[n].at
                 /\ m # n => evidence'[m].of # evidence'[n].of
           /\ \A n \in 1 .. Len(evidence') :
                 \/ n \in 1 .. Len(evidence) /\ evidence'[n] = evidence[n]
                 \/ evidence'[n].of = x /\ evidence'[n].says = says
<1>1. PICK at \in Int :
         /\ \A n \in 1 .. Len(evidence) : evidence[n].at <= at
         /\ evidence' = Append(evidence, [of |-> x, at |-> at, says |-> says])
  BY DEF Writes
<1> DEFINE entry == [of |-> x, at |-> at, says |-> says]
<1>2. evidence \in Seq(Entries) /\ entry \in Entries
  BY DEF TypeOK, Entries
<1>3. /\ entry.of = x /\ entry.at = at /\ entry.says = says
      /\ evidence' = Append(evidence, entry)
  BY <1>1
<1> HIDE DEF entry
<1>4. /\ Len(evidence) \in Nat /\ Len(evidence') = Len(evidence) + 1
      /\ evidence'[Len(evidence) + 1] = entry
      /\ \A n \in 1 .. Len(evidence) : evidence'[n] = evidence[n]
  BY <1>2, <1>3, AppendProperties
<1>5. ASSUME NEW m \in 1 .. Len(evidence'), NEW n \in 1 .. Len(evidence')
      PROVE  /\ m < n => evidence'[m].at <= evidence'[n].at
             /\ m # n => evidence'[m].of # evidence'[n].of
  <2>1. m \in 1 .. Len(evidence) \/ m = Len(evidence) + 1
    BY <1>4
  <2>2. n \in 1 .. Len(evidence) \/ n = Len(evidence) + 1
    BY <1>4
  <2>3. CASE m \in 1 .. Len(evidence) /\ n \in 1 .. Len(evidence)
    BY <1>4, <2>3 DEF Told
  <2>4. CASE m \in 1 .. Len(evidence) /\ n = Len(evidence) + 1
    BY <1>1, <1>3, <1>4, <2>4
  <2>5. CASE m = Len(evidence) + 1 /\ n \in 1 .. Len(evidence)
    BY <1>3, <1>4, <2>5
  <2> QED
    BY <2>1, <2>2, <2>3, <2>4, <2>5
<1>6. ASSUME NEW n \in 1 .. Len(evidence')
      PROVE  \/ n \in 1 .. Len(evidence) /\ evidence'[n] = evidence[n]
             \/ evidence'[n].of = x /\ evidence'[n].says = says
  BY <1>3, <1>4
<1> QED
  BY <1>5, <1>6

\* A refusal by evaluate() is the first entry of its request.
LEMMA EvaluateTold ==
    ASSUME TypeOK, Told, NEW r \in Request, Evaluates(r) PROVE Told'
<1>1. pc' = pc /\ Request \cap Execution = {}
  BY ConstantsAssumption DEF Evaluates
<1>2. \A s \in Request : phase[s] = "refused" => phase'[s] = "refused"
  BY DEF Evaluates, Collects, Refuses, Begins, Issues, OtherRequests
<1>3. CASE evidence' = evidence
  BY <1>1, <1>2, <1>3 DEF Told
<1>4. CASE evidence' # evidence
  <2>1. /\ phase[r] \in {"collected", "policy"} /\ phase'[r] = "refused"
        /\ Writes(r, "not_sent")
    BY <1>4 DEF Evaluates, Collects, Refuses, Begins, Issues, sink
  <2>2. \A n \in 1 .. Len(evidence) : evidence[n].of # r
    BY <1>1, <2>1 DEF Told
  <2>3. /\ \A m, n \in 1 .. Len(evidence') :
              /\ m < n => evidence'[m].at <= evidence'[n].at
              /\ m # n => evidence'[m].of # evidence'[n].of
        /\ \A n \in 1 .. Len(evidence') :
              \/ n \in 1 .. Len(evidence) /\ evidence'[n] = evidence[n]
              \/ evidence'[n].of = r /\ evidence'[n].says = "not_sent"
    BY <2>1, <2>2, WrittenInOrder
  <2>4. ASSUME NEW n \in 1 .. Len(evidence')
        PROVE  \/ /\ evidence'[n].of \in Request /\ phase'[evidence'[n].of] = "refused"
                  /\ evidence'[n].says = "not_sent"
               \/ /\ evidence'[n].of \in Execution /\ pc'[evidence'[n].of] = "refused"
                  /\ evidence'[n].says = "not_sent"
               \/ /\ evidence'[n].of \in Execution /\ pc'[evidence'[n].of] = "recorded"
                  /\ evidence'[n].says # "not_sent"
    BY <1>1, <1>2, <2>1, <2>3 DEF Told
  <2> QED
    BY <2>3, <2>4 DEF Told
<1> QED
  BY <1>3, <1>4

\* A refusal or an attempt is the first entry of its call.
LEMMA StepTold ==
    ASSUME TypeOK, Told, NEW c \in Execution, Step(c) PROVE Told'
<1>1. /\ Moves(c) /\ UNCHANGED phase /\ Request \cap Execution = {}
  BY StepKinds, ConstantsAssumption DEF Moves, evaluation
<1>2. \/ evidence' = evidence
      \/ Writes(c, "not_sent") /\ pc'[c] = "refused"
      \/ Writes(c, "attempted_unconfirmed") /\ pc'[c] = "recorded"
  BY DEF Step, Forgets, Enters, RecordIsRead, ConfigurationIsRead, RuntimeIsRead,
         CheckPasses, Crosses, Settles, sink
<1>3. pc[c] \notin {"refused", "recorded"} \/ (pc'[c] = pc[c] /\ evidence' = evidence)
  BY DEF Step, Enters, RecordIsRead, ConfigurationIsRead, RuntimeIsRead,
         CheckPasses, Crosses, Settles, sink, Holding, Sent
<1>4. \A d \in Execution : pc[d] \in {"refused", "recorded"} => pc'[d] = pc[d]
  <2>1. ASSUME NEW d \in Execution, d # c PROVE pc'[d] = pc[d]
    BY <1>1, <2>1 DEF Moves, Others
  <2> QED
    BY <1>3, <2>1
<1>5. CASE evidence' = evidence
  BY <1>1, <1>4, <1>5 DEF Told
<1>6. ASSUME NEW says \in {"not_sent", "attempted_unconfirmed"}, Writes(c, says),
             evidence' # evidence,
             pc'[c] = IF says = "not_sent" THEN "refused" ELSE "recorded"
      PROVE  Told'
  <2>1. \A n \in 1 .. Len(evidence) : evidence[n].of # c
    BY <1>1, <1>3, <1>6 DEF Told
  <2>2. /\ \A m, n \in 1 .. Len(evidence') :
              /\ m < n => evidence'[m].at <= evidence'[n].at
              /\ m # n => evidence'[m].of # evidence'[n].of
        /\ \A n \in 1 .. Len(evidence') :
              \/ n \in 1 .. Len(evidence) /\ evidence'[n] = evidence[n]
              \/ evidence'[n].of = c /\ evidence'[n].says = says
    BY <1>6, <2>1, WrittenInOrder
  <2>3. ASSUME NEW n \in 1 .. Len(evidence')
        PROVE  \/ /\ evidence'[n].of \in Request /\ phase'[evidence'[n].of] = "refused"
                  /\ evidence'[n].says = "not_sent"
               \/ /\ evidence'[n].of \in Execution /\ pc'[evidence'[n].of] = "refused"
                  /\ evidence'[n].says = "not_sent"
               \/ /\ evidence'[n].of \in Execution /\ pc'[evidence'[n].of] = "recorded"
                  /\ evidence'[n].says # "not_sent"
    <3>1. CASE n \in 1 .. Len(evidence) /\ evidence'[n] = evidence[n]
      BY <1>1, <1>4, <3>1 DEF Told
    <3>2. CASE evidence'[n].of = c /\ evidence'[n].says = says
      BY <1>6, <3>2
    <3> QED
      BY <2>2, <3>1, <3>2
  <2> QED
    BY <2>2, <2>3 DEF Told
<1> QED
  BY <1>2, <1>5, <1>6

-----------------------------------------------------------------------------
(* The inductive invariant, and what follows from it. *)

\* The invariant holds at the start.
LEMMA InitIInv == Init => IInv
<1> SUFFICES ASSUME Init PROVE IInv
  OBVIOUS
<1>1. TypeOK /\ Stage
  BY InitTypes
<1>2. \A c \in Execution : pc[c] \notin Holding /\ call[c].dispatchedAt = Missing
  BY EndedCall DEF Init, Holding, Sent, NotCalled
<1>3. Spent
  BY <1>2 DEF Init, Spent, Holding
<1>4. Dated
  BY <1>2 DEF Init, Dated, Holding
<1>5. Tokens
  BY <1>2 DEF Init, Tokens
<1>6. Supported
  BY DEF Init, Supported, Sent
<1>7. Told
  BY DEF Init, Told
<1> QED
  BY <1>1, <1>3, <1>4, <1>5, <1>6, <1>7 DEF IInv

\* Every step preserves it.
LEMMA NextIInv == IInv /\ [Next]_vars => IInv'
<1> SUFFICES ASSUME IInv, [Next]_vars PROVE IInv'
  OBVIOUS
<1> USE DEF IInv
<1>1. CASE Outside
  <2>1. UNCHANGED <<phase, facts, started, permits, pc, call, evidence>>
    BY <1>1, OutsideStep DEF evaluation, sink
  <2>2. TypeOK' /\ Stage'
    BY <1>1, OutsideTypes
  <2>3. Spent' /\ Dated' /\ Told'
    BY <2>1 DEF Spent, Dated, DatedBy, InTime, Permit, Told
  <2> QED
    BY <1>1, <2>2, <2>3, OutsideTokens, OutsideSupported
<1>2. ASSUME NEW r \in Request, Evaluate(r) PROVE IInv'
  <2>1. TypeOK' /\ Stage' /\ Evaluates(r)
    BY <1>2, EvaluateSteps
  <2> QED
    BY <2>1, EvaluateSpent, EvaluateDated, EvaluateTokens, EvaluateSupported, EvaluateTold
<1>3. ASSUME NEW c \in Execution, Execute(c) PROVE IInv'
  <2>1. Step(c)
    BY <1>3, ExecuteSteps
  <2> QED
    BY <2>1, StepTypes, StepSpent, StepDated, StepTokens, StepSupported, StepTold
<1>4. CASE UNCHANGED vars
  BY <1>4 DEF vars, clock, world, evaluation, sink, TypeOK, Stage, Spent, Dated, DatedBy,
              InTime, Permit, Tokens, Supported, ReadRevoked, ReadDrifted,
              ReadRestarted, Told
<1> QED
  BY <1>1, <1>2, <1>3, <1>4 DEF Next, Outside

\* It implies the properties.
LEMMA IInvSuffices ==
    IInv => /\ PermitSpentOnce /\ DispatchWithinAuthority /\ DispatchInTime
            /\ EvidenceTruthful
<1> SUFFICES ASSUME IInv
             PROVE  /\ PermitSpentOnce /\ DispatchWithinAuthority /\ DispatchInTime
                    /\ EvidenceTruthful
  OBVIOUS
<1>1. \A c \in Execution : c \in Dispatched <=> pc[c] \in Sent
  BY DEF IInv, Spent, Dispatched
<1>2. Dispatched \subseteq Execution /\ Sent \subseteq Holding
  BY DEF Dispatched, Holding
<1>3. PermitSpentOnce
  BY <1>1, <1>2 DEF IInv, Spent, PermitSpentOnce
<1>4. DispatchWithinAuthority
  BY <1>1, <1>2 DEF IInv, Supported, DispatchWithinAuthority
<1>5. DispatchInTime
  BY <1>1, <1>2 DEF IInv, Dated, InTime, DispatchInTime
<1>6. ASSUME NEW n \in 1 .. Len(evidence)
      PROVE  evidence[n].says # "not_sent" <=> evidence[n].of \in Dispatched
  <2>1. Request \cap Execution = {}
    BY ConstantsAssumption
  <2>2. \A c \in Execution : c \in Dispatched => pc[c] # "refused"
    BY <1>1 DEF Sent
  <2>3. \A c \in Execution : pc[c] = "recorded" => c \in Dispatched
    BY <1>1 DEF Sent
  <2> QED
    BY <1>2, <1>6, <2>1, <2>2, <2>3 DEF IInv, Told
<1>7. EvidenceTruthful
  BY <1>6 DEF IInv, Told, EvidenceTruthful
<1> QED
  BY <1>3, <1>4, <1>5, <1>7

\* Every variable of the gate, of its callers and of its file keeps its type.
THEOREM TypeCorrect == Spec => []TypeOK
<1>1. IInv => TypeOK
  BY DEF IInv
<1> QED
  BY <1>1, InitIInv, NextIInv, PTL DEF Spec

\* execute() takes the permit out of the map before its first await, and no other
\* call can find it there: one permit, one dispatch.
THEOREM PermitsSpentOnce == Spec => []PermitSpentOnce
<1>1. IInv => PermitSpentOnce
  BY IInvSuffices
<1> QED
  BY <1>1, InitIInv, NextIInv, PTL DEF Spec

\* Whatever the caller writes to its objects between two awaits, and though that
\* does not refuse the call, the action handed to the adapter is the authorized
\* one; and the world still supported it when execute() was entered.
THEOREM DispatchedWithinAuthority == Spec => []DispatchWithinAuthority
<1>1. IInv => DispatchWithinAuthority
  BY IInvSuffices
<1> QED
  BY <1>1, InitIInv, NextIInv, PTL DEF Spec

\* However the wall clock is set, a dispatch is within the life of its permit and
\* the age of its state, by the monotonic clock.
THEOREM DispatchedInTime == Spec => []DispatchInTime
<1>1. IInv => DispatchInTime
  BY IInvSuffices
<1> QED
  BY <1>1, InitIInv, NextIInv, PTL DEF Spec

\* The evidence file is in order, has one entry for each request or call, and says
\* that a signal was sent exactly of the calls that sent one.
THEOREM EvidenceIsTruthful == Spec => []EvidenceTruthful
<1>1. IInv => EvidenceTruthful
  BY IInvSuffices
<1> QED
  BY <1>1, InitIInv, NextIInv, PTL DEF Spec

-----------------------------------------------------------------------------
(* One proposal at a time: the evidence of what was dispatched.  The         *)
(* invariant says that nobody else works while an execute() call runs, and,  *)
(* as long as the wall clock was not set, that both clocks agree.            *)

OneAtATime == \A r, s \in InFlight : r = s

Steady ==
    adjustments = 0 =>
       /\ wall = StartWall + mono
       /\ \A r \in Request : phase[r] \in {"policy", "permitted"} =>
             started[r].now = StartWall + started[r].mono
       /\ \A r \in Request : permits[r] # Missing => permits[r].issuedAt <= mono
       /\ \A c \in Running : call[c].supplied = Missing \/ call[c].supplied <= wall
       /\ \A n \in 1 .. Len(evidence) : evidence[n].at <= wall

Kept ==
    adjustments = 0 /\ writeFailures = 0 =>
       \A c \in Execution :
          /\ c \in Running => Len(evidence) < MaxEntries
          /\ pc[c] = "dispatched" => Accepts(call[c].decidedAt, Permit(c).stateAt)
          /\ pc[c] # "lost"

GatewayInv == IInv /\ OneAtATime /\ Steady /\ Kept

\* Whose call runs works on that request, on the permit it was given.
LEMMA RunningHolds ==
    ASSUME IInv, NEW c \in Running
    PROVE  /\ c \in Execution /\ pc[c] \in Holding /\ pc[c] \notin Ended \cup {"idle"}
           /\ call[c].request \in Request /\ call[c].request \in InFlight
           /\ phase[call[c].request] = "permitted"
<1>1. c \in Execution /\ pc[c] \notin Ended \cup {"idle"} /\ pc[c] \in Labels
  BY DEF Running, IInv, TypeOK
<1>2. pc[c] \in Holding
  BY <1>1 DEF Labels, Ended, Holding, Sent
<1>3. call[c].request \in Request /\ phase[call[c].request] = "permitted"
  BY <1>1, <1>2 DEF IInv, Stage, Spent
<1> QED
  BY <1>1, <1>2, <1>3 DEF InFlight, Finished

\* Who works on one request at a time may only go on with that one.
LEMMA WorksOnOne ==
    ASSUME MaxInFlight = 1, OneAtATime, NEW r \in Request, MayWorkOn(r)
    PROVE  \A s \in InFlight : s = r
<1> SUFFICES ASSUME NEW s \in InFlight, s # r
             PROVE  FALSE
  OBVIOUS
<1>1. InFlight \cup {r} = {s} \cup {r}
  BY DEF OneAtATime
<1>2. IsFiniteSet({s}) /\ Cardinality({s}) = 1
  BY FS_Singleton
<1>3. Cardinality({s} \cup {r}) = 2
  BY <1>2, FS_AddElement
<1> QED
  BY <1>1, <1>3 DEF MayWorkOn

\* While a call runs, no evaluation and no other call takes a step.
LEMMA RunsAlone ==
    ASSUME MaxInFlight = 1, IInv, OneAtATime, NEW c \in Running
    PROVE  /\ \A d \in Running : d = c
           /\ \A r \in Request : ~Evaluate(r)
           /\ \A d \in Execution, r \in Request : ~StartExecute(d, r)
<1>1. \A d \in Running : d = c
  <2>1. ASSUME NEW d \in Running PROVE d = c
    <3>1. call[d].request = call[c].request
      BY RunningHolds DEF OneAtATime
    <3> QED
      BY <3>1, RunningHolds DEF IInv, Spent
  <2> QED
    BY <2>1
<1>2. ASSUME NEW r \in Request, Evaluate(r) PROVE FALSE
  <2>1. r = call[c].request
    <3>1. CASE phase[r] \in {"collected", "policy"}
      <4>1. r \in InFlight
        BY <3>1 DEF InFlight, Finished
      <4> QED
        BY <4>1, RunningHolds DEF OneAtATime
    <3>2. CASE MayWorkOn(r)
      BY <3>2, RunningHolds, WorksOnOne
    <3> QED
      BY <1>2, <3>1, <3>2 DEF Evaluate, CollectFacts, AlterRequest, BeginEvaluate,
                              PolicyDenies, PolicyAllows
  <2>2. phase[r] = "permitted"
    BY <2>1, RunningHolds
  <2> QED
    BY <1>2, <2>2 DEF Evaluate, CollectFacts, AlterRequest, BeginEvaluate,
                      PolicyDenies, PolicyAllows
<1>3. ASSUME NEW d \in Execution, NEW r \in Request, StartExecute(d, r) PROVE FALSE
  <2>1. Running = {c}
    BY <1>1
  <2>2. Cardinality(Running) = 1
    BY <2>1, FS_Singleton
  <2> QED
    BY <1>3, <2>2 DEF StartExecute
<1> QED
  BY <1>1, <1>2, <1>3

\* The steps of a call that has begun.
Continue(c) ==
    \/ AlterCall(c) \/ RefreshReleaseRecord(c) \/ RefreshExecutionConfiguration(c)
    \/ RefreshRuntimeAttestation(c) \/ Check(c) \/ Dispatch(c) \/ SettleDispatch(c)

\* They are steps of a call that runs, for the request it is for.
LEMMA ContinueStep ==
    ASSUME IInv, NEW c \in Execution, Continue(c)
    PROVE  /\ c \in Running /\ Step(c)
           /\ call'[c].request = call[c].request
<1>1. Step(c)
  <2>1. Execute(c)
    BY DEF Continue, Execute
  <2> QED
    BY <2>1, ExecuteSteps DEF IInv
<1>2. c \in Running
  BY DEF Continue, AlterCall, RefreshReleaseRecord, RefreshExecutionConfiguration,
         RefreshRuntimeAttestation, Check, Dispatch, SettleDispatch, Running, Ended
<1>3. call'[c].request = call[c].request
  <2>1. CASE \E at : RefuseExecution(c, call[c].request, at)
    <3>1. call[c].request \in Request /\ NotCalled \in Calls
      BY <1>2, RunningHolds, EndedCall
    <3>2. [NotCalled EXCEPT !.request = call[c].request].request = call[c].request
      BY <3>1 DEF Calls
    <3>3. call' = [call EXCEPT ![c] = [NotCalled EXCEPT !.request = call[c].request]]
      BY <2>1 DEF RefuseExecution, Forget
    <3> HIDE DEF NotCalled
    <3> QED
      BY <3>2, <3>3 DEF IInv, TypeOK
  <2>2. CASE Keeps(c)
    BY <2>2 DEF Keeps
  <2>3. CASE ~Keeps(c) /\ Forgets(c)
    <3>1. pc'[c] \in {"refused", "threw"}
      BY <2>3 DEF Forgets
    <3> QED
      BY <2>1, <3>1
      DEF Continue, AlterCall, RefreshReleaseRecord, RefreshExecutionConfiguration,
          RefreshRuntimeAttestation, Check, Dispatch, SettleDispatch, IInv, TypeOK
  <2>4. CASE \E r \in Request : Enters(c, r)
    BY <1>2, <2>4 DEF Enters, Running
  <2> QED
    BY <1>1, <2>2, <2>3, <2>4, StepKinds DEF IInv
<1> QED
  BY <1>1, <1>2, <1>3

\* A request that is done with stays so while another one is worked on.
LEMMA EvaluateAlone ==
    ASSUME MaxInFlight = 1, IInv, OneAtATime, NEW r \in Request, Evaluate(r)
    PROVE  OneAtATime'
<1>1. Evaluates(r)
  BY EvaluateSteps DEF IInv
<1>2. /\ \A s \in Request : s # r => phase'[s] = phase[s]
      /\ pc' = pc /\ call' = call
  BY <1>1 DEF Evaluates, Collects, Refuses, Begins, Issues, OtherRequests
<1>3. \A s \in InFlight : s = r
  <2>1. CASE phase[r] \in {"collected", "policy"}
    <3>1. r \in InFlight
      BY <2>1 DEF InFlight, Finished
    <3> QED
      BY <3>1 DEF OneAtATime
  <2>2. CASE MayWorkOn(r)
    BY <2>2, WorksOnOne
  <2> QED
    BY <2>1, <2>2 DEF Evaluate, CollectFacts, AlterRequest, BeginEvaluate,
                      PolicyDenies, PolicyAllows
<1>4. ASSUME NEW s \in Request, s # r, s \in InFlight' PROVE s \in InFlight
  <2>1. phase[s] # "new" /\ phase'[s] = phase[s]
    BY <1>2, <1>4 DEF InFlight
  <2>2. ~Finished(s)
    BY <1>2, <1>4, <2>1 DEF InFlight, Finished
  <2> QED
    BY <2>1, <2>2 DEF InFlight
<1>5. \A s \in InFlight' : s = r
  <2>1. \A s \in InFlight' : s \in Request
    BY DEF InFlight
  <2> QED
    BY <1>3, <1>4, <2>1
<1> QED
  BY <1>5 DEF OneAtATime

\* A call that begins is for the request it is given.
LEMMA StartRequest ==
    ASSUME IInv, NEW c \in Execution, NEW r \in Request, StartExecute(c, r)
    PROVE  call'[c].request = r
<1>1. Forgets(c) \/ Enters(c, r)
  BY StartStep DEF IInv
<1>2. CASE Forget(c, r)
  <2>1. r \in Request /\ NotCalled \in Calls
    BY EndedCall
  <2>2. [NotCalled EXCEPT !.request = r].request = r
    BY <2>1 DEF Calls
  <2>3. call' = [call EXCEPT ![c] = [NotCalled EXCEPT !.request = r]]
    BY <1>2 DEF Forget
  <2> HIDE DEF NotCalled
  <2> QED
    BY <2>2, <2>3 DEF IInv, TypeOK
<1>3. CASE ~Forget(c, r)
  <2>1. pc'[c] = "record"
    BY <1>3 DEF StartExecute, RefuseExecution, IInv, TypeOK
  <2> QED
    BY <1>1, <2>1 DEF Forgets, Enters
<1> QED
  BY <1>2, <1>3

\* A call that begins, begins for the only request that is worked on.
LEMMA StartAlone ==
    ASSUME MaxInFlight = 1, IInv, OneAtATime, NEW c \in Execution, NEW r \in Request,
           StartExecute(c, r)
    PROVE  OneAtATime'
<1>1. /\ \A s \in InFlight : s = r
      /\ pc[c] = "idle" /\ UNCHANGED phase
  BY WorksOnOne DEF StartExecute, evaluation
<1>2. call'[c].request = r /\ Others(c)
  <2>1. Step(c)
    BY ExecuteSteps DEF IInv, Execute
  <2> QED
    BY <2>1, StartRequest, StepKinds DEF IInv, Moves
<1>3. ASSUME NEW s \in Request, s # r, Finished(s) PROVE Finished(s)'
  <2>1. CASE phase[s] \in {"refused", "threw"}
    BY <1>1, <2>1 DEF Finished
  <2>2. CASE phase[s] \notin {"refused", "threw"}
    <3>1. phase[s] = "permitted"
      BY <1>3, <2>2 DEF Finished
    <3>2. PICK d \in Execution : call[d].request = s
      BY <1>3, <2>2 DEF Finished
    <3>3. \A e \in Execution : call[e].request = s => pc[e] \in Ended
      BY <1>3, <2>2 DEF Finished
    <3>4. c # d
      BY <1>1, <3>2, <3>3 DEF Ended
    <3>5. call'[d].request = s
      BY <1>2, <3>2, <3>4 DEF Others
    <3>6. \A e \in Execution : call'[e].request = s => pc'[e] \in Ended
      BY <1>2, <1>3, <3>3 DEF Others
    <3> QED
      BY <1>1, <3>1, <3>5, <3>6 DEF Finished
  <2> QED
    BY <2>1, <2>2
<1>4. ASSUME NEW s \in InFlight' PROVE s = r
  <2>1. s \in Request /\ phase[s] # "new" /\ ~Finished(s)'
    BY <1>1, <1>4 DEF InFlight
  <2>2. s # r => s \in InFlight
    BY <1>3, <2>1 DEF InFlight
  <2> QED
    BY <1>1, <2>2
<1> QED
  BY <1>4 DEF OneAtATime

\* A call that goes on does not end the work on any request but its own.
LEMMA ContinueAlone ==
    ASSUME IInv, OneAtATime, NEW c \in Execution, Continue(c) PROVE OneAtATime'
<1>1. /\ c \in Running /\ Step(c) /\ call'[c].request = call[c].request
  BY ContinueStep
<1>2. Moves(c)
  BY <1>1, StepKinds DEF IInv
<1>3. /\ UNCHANGED phase
      /\ \A d \in Execution : call'[d].request = call[d].request
      /\ \A d \in Execution : d # c => pc'[d] = pc[d]
      /\ pc[c] \notin Ended
  BY <1>1, <1>2 DEF Moves, Others, evaluation, Running
<1>4. ASSUME NEW s \in Request, Finished(s) PROVE Finished(s)'
  BY <1>3, <1>4 DEF Finished
<1>5. ASSUME NEW s \in InFlight' PROVE s \in InFlight
  <2>1. s \in Request /\ phase[s] # "new" /\ ~Finished(s)'
    BY <1>3, <1>5 DEF InFlight
  <2> QED
    BY <1>4, <2>1 DEF InFlight
<1> QED
  BY <1>5 DEF OneAtATime

\* What a step does to the file: at most one entry more, not from the future.
Grows ==
    /\ writeFailures' = 0 => writeFailures = 0
    /\ \/ evidence' = evidence
       \/ \E entry \in Entries :
             entry.at <= wall /\ evidence' = Append(evidence, entry)

\* append() does that, whether or not it throws.
LEMMA AppendGrows ==
    ASSUME TypeOK, NEW of \in Request \cup Execution, NEW at \in Int, NEW stateAt,
           NEW says \in {"not_sent", "attempted_unconfirmed"},
           Recorded(of, says, at, stateAt) \/ AppendThrows(at, stateAt)
    PROVE  Grows
<1>1. CASE Recorded(of, says, at, stateAt)
  <2> DEFINE entry == [of |-> of, at |-> at, says |-> says]
  <2>1. entry \in Entries /\ entry.at = at
    BY DEF Entries
  <2>2. at <= wall /\ evidence' = Append(evidence, entry) /\ UNCHANGED writeFailures
    BY <1>1 DEF Recorded, Accepts
  <2> HIDE DEF entry
  <2> QED
    BY <2>1, <2>2 DEF Grows
<1>2. CASE AppendThrows(at, stateAt)
  BY <1>2 DEF AppendThrows, Grows, TypeOK
<1> QED
  BY <1>1, <1>2

\* The entries stay in the past.
LEMMA GrowsInTime ==
    ASSUME TypeOK, Grows, \A n \in 1 .. Len(evidence) : evidence[n].at <= wall
    PROVE  \A n \in 1 .. Len(evidence') : evidence'[n].at <= wall
<1>1. CASE evidence' = evidence
  BY <1>1
<1>2. ASSUME NEW entry \in Entries, entry.at <= wall, evidence' = Append(evidence, entry)
      PROVE  \A n \in 1 .. Len(evidence') : evidence'[n].at <= wall
  <2>1. evidence \in Seq(Entries)
    BY DEF TypeOK
  <2>2. /\ Len(evidence) \in Nat /\ Len(evidence') = Len(evidence) + 1
        /\ evidence'[Len(evidence) + 1] = entry
        /\ \A n \in 1 .. Len(evidence) : evidence'[n] = evidence[n]
    BY <1>2, <2>1, AppendProperties
  <2> QED
    BY <1>2, <2>2
<1> QED
  BY <1>1, <1>2 DEF Grows

\* evaluate() grows it by its refusals.
LEMMA EvaluateGrows ==
    ASSUME IInv, NEW r \in Request, Evaluate(r) PROVE Grows
<1>1. ASSUME NEW at \in Int, RefuseEvaluation(r, at) PROVE Grows
  BY <1>1, AppendGrows DEF RefuseEvaluation, IInv
<1>2. wall \in Int
  BY DEF IInv, TypeOK
<1>3. phase[r] = "policy" => started[r].now \in Int /\ AuthorizationNow(r) \in Int
  BY DEF IInv, Stage, AuthorizationNow, TypeOK
<1>4. CASE \E at \in Int : RefuseEvaluation(r, at)
  BY <1>1, <1>4
<1>5. CASE ~(\E at \in Int : RefuseEvaluation(r, at))
  <2>1. UNCHANGED sink
    BY <1>2, <1>3, <1>5 DEF Evaluate, CollectFacts, AlterRequest, BeginEvaluate,
                            PolicyDenies, PolicyAllows, IssuePermit
  <2> QED
    BY <2>1 DEF Grows, sink
<1> QED
  BY <1>4, <1>5

\* execute() grows it by its refusals and its attempts.
LEMMA ExecuteGrows ==
    ASSUME IInv, NEW c \in Execution, Execute(c) PROVE Grows
<1>1. ASSUME NEW r, NEW at \in Int, RefuseExecution(c, r, at) PROVE Grows
  BY <1>1, AppendGrows DEF RefuseExecution, IInv
<1>2. CASE UNCHANGED sink
  BY <1>2 DEF Grows, sink
<1>3. ASSUME NEW r \in Request, StartExecute(c, r), ~UNCHANGED sink PROVE Grows
  <2>1. PICK supplied \in SuppliedTimes(permits[r]) :
           RefuseExecution(c, r, IF permits[r] = Missing THEN wall
                                 ELSE ProjectedNow(permits[r], supplied))
    BY <1>3 DEF StartExecute
  <2>2. permits[r] \in Permits \cup {Missing} /\ wall \in Int
    BY DEF IInv, TypeOK
  <2>3. supplied \in Int \cup {Missing}
    BY <2>2 DEF SuppliedTimes, Permits
  <2>4. (IF permits[r] = Missing THEN wall ELSE ProjectedNow(permits[r], supplied)) \in Int
    BY <2>2, <2>3, ProjectedInt DEF IInv
  <2> QED
    BY <1>1, <2>1, <2>4
<1>4. ASSUME pc[c] \in Holding, NEW at \in Int, RefuseExecution(c, call[c].request, at)
      PROVE  Grows
  BY <1>1, <1>4
<1>5. pc[c] \in Holding => Now(c) \in Int /\ call[c].decidedAt \in Int
  BY NowInt DEF IInv, TypeOK, Calls
<1>6. CASE RefreshReleaseRecord(c)
  BY <1>2, <1>4, <1>5, <1>6 DEF RefreshReleaseRecord, Holding
<1>7. CASE Check(c)
  BY <1>2, <1>4, <1>5, <1>7 DEF Check, Holding
<1>8. CASE Dispatch(c)
  <2>1. (IF mono >= Permit(c).expiresAt THEN call[c].decidedAt ELSE Now(c)) \in Int
    BY <1>5, <1>8 DEF Dispatch, Holding
  <2> QED
    BY <1>2, <1>4, <1>8, <2>1 DEF Dispatch, Holding
<1>9. CASE SettleDispatch(c)
  <2>1. call[c].decidedAt \in Int
    BY <1>5, <1>9 DEF SettleDispatch, Holding, Sent
  <2> QED
    BY <1>9, <2>1, AppendGrows DEF SettleDispatch, IInv
<1>10. CASE AlterCall(c) \/ RefreshExecutionConfiguration(c) \/ RefreshRuntimeAttestation(c)
  BY <1>2, <1>10 DEF AlterCall, RefreshExecutionConfiguration, RefreshRuntimeAttestation
<1> QED
  BY <1>2, <1>3, <1>6, <1>7, <1>8, <1>9, <1>10 DEF Execute

\* Two clocks that are as far apart at one moment as at another.
LEMMA ClocksApart ==
    ASSUME NEW authorized \in Int, NEW issued \in Int, NEW began \in Int,
           NEW beganMono \in Int, NEW start \in Int, NEW w \in Int, NEW m \in Int,
           authorized - issued = began - beganMono,
           began = start + beganMono, w = start + m
    PROVE  authorized + (m - issued) = w
OBVIOUS

\* As long as the wall clock was not set, a call works at the time it is.
LEMMA NowIsWall ==
    ASSUME IInv, Steady, adjustments = 0, NEW c \in Running
    PROVE  Now(c) = wall
<1>1. /\ c \in Execution /\ pc[c] \in Holding /\ call[c].request \in Request
      /\ phase[call[c].request] = "permitted"
  BY RunningHolds
<1>2. call[c].held \in Permits /\ started[call[c].request] \in [now : Int, mono : Nat]
  BY <1>1 DEF IInv, Stage
<1>3. /\ call[c].held.authorizedAt - call[c].held.issuedAt
            = started[call[c].request].now - started[call[c].request].mono
      /\ started[call[c].request].now = StartWall + started[call[c].request].mono
      /\ wall = StartWall + mono
      /\ call[c].supplied = Missing \/ call[c].supplied <= wall
  BY <1>1 DEF IInv, Dated, DatedBy, Steady
<1>4. /\ call[c].held.authorizedAt \in Int /\ call[c].held.issuedAt \in Int
      /\ started[call[c].request].now \in Int /\ started[call[c].request].mono \in Int
      /\ call[c].supplied \in Int \cup {Missing}
      /\ wall \in Int /\ mono \in Int /\ StartWall \in Int
  BY <1>1, <1>2, ConstantsAssumption DEF IInv, TypeOK, Permits, Calls
<1>5. call[c].held.authorizedAt + (mono - call[c].held.issuedAt) = wall
  BY <1>3, <1>4, ClocksApart
<1>6. Now(c) = Larger(wall, IF call[c].supplied = Missing THEN wall ELSE call[c].supplied)
  BY <1>5 DEF Now, Permit, ProjectedNow
<1> QED
  BY <1>3, <1>4, <1>6 DEF Larger

\* The clocks tick together, until the wall clock is set.
LEMMA OutsideSteady ==
    ASSUME IInv, Steady, Outside PROVE Steady'
<1>1. UNCHANGED <<phase, started, permits, pc, call, evidence>>
  BY OutsideStep DEF IInv, evaluation, sink
<1>2. wall \in Int /\ mono \in Nat /\ adjustments \in Nat /\ StartWall \in Int
  BY ConstantsAssumption DEF IInv, TypeOK
<1>3. CASE UNCHANGED clock
  BY <1>1, <1>3 DEF Steady, Running, clock
<1>4. CASE AdjustWallClock
  BY <1>2, <1>4 DEF AdjustWallClock, Steady
<1>5. CASE Tick
  <2>1. wall' = wall + 1 /\ mono' = mono + 1 /\ adjustments' = adjustments
    BY <1>5 DEF Tick
  <2>2. \A r \in Request : permits[r] # Missing => permits[r].issuedAt \in Nat
    BY DEF IInv, TypeOK, Permits
  <2>3. \A c \in Execution : call[c].supplied = Missing \/ call[c].supplied \in Int
    BY DEF IInv, TypeOK, Calls
  <2>4. \A n \in 1 .. Len(evidence) : evidence[n].at \in Int
    <3>1. evidence \in Seq(Entries)
      BY DEF IInv, TypeOK
    <3>2. \A n \in 1 .. Len(evidence) : evidence[n] \in Entries
      BY <3>1, ElementOfSeq
    <3> QED
      BY <3>2 DEF Entries
  <2>5. Running' = Running /\ Running \subseteq Execution
    BY <1>1 DEF Running
  <2>6. SUFFICES ASSUME adjustments = 0
                 PROVE  /\ wall' = StartWall + mono'
                        /\ \A r \in Request : phase[r] \in {"policy", "permitted"} =>
                              started[r].now = StartWall + started[r].mono
                        /\ \A r \in Request : permits[r] # Missing => permits[r].issuedAt <= mono'
                        /\ \A c \in Running : call[c].supplied = Missing \/ call[c].supplied <= wall'
                        /\ \A n \in 1 .. Len(evidence) : evidence[n].at <= wall'
    BY <1>1, <2>1, <2>5 DEF Steady
  <2>7. wall' = StartWall + mono'
    BY <1>2, <2>1, <2>6 DEF Steady
  <2>8. \A r \in Request : permits[r] # Missing => permits[r].issuedAt <= mono'
    BY <1>2, <2>1, <2>2, <2>6 DEF Steady
  <2>9. \A c \in Running : call[c].supplied = Missing \/ call[c].supplied <= wall'
    BY <1>2, <2>1, <2>3, <2>5, <2>6 DEF Steady
  <2>10. \A n \in 1 .. Len(evidence) : evidence[n].at <= wall'
    BY <1>2, <2>1, <2>4, <2>6 DEF Steady
  <2> QED
    BY <2>6, <2>7, <2>8, <2>9, <2>10 DEF Steady
<1> QED
  BY <1>3, <1>4, <1>5 DEF Outside, Revoke, DriftConfiguration, RestartRuntime, Withdraw

\* evaluate() reads both clocks together.
LEMMA EvaluateSteady ==
    ASSUME IInv, Steady, NEW r \in Request, Evaluate(r) PROVE Steady'
<1>1. Evaluates(r) /\ Grows
  BY EvaluateSteps, EvaluateGrows DEF IInv
<1>2. UNCHANGED <<wall, mono, adjustments, pc, call>>
  BY <1>1 DEF Evaluates, clock
<1>3. ASSUME adjustments = 0, NEW s \in Request, phase'[s] \in {"policy", "permitted"}
      PROVE  started'[s].now = StartWall + started'[s].mono
  <2>1. CASE phase'[s] = phase[s] /\ started'[s] = started[s]
    BY <1>3, <2>1 DEF Steady
  <2>2. CASE Issues(r)
    BY <1>3, <2>2 DEF Steady, Issues, OtherRequests
  <2>3. CASE s = r /\ started' = [started EXCEPT ![r] = [now |-> wall, mono |-> mono]]
    <3>1. started'[s] = [now |-> wall, mono |-> mono]
      BY <2>3 DEF IInv, TypeOK
    <3> QED
      BY <1>3, <3>1 DEF Steady
  <2>4. CASE s # r
    BY <1>1, <2>1, <2>4 DEF Evaluates, Collects, Refuses, Begins, Issues, OtherRequests
  <2>5. CASE s = r /\ BeginEvaluate(r)
    BY <1>3, <2>3, <2>5 DEF BeginEvaluate, RefuseEvaluation, IInv, TypeOK
  <2>6. CASE s = r /\ ~BeginEvaluate(r)
    <3>1. CASE CollectFacts(r)
      BY <1>3, <2>6, <3>1 DEF CollectFacts, IInv, TypeOK
    <3>2. CASE AlterRequest(r)
      BY <2>1, <2>6, <3>2 DEF AlterRequest
    <3>3. CASE \E at : RefuseEvaluation(r, at)
      BY <1>3, <2>6, <3>3 DEF RefuseEvaluation, IInv, TypeOK
    <3>4. CASE IssuePermit(r, AuthorizationNow(r)) /\ phase[r] = "policy"
      BY <1>3, <2>6, <3>4 DEF IssuePermit, Steady
    <3> QED
      BY <2>6, <3>1, <3>2, <3>3, <3>4 DEF Evaluate, PolicyDenies, PolicyAllows
  <2> QED
    BY <2>4, <2>5, <2>6
<1>4. ASSUME adjustments = 0, NEW s \in Request, permits'[s] # Missing
      PROVE  permits'[s].issuedAt <= mono
  <2>1. CASE permits' = permits
    BY <1>4, <2>1 DEF Steady
  <2>2. CASE IssuePermit(r, AuthorizationNow(r))
    <3>1. permits'[r].issuedAt = mono /\ \A q \in Request : q # r => permits'[q] = permits[q]
      BY <2>2 DEF IssuePermit, IInv, TypeOK
    <3>2. mono <= mono
      BY DEF IInv, TypeOK
    <3> QED
      BY <1>4, <3>1, <3>2 DEF Steady
  <2> QED
    BY <2>1, <2>2 DEF Evaluate, CollectFacts, AlterRequest, BeginEvaluate,
                      PolicyDenies, PolicyAllows, RefuseEvaluation
<1>5. adjustments = 0 => \A n \in 1 .. Len(evidence') : evidence'[n].at <= wall
  BY <1>1, GrowsInTime DEF Steady, IInv
<1> QED
  BY <1>2, <1>3, <1>4, <1>5 DEF Steady, Running

\* The time a call is given is not ahead of the clock.
LEMMA StartSupplied ==
    ASSUME IInv, Steady, adjustments = 0, NEW c \in Execution, NEW r \in Request,
           StartExecute(c, r), pc'[c] \notin Ended
    PROVE  /\ call'[c].supplied = Missing \/ call'[c].supplied <= wall
           /\ pc'[c] = "record" /\ Len(evidence) < MaxEntries /\ UNCHANGED sink
<1> DEFINE permit == permits[r]
           entered(content, terms, supplied) ==
              [NotCalled EXCEPT !.request = r, !.held = permit,
                 !.captured = content, !.live = content, !.terms = terms,
                 !.supplied = supplied, !.sound = WorldSupports(permit)]
<1>1. PICK content \in Bodies, terms \in Bodies, supplied \in SuppliedTimes(permit) :
         /\ WritableBeforeDispatch
         /\ call' = [call EXCEPT ![c] = entered(content, terms, supplied)]
         /\ pc' = [pc EXCEPT ![c] = "record"]
         /\ UNCHANGED sink
  <2>1. pc'[c] \notin {"refused", "threw"}
    BY DEF Ended
  <2>2. /\ pc' # [pc EXCEPT ![c] = "refused"]
        /\ pc' # [pc EXCEPT ![c] = "threw"]
    BY <2>1 DEF IInv, TypeOK
  <2> QED
    BY <2>2 DEF StartExecute, RefuseExecution
<1>2. call'[c].supplied = supplied
  <2>1. NotCalled \in Calls
    BY EndedCall
  <2>2. entered(content, terms, supplied).supplied = supplied
    BY <2>1 DEF Calls
  <2> HIDE DEF entered
  <2> QED
    BY <1>1, <2>2 DEF IInv, TypeOK
<1>3. wall \in Int /\ mono \in Int /\ StartWall \in Int
  BY ConstantsAssumption DEF IInv, TypeOK
<1>4. permit # Missing => permit.authorizedAt <= wall
  <2> SUFFICES ASSUME permit # Missing PROVE permit.authorizedAt <= wall
    OBVIOUS
  <2>1. permit \in Permits /\ phase[r] = "permitted"
    BY DEF IInv, TypeOK, Spent
  <2>2. started[r] \in [now : Int, mono : Nat]
    BY <2>1 DEF IInv, Stage
  <2>3. /\ permit.authorizedAt - permit.issuedAt = started[r].now - started[r].mono
        /\ started[r].now = StartWall + started[r].mono
        /\ permit.issuedAt <= mono /\ wall = StartWall + mono
    BY <2>1 DEF IInv, Dated, DatedBy, Steady
  <2>4. /\ permit.authorizedAt \in Int /\ permit.issuedAt \in Int
        /\ started[r].now \in Int /\ started[r].mono \in Int
    BY <2>1, <2>2 DEF Permits
  <2> HIDE DEF permit
  <2> QED
    BY <1>3, <2>3, <2>4
<1>5. supplied = Missing \/ supplied <= wall
  BY <1>3, <1>4 DEF SuppliedTimes
<1>6. pc'[c] = "record"
  BY <1>1 DEF IInv, TypeOK
<1> QED
  BY <1>1, <1>2, <1>5, <1>6 DEF WritableBeforeDispatch

\* A call that goes on keeps the time it was given.
LEMMA ContinueSupplied ==
    ASSUME IInv, NEW c \in Execution, Continue(c), c \in Running'
    PROVE  call'[c].supplied = call[c].supplied
<1>1. pc'[c] \notin {"refused", "threw"} /\ call[c] \in Calls
  BY DEF Running, Ended, IInv, TypeOK
<1>2. CASE AlterCall(c)
  BY <1>1, <1>2 DEF AlterCall, IInv, TypeOK, Calls
<1>3. CASE RefreshReleaseRecord(c)
  BY <1>1, <1>3 DEF RefreshReleaseRecord, RefuseExecution, IInv, TypeOK, Calls
<1>4. CASE RefreshExecutionConfiguration(c)
  BY <1>1, <1>4 DEF RefreshExecutionConfiguration, IInv, TypeOK, Calls
<1>5. CASE RefreshRuntimeAttestation(c)
  BY <1>1, <1>5 DEF RefreshRuntimeAttestation, IInv, TypeOK, Calls
<1>6. CASE Check(c)
  BY <1>1, <1>6 DEF Check, RefuseExecution, IInv, TypeOK, Calls
<1>7. CASE Dispatch(c)
  BY <1>1, <1>7 DEF Dispatch, RefuseExecution, IInv, TypeOK, Calls
<1>8. CASE SettleDispatch(c)
  BY <1>8 DEF SettleDispatch
<1> QED
  BY <1>2, <1>3, <1>4, <1>5, <1>6, <1>7, <1>8 DEF Continue

\* execute() moves no clock, and issues no permit.
LEMMA ExecuteSteady ==
    ASSUME IInv, Steady, NEW c \in Execution, Execute(c) PROVE Steady'
<1>1. Step(c) /\ Grows
  BY ExecuteSteps, ExecuteGrows DEF IInv
<1>2. /\ Moves(c)
      /\ \A r \in Request : permits'[r] # Missing => permits'[r] = permits[r]
  BY <1>1, StepKinds DEF IInv
<1>3. UNCHANGED <<wall, mono, adjustments, phase, started>>
  BY <1>2 DEF Moves, clock, evaluation
<1>4. ASSUME adjustments = 0, NEW d \in Running'
      PROVE  call'[d].supplied = Missing \/ call'[d].supplied <= wall
  <2>1. d \in Execution /\ pc'[d] \notin Ended \cup {"idle"}
    BY <1>4 DEF Running
  <2>2. CASE d # c
    <3>1. call'[d] = call[d] /\ pc'[d] = pc[d]
      BY <1>2, <2>1, <2>2 DEF Moves, Others
    <3>2. d \in Running
      BY <2>1, <3>1 DEF Running
    <3> QED
      BY <1>4, <3>1, <3>2 DEF Steady
  <2>3. ASSUME d = c, NEW r \in Request, StartExecute(c, r)
        PROVE  call'[d].supplied = Missing \/ call'[d].supplied <= wall
    BY <1>4, <2>1, <2>3, StartSupplied
  <2>4. CASE d = c /\ Continue(c)
    <3>1. call'[c].supplied = call[c].supplied /\ c \in Running
      BY <1>4, <2>4, ContinueSupplied, ContinueStep
    <3> QED
      BY <1>4, <2>4, <3>1 DEF Steady
  <2> QED
    BY <2>2, <2>3, <2>4 DEF Execute, Continue
<1>5. adjustments = 0 => \A n \in 1 .. Len(evidence') : evidence'[n].at <= wall
  BY <1>1, GrowsInTime DEF Steady, IInv
<1> QED
  BY <1>2, <1>3, <1>4, <1>5 DEF Steady

\* Outside the gate, only time passes for the entry a call has still to write.
LEMMA OutsideKept ==
    ASSUME IInv, Kept, Outside PROVE Kept'
<1>1. UNCHANGED <<permits, pc, call, evidence, writeFailures>>
  BY OutsideStep DEF IInv, sink
<1>2. wall \in Int /\ adjustments \in Nat
  BY DEF IInv, TypeOK
<1>3. adjustments' = 0 => adjustments = 0 /\ wall <= wall'
  BY <1>2 DEF Outside, Tick, AdjustWallClock, Revoke, DriftConfiguration,
              RestartRuntime, Withdraw, clock
<1>4. wall' \in Int
  BY OutsideStep DEF IInv
<1>5. ASSUME adjustments' = 0, NEW c \in Execution,
             Accepts(call[c].decidedAt, Permit(c).stateAt)
      PROVE  Accepts(call[c].decidedAt, Permit(c).stateAt)'
  <2>1. call[c].decidedAt \in Int
    BY DEF IInv, TypeOK, Calls
  <2>2. call[c].decidedAt <= wall'
    BY <1>2, <1>3, <1>4, <1>5, <2>1 DEF Accepts
  <2> QED
    BY <1>1, <1>5, <2>2 DEF Accepts, Permit
<1> QED
  BY <1>1, <1>3, <1>5 DEF Kept, Running

\* What execute() does to the entry that is to be written.
LEMMA ContinueKept ==
    ASSUME MaxInFlight = 1, IInv, OneAtATime, Steady, Kept, NEW c \in Execution, Continue(c)
    PROVE  Kept'
<1>1. c \in Running /\ Step(c) /\ Grows
  <2>1. Execute(c)
    BY DEF Continue, Execute
  <2> QED
    BY <2>1, ContinueStep, ExecuteGrows
<1>2. Moves(c) /\ UNCHANGED <<wall, adjustments>>
  BY <1>1, StepKinds DEF IInv, Moves, clock
<1>3. SUFFICES ASSUME adjustments = 0, writeFailures' = 0
               PROVE  \A d \in Execution :
                         /\ d \in Running' => Len(evidence') < MaxEntries
                         /\ pc'[d] = "dispatched" => Accepts(call[d].decidedAt, Permit(d).stateAt)'
                         /\ pc'[d] # "lost"
  BY <1>2 DEF Kept
<1>4. writeFailures = 0 /\ Len(evidence) < MaxEntries
  BY <1>1, <1>3 DEF Grows, Kept, Running
<1>5. ASSUME NEW d \in Execution, d # c
      PROVE  /\ d \notin Running' /\ pc'[d] # "dispatched" /\ pc'[d] # "lost"
  <2>1. d \notin Running /\ pc'[d] = pc[d]
    BY <1>1, <1>2, <1>5, RunsAlone DEF Moves, Others
  <2> QED
    BY <1>3, <1>4, <2>1 DEF Kept, Running, Ended
<1>6. ASSUME pc'[c] \in Ended \ {"lost"}
      PROVE  c \notin Running' /\ pc'[c] # "dispatched" /\ pc'[c] # "lost"
  BY <1>6 DEF Running, Ended
<1>7. ASSUME UNCHANGED sink, pc'[c] \notin {"dispatched", "lost"}
      PROVE  /\ c \in Running' => Len(evidence') < MaxEntries
             /\ pc'[c] # "dispatched" /\ pc'[c] # "lost"
  BY <1>4, <1>7 DEF sink
<1>8. CASE /\ pc[c] # "dispatched"
           /\ \/ pc'[c] \in {"refused", "threw"}
              \/ UNCHANGED sink /\ pc'[c] \notin {"dispatched", "lost"}
  BY <1>5, <1>6, <1>7, <1>8 DEF Ended
<1>9. CASE Dispatch(c) /\ pc'[c] \notin {"refused", "threw"}
  <2>1. /\ MayCross(c, Now(c)) /\ UNCHANGED sink
        /\ call' = [call EXCEPT ![c].decidedAt = Now(c), ![c].dispatchedAt = mono,
                                 ![c].sent = HandedOver(c)]
        /\ pc' = [pc EXCEPT ![c] = "dispatched"]
    BY <1>9 DEF Dispatch, RefuseExecution, IInv, TypeOK
  <2>2. Now(c) = wall
    BY <1>1, <1>3, NowIsWall
  <2>3. call'[c].decidedAt = wall /\ call'[c].held = call[c].held /\ pc'[c] = "dispatched"
    <3>1. call[c] \in Calls
      BY DEF IInv, TypeOK
    <3> QED
      BY <2>1, <2>2, <3>1 DEF Calls, IInv, TypeOK
  <2>4. Permit(c).stateAt <= wall
    BY <2>1, <2>2 DEF MayCross, BoundaryHolds, Authorizes, Fresh, CurrentFacts
  <2>5. \A n \in 1 .. Len(evidence) : evidence[n].at <= wall
    BY <1>3 DEF Steady
  <2>6. wall <= wall
    BY DEF IInv, TypeOK
  <2>7. Accepts(call[c].decidedAt, Permit(c).stateAt)'
    BY <1>2, <1>4, <2>1, <2>3, <2>4, <2>5, <2>6 DEF Accepts, Permit, sink
  <2> QED
    BY <1>4, <1>5, <2>1, <2>3, <2>7 DEF sink
<1>10. CASE SettleDispatch(c)
  <2>1. Accepts(call[c].decidedAt, Permit(c).stateAt)
    BY <1>3, <1>4, <1>10 DEF SettleDispatch, Kept
  <2>2. ~AppendThrows(call[c].decidedAt, Permit(c).stateAt)
    BY <1>3, <1>4, <2>1 DEF AppendThrows
  <2>3. pc'[c] = "recorded"
    BY <1>10, <2>2 DEF SettleDispatch, IInv, TypeOK
  <2> QED
    BY <1>5, <1>6, <2>3 DEF Ended
<1>11. CASE Dispatch(c) /\ pc'[c] \in {"refused", "threw"}
  BY <1>8, <1>11 DEF Dispatch
<1>12. CASE AlterCall(c) \/ RefreshReleaseRecord(c) \/ RefreshExecutionConfiguration(c)
              \/ RefreshRuntimeAttestation(c) \/ Check(c)
  BY <1>8, <1>12 DEF AlterCall, RefreshReleaseRecord, RefreshExecutionConfiguration,
                     RefreshRuntimeAttestation, Check, RefuseExecution, IInv, TypeOK
<1> QED
  BY <1>9, <1>10, <1>11, <1>12 DEF Continue

\* A call begins only if there is room for what it will write down.
LEMMA StartKept ==
    ASSUME MaxInFlight = 1, IInv, OneAtATime, Steady, Kept,
           NEW c \in Execution, NEW r \in Request, StartExecute(c, r)
    PROVE  Kept'
<1>1. Execute(c)
  BY DEF Execute
<1>2. Moves(c) /\ Grows /\ UNCHANGED adjustments
  <2>1. Step(c)
    BY <1>1, ExecuteSteps DEF IInv
  <2> QED
    BY <1>1, <2>1, StepKinds, ExecuteGrows DEF IInv, Moves, clock
<1>3. Running = {}
  BY RunsAlone
<1>4. SUFFICES ASSUME adjustments = 0, writeFailures' = 0
               PROVE  \A d \in Execution :
                         /\ d \in Running' => Len(evidence') < MaxEntries
                         /\ pc'[d] = "dispatched" => Accepts(call[d].decidedAt, Permit(d).stateAt)'
                         /\ pc'[d] # "lost"
  BY <1>2 DEF Kept
<1>5. writeFailures = 0
  BY <1>2, <1>4 DEF Grows
<1>6. ASSUME NEW d \in Execution, d # c
      PROVE  d \notin Running' /\ pc'[d] # "dispatched" /\ pc'[d] # "lost"
  <2>1. pc'[d] = pc[d] /\ d \notin Running
    BY <1>2, <1>3, <1>6 DEF Moves, Others
  <2> QED
    BY <1>4, <1>5, <2>1 DEF Kept, Running, Ended
<1>7. CASE pc'[c] \notin Ended
  <2>1. pc'[c] = "record" /\ Len(evidence) < MaxEntries /\ UNCHANGED sink
    BY <1>4, <1>7, StartSupplied
  <2> QED
    BY <1>6, <2>1 DEF sink
<1>8. CASE pc'[c] \in Ended
  <2>1. pc'[c] \in {"refused", "threw", "record"}
    BY DEF StartExecute, RefuseExecution, IInv, TypeOK
  <2> QED
    BY <1>6, <1>8, <2>1 DEF Running, Ended
<1> QED
  BY <1>7, <1>8

\* evaluate() steps only while no call runs.
LEMMA EvaluateKept ==
    ASSUME MaxInFlight = 1, IInv, OneAtATime, Kept, NEW r \in Request, Evaluate(r)
    PROVE  Kept'
<1>1. Evaluates(r) /\ Grows
  BY EvaluateSteps, EvaluateGrows DEF IInv
<1>2. UNCHANGED <<adjustments, pc, call>> /\ Running = {}
  BY <1>1, RunsAlone DEF Evaluates, clock
<1>3. writeFailures' = 0 => writeFailures = 0
  BY <1>1 DEF Grows
<1>4. \A c \in Execution : c \notin Running' /\ pc'[c] # "dispatched"
  BY <1>2 DEF Running, Ended
<1> QED
  BY <1>2, <1>3, <1>4 DEF Kept

\* The invariant of a gateway that works on one proposal at a time.
LEMMA InitGateway == Init => GatewayInv
<1> SUFFICES ASSUME Init PROVE GatewayInv
  OBVIOUS
<1>1. IInv
  BY InitIInv
<1>2. OneAtATime
  BY DEF Init, OneAtATime, InFlight
<1>3. Running = {} /\ StartWall \in Int
  BY ConstantsAssumption DEF Init, Running
<1>4. Steady
  BY <1>3 DEF Init, Steady
<1>5. Kept
  BY <1>3 DEF Init, Kept
<1> QED
  BY <1>1, <1>2, <1>4, <1>5 DEF GatewayInv

\* Every step preserves it.
LEMMA NextGateway ==
    ASSUME MaxInFlight = 1, GatewayInv, [Next]_vars
    PROVE  GatewayInv'
<1>1. IInv /\ OneAtATime /\ Steady /\ Kept /\ IInv'
  BY NextIInv DEF GatewayInv
<1>2. CASE Outside
  <2>1. UNCHANGED <<phase, pc, call>>
    BY <1>1, <1>2, OutsideStep DEF IInv, evaluation
  <2>2. OneAtATime'
    BY <1>1, <2>1 DEF OneAtATime, InFlight, Finished
  <2> QED
    BY <1>1, <1>2, <2>2, OutsideSteady, OutsideKept DEF GatewayInv
<1>3. ASSUME NEW r \in Request, Evaluate(r) PROVE GatewayInv'
  BY <1>1, <1>3, EvaluateAlone, EvaluateSteady, EvaluateKept DEF GatewayInv
<1>4. ASSUME NEW c \in Execution, NEW r \in Request, StartExecute(c, r) PROVE GatewayInv'
  <2>1. Execute(c)
    BY <1>4 DEF Execute
  <2> QED
    BY <1>1, <1>4, <2>1, StartAlone, ExecuteSteady, StartKept DEF GatewayInv
<1>5. ASSUME NEW c \in Execution, Continue(c) PROVE GatewayInv'
  <2>1. Execute(c)
    BY <1>5 DEF Execute, Continue
  <2> QED
    BY <1>1, <1>5, <2>1, ContinueAlone, ExecuteSteady, ContinueKept DEF GatewayInv
<1>6. CASE UNCHANGED vars
  <2>1. UNCHANGED <<wall, mono, adjustments, phase, started, permits, pc, call,
                    evidence, writeFailures>>
    BY <1>6 DEF vars, clock, evaluation, sink
  <2> QED
    BY <1>1, <2>1 DEF GatewayInv, OneAtATime, InFlight, Finished, Steady, Running, Kept,
                      Accepts, Permit
<1> QED
  BY <1>2, <1>3, <1>4, <1>5, <1>6 DEF Next, Outside, Execute, Continue

\* A caller that works on one proposal at a time, as the gateway does, leaves
\* evidence of everything it dispatched, as long as nobody sets the wall clock and
\* no write of the evidence file fails.
THEOREM GatewayLeavesEvidence == MaxInFlight = 1 => (Spec => []DispatchLeavesEvidence)
<1> SUFFICES ASSUME MaxInFlight = 1
             PROVE  Spec => []DispatchLeavesEvidence
  OBVIOUS
<1>1. Init => GatewayInv
  BY InitGateway
<1>2. GatewayInv /\ [Next]_vars => GatewayInv'
  BY NextGateway
<1>3. GatewayInv => DispatchLeavesEvidence
  BY DEF GatewayInv, Kept, DispatchLeavesEvidence, Dispatched
<1> QED
  BY <1>1, <1>2, <1>3, PTL DEF Spec
=============================================================================
