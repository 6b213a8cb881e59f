---------------------------- MODULE CloudWorkflow ----------------------------
(***************************************************************************)
(* CloudConnectedRos2Workflow with its CloudConnectedDispatchBoundary and  *)
(* RlsokCloudClient: one runtime process handles one proposal at a time,   *)
(* takes a Cloud permit, refreshes everything at the final boundary,       *)
(* consumes the permit, dispatches, and writes Evidence locally before it  *)
(* submits it.  A mutating request is sent at most twice with one          *)
(* idempotency key, a request the client gave up on may still be processed *)
(* by the Cloud later, and the process may crash between any two steps.    *)
(*                                                                         *)
(* The Cloud is external: what it does is taken from how the client uses   *)
(* it and from the contract it is written against.  Reads (GET) change     *)
(* nothing, so their retry is part of the step that reads.  The clocks of  *)
(* the local permit are one fact, whether it has lapsed; an adjusted wall  *)
(* clock can only make a check fail.                                       *)
(***************************************************************************)
EXTENDS Integers, FiniteSets

CONSTANTS
    Proposal,           \* proposal identities
    None,               \* no proposal, no evidence
    MaxAttempts,        \* bound: deliveries of a proposal to the workflow
    MaxWriteFailures,   \* bound: failed writes of the local result file
    MaxCrashes          \* bound: crashes of the runtime process

ASSUME ConstantsAssumption ==
    /\ None \notin Proposal
    /\ MaxAttempts \in Nat \ {0}
    /\ MaxWriteFailures \in Nat
    /\ MaxCrashes \in Nat

Attempt == 1 .. MaxAttempts
MutationAttempts == 2       \* retryIdempotentMutation
Authority == {"cloud_release", "configuration", "local_release"}

VARIABLES
    mode,       \* "shadow" or "run", fixed when the process is configured
    withdrawn,  \* revoked in the Cloud, drifted, expired locally
    claimed,    \* the replay registry
    attempt,    \* the number of the current or last attempt
    proposalOf, \* proposalOf[n]: the proposal of attempt n
    pc,
    lapsed,     \* the local permit of this attempt is past its second
    result,     \* the CloudConnectedRos2Result being built
    try,        \* attempt of the mutating request being sent
    reply,      \* what the client has received for that try
    network,    \* requests the Cloud has not processed yet
    consumed,   \* attempts whose permit the Cloud has consumed
    stored,     \* the Evidence records the Cloud holds
    local,      \* what the runtime's result file holds
    dispatched, \* attempts that called the controller
    before,     \* before[n]: authority withdrawn when n reached the boundary
    writeFailures, crashes

cloudState == <<network, consumed, stored>>
history == <<dispatched, before>>
bounds == <<writeFailures, crashes>>
vars == <<mode, withdrawn, claimed, attempt, proposalOf, pc, lapsed, result,
          try, reply, cloudState, local, history, bounds>>

Labels == {"idle", "denied", "observe", "initial", "unbound", "state",
           "permit", "hook", "boundary", "configuration", "release",
           "released", "consume", "current", "controller", "write", "rewrite",
           "abort", "submit", "receipt", "verified"}

Results == [decision : {"allowed", "blocked", "failed"},
            consumption : {"not_consumed", "consumed", "unknown"},
            localPermitConsumed : BOOLEAN,
            sent : BOOLEAN]
Blocked == [decision |-> "blocked", consumption |-> "not_consumed",
            localPermitConsumed |-> FALSE, sent |-> FALSE]

Requests == [kind : {"consume", "evidence"}, of : Attempt,
             try : 1 .. MutationAttempts, says : Results]
Records == [of : Attempt, key : 1 .. MutationAttempts, says : Results]
LocalReports == [of : Attempt, says : Results, verified : BOOLEAN]

ASSUME NoneAssumption == None \notin LocalReports

TypeOK ==
    /\ mode \in {"shadow", "run"}
    /\ withdrawn \subseteq Authority
    /\ claimed \subseteq Proposal
    /\ attempt \in 0 .. MaxAttempts
    /\ proposalOf \in [Attempt -> Proposal \cup {None}]
    /\ pc \in Labels
    /\ lapsed \in BOOLEAN
    /\ result \in Results
    /\ try \in 1 .. MutationAttempts
    /\ reply \in {"none", "ok", "error"}
    /\ network \subseteq Requests
    /\ consumed \subseteq Attempt
    /\ stored \subseteq Records
    /\ local \in LocalReports \cup {None}
    /\ dispatched \subseteq Attempt
    /\ before \in [Attempt -> SUBSET Authority]
    /\ writeFailures \in Nat /\ crashes \in Nat

Init ==
    /\ mode \in {"shadow", "run"}
    /\ withdrawn = {}
    /\ claimed = {}
    /\ attempt = 0
    /\ proposalOf = [n \in Attempt |-> None]
    /\ pc = "idle"
    /\ lapsed = FALSE
    /\ result = Blocked
    /\ try = 1
    /\ reply = "none"
    /\ network = {}
    /\ consumed = {}
    /\ stored = {}
    /\ local = None
    /\ dispatched = {}
    /\ before = [n \in Attempt |-> {}]
    /\ writeFailures = 0 /\ crashes = 0

-----------------------------------------------------------------------------
(* How a step of the workflow goes on. *)

Goto(label) == pc' = label
Quiet == UNCHANGED <<mode, withdrawn, claimed, attempt, proposalOf, bounds>>

\* The result is final: it will be written locally, then submitted.
Conclude(r) ==
    /\ result' = r
    /\ Goto("write")

\* The promise rejects; the workflow is done with this proposal.
Reject ==
    /\ Goto("idle")
    /\ result' = Blocked
    /\ lapsed' = FALSE

-----------------------------------------------------------------------------
(* The world. *)

Withdraw(what) ==
    /\ what \notin withdrawn
    /\ withdrawn' = withdrawn \cup {what}
    /\ UNCHANGED <<mode, claimed, attempt, proposalOf, pc, lapsed, result, try,
                   reply, cloudState, local, history, bounds>>

\* One second has passed since the local permit was issued.
Lapse ==
    /\ pc \in {"hook", "boundary", "configuration", "release", "released",
               "consume", "current"}
    /\ ~lapsed
    /\ lapsed' = TRUE
    /\ UNCHANGED <<mode, withdrawn, claimed, attempt, proposalOf, pc, result,
                   try, reply, cloudState, local, history, bounds>>

\* The claims of a run are in the file registry, those of a shadow may be in
\* memory.  A request that was sent is still under way.
ClaimsLost == {}
SurvivingClaims == IF mode = "run" THEN claimed ELSE {}
Crash ==
    /\ pc # "idle"
    /\ crashes < MaxCrashes
    /\ crashes' = crashes + 1
    /\ claimed' = SurvivingClaims
    /\ Reject
    /\ try' = 1
    /\ reply' = "none"
    /\ UNCHANGED <<mode, withdrawn, attempt, proposalOf, cloudState, local,
                   history, writeFailures>>

-----------------------------------------------------------------------------
(* runProposal up to the permit. *)

\* The local release must admit the proposal, then the proposal is claimed:
\* both before the first await.
Receive(p) ==
    /\ pc = "idle"
    /\ attempt < MaxAttempts
    /\ attempt' = attempt + 1
    /\ proposalOf' = [proposalOf EXCEPT ![attempt + 1] = p]
    /\ \/ /\ "local_release" \in withdrawn
          /\ UNCHANGED <<pc, claimed>>
       \/ /\ "local_release" \notin withdrawn
          /\ p \notin claimed
          /\ claimed' = claimed \cup {p}
          /\ Goto("observe")
       \* duplicate, or a registry that is full or unavailable
       \/ /\ "local_release" \notin withdrawn
          /\ Goto("denied")
          /\ UNCHANGED claimed
    /\ UNCHANGED <<mode, withdrawn, lapsed, result, try, reply, cloudState,
                   local, history, bounds>>

\* The configuration and the attestation are observed; a configuration
\* provider that fails rejects, anything else is judged after the next read.
Observe ==
    /\ pc = "observe"
    /\ \/ "configuration" \notin withdrawn /\ Goto("initial")
       \/ Goto("unbound")
       \/ Goto("abort")
    /\ Quiet
    /\ UNCHANGED <<lapsed, result, try, reply, cloudState, local, history>>

\* A reference denial concludes with Evidence and never requests a permit.
InitialRelease ==
    /\ pc \in {"initial", "unbound"}
    /\ \/ /\ pc = "initial"
          /\ "cloud_release" \notin withdrawn
          /\ Goto("state")
          /\ UNCHANGED result
       \/ Conclude(Blocked)
       \/ Goto("abort") /\ UNCHANGED result
    /\ Quiet
    /\ UNCHANGED <<lapsed, try, reply, cloudState, local, history>>

\* A fresh joint state, a Cloud permit, a local permit of one second, and the
\* hook before the boundary.  Each may fail.
Prepare(from, to) ==
    /\ pc = from
    /\ \/ Goto(to) \/ Goto("abort")
    /\ Quiet
    /\ UNCHANGED <<lapsed, result, try, reply, cloudState, local, history>>

ObserveJointState == Prepare("state", "permit")
RequestPermit == Prepare("permit", "hook")
BeforeFinalBoundary == Prepare("hook", "boundary")

-----------------------------------------------------------------------------
(* CloudConnectedDispatchBoundary. *)

\* What the workflow makes of an error of the boundary.
BoundaryFails ==
    Conclude([result EXCEPT !.decision = IF result.sent THEN "failed"
                                         ELSE "blocked"])

\* beginFinalBoundary: the local permit is consumed, if it is still valid.
BeginBoundary ==
    /\ pc = "boundary"
    /\ before' = [before EXCEPT ![attempt] = withdrawn]
    /\ \/ /\ ~lapsed
          /\ result' = [result EXCEPT !.localPermitConsumed = TRUE]
          /\ Goto("configuration")
       \/ BoundaryFails
    /\ Quiet
    /\ UNCHANGED <<lapsed, try, reply, cloudState, local, dispatched>>

\* currentConfigurationDigest: configuration, joint state and attestation.
ConfirmConfiguration ==
    /\ pc = "configuration"
    /\ \/ /\ "configuration" \notin withdrawn
          /\ Goto("release")
          /\ UNCHANGED result
       \/ BoundaryFails
    /\ Quiet
    /\ UNCHANGED <<lapsed, try, reply, cloudState, local, history>>

\* Fault: the release is not read again at the boundary.
ConfirmReleaseSkipped ==
    /\ pc = "release"
    /\ Goto("released")
    /\ Quiet
    /\ UNCHANGED <<lapsed, result, try, reply, cloudState, local, history>>

\* The Cloud answers what the release is at this moment.
ConfirmRelease ==
    /\ pc = "release"
    /\ \/ /\ "cloud_release" \notin withdrawn
          /\ Goto("released")
          /\ UNCHANGED result
       \/ BoundaryFails
    /\ Quiet
    /\ UNCHANGED <<lapsed, try, reply, cloudState, local, history>>

Send(kind, n) ==
    /\ try' = n
    /\ reply' = "none"
    /\ network' = network \cup
                     {[kind |-> kind, of |-> attempt, try |-> n, says |-> result]}
    /\ UNCHANGED <<consumed, stored>>

\* Fault: the state stays "not_consumed" until the answer is in.
BeforeConsumeOptimistic(r) == r

\* From here a failure cannot tell a refusal from a lost answer.
BeforeConsume(r) == [r EXCEPT !.consumption = "unknown"]

\* The local release and the local permit are checked again, then the request
\* to consume the Cloud permit is sent.
StartConsume ==
    /\ pc = "released"
    /\ \/ /\ "local_release" \notin withdrawn
          /\ ~lapsed
          /\ result' = BeforeConsume(result)
          /\ Send("consume", 1)
          /\ Goto("consume")
       \/ BoundaryFails /\ UNCHANGED <<try, reply, cloudState>>
    /\ Quiet
    /\ UNCHANGED <<lapsed, local, history>>

ConsumeSucceeds ==
    /\ pc = "consume"
    /\ reply = "ok"
    /\ result' = [result EXCEPT !.consumption = "consumed"]
    /\ Goto("current")
    /\ Quiet
    /\ UNCHANGED <<lapsed, try, reply, cloudState, local, history>>

\* Fault: a request that may have succeeded is taken for one that did.
ConsumeFailsOpen ==
    /\ pc = "consume"
    /\ reply = "error"
    /\ result' = [result EXCEPT !.consumption = "consumed"]
    /\ Goto("current")
    /\ Quiet
    /\ UNCHANGED <<lapsed, try, reply, cloudState, local, history>>

\* A stable error of the Cloud, or an answer that cannot be read.
ConsumeFails ==
    /\ pc = "consume"
    /\ reply = "error"
    /\ BoundaryFails
    /\ Quiet
    /\ UNCHANGED <<lapsed, try, reply, cloudState, local, history>>

\* The local permit must have outlived the round trip.  A shadow ends here.
CrossBoundary ==
    /\ pc = "current"
    /\ \/ /\ ~lapsed
          /\ mode = "run"
          /\ dispatched' = dispatched \cup {attempt}
          /\ result' = [result EXCEPT !.sent = TRUE]
          /\ Goto("controller")
       \/ /\ ~lapsed
          /\ mode = "shadow"
          /\ Conclude([result EXCEPT !.decision = "allowed"])
          /\ UNCHANGED dispatched
       \/ BoundaryFails /\ UNCHANGED dispatched
    /\ Quiet
    /\ UNCHANGED <<lapsed, try, reply, cloudState, local, before>>

\* The controller accepts, completes and succeeds, or anything else happens.
ControllerAnswers ==
    /\ pc = "controller"
    /\ \/ Conclude([result EXCEPT !.decision = "allowed"])
       \/ BoundaryFails
    /\ Quiet
    /\ UNCHANGED <<lapsed, try, reply, cloudState, local, history>>

-----------------------------------------------------------------------------
(* Mutating requests: RlsokCloudClient.request and the Cloud behind it. *)

Waiting(m) ==
    /\ pc = IF m.kind = "consume" THEN "consume" ELSE "submit"
    /\ m.of = attempt
    /\ m.try = try
    /\ reply = "none"

\* The answer reaches the client if it still waits for it, or is lost.
Answers(m, answer) ==
    reply' \in IF Waiting(m) THEN {answer, "none"} ELSE {reply}

\* The permit is consumed once.  The Cloud may recognise the key of a repeated
\* request or refuse it, and it may refuse any request.
CloudConsumes(m) ==
    /\ m \in network /\ m.kind = "consume"
    /\ network' = network \ {m}
    /\ \/ consumed' = consumed \cup {m.of} /\ Answers(m, "ok")
       \/ consumed' = consumed /\ Answers(m, "error")
    /\ Quiet
    /\ UNCHANGED <<pc, lapsed, result, try, stored, local, history>>

\* Fault: a new key for every request.
FreshKey(n) == n

\* One key is drawn for both attempts of a call.
IdempotencyKey(n) == 1

\* One record for an idempotency key, or a refusal.
CloudStores(m) ==
    /\ m \in network /\ m.kind = "evidence"
    /\ network' = network \ {m}
    /\ \/ /\ stored' = stored \cup
                 {[of |-> m.of, key |-> IdempotencyKey(m.try), says |-> m.says]}
          /\ Answers(m, "ok")
       \/ stored' = stored /\ Answers(m, "error")
    /\ Quiet
    /\ UNCHANGED <<pc, lapsed, result, try, consumed, local, history>>

\* Fault: the attempts are counted from zero, one too many.
MayRetryOnceMore == try <= MutationAttempts
MayRetry == try < MutationAttempts

\* Fault: no timer aborts a request.
NeverGivesUp == FALSE
GivesUp == pc \in {"consume", "submit"} /\ reply = "none"

\* Five seconds without an answer, or a broken connection: one retry.
Retry ==
    /\ GivesUp
    /\ MayRetry
    /\ Send(IF pc = "consume" THEN "consume" ELSE "evidence", try + 1)
    /\ Quiet
    /\ UNCHANGED <<pc, lapsed, result, local, history>>

\* After the last attempt the result is ambiguous, which is an error.
Ambiguous ==
    /\ GivesUp
    /\ ~MayRetry
    /\ reply' = "error"
    /\ Quiet
    /\ UNCHANGED <<pc, lapsed, result, try, cloudState, local, history>>

-----------------------------------------------------------------------------
(* Evidence: local first, then the Cloud, then local again. *)

Report(verified) == [of |-> attempt, says |-> result, verified |-> verified]

\* The file is replaced whole by a rename; when only the directory cannot be
\* synchronized afterwards, the write fails and the new content is there.
WriteFails(verified) ==
    /\ writeFailures < MaxWriteFailures
    /\ writeFailures' = writeFailures + 1
    /\ local' \in {local, Report(verified)}
WriteLocal(verified) ==
    /\ local' = Report(verified)
    /\ UNCHANGED writeFailures

Unwritten == UNCHANGED <<mode, withdrawn, claimed, attempt, proposalOf, crashes>>

\* A proposal the registry does not grant is written down as blocked, outside
\* of the part that tries again.
WriteDenial ==
    /\ pc = "denied"
    /\ \/ /\ WriteLocal(FALSE)
          /\ Send("evidence", 1)
          /\ Goto("submit")
          /\ UNCHANGED <<result, lapsed>>
       \/ WriteFails(FALSE) /\ Reject /\ UNCHANGED <<try, reply, cloudState>>
    /\ Unwritten
    /\ UNCHANGED history

WriteResult ==
    /\ pc = "write"
    /\ \/ /\ WriteLocal(FALSE)
          /\ Send("evidence", 1)
          /\ Goto("submit")
       \/ WriteFails(FALSE) /\ Goto("rewrite") /\ UNCHANGED <<try, reply, cloudState>>
    /\ Unwritten
    /\ UNCHANGED <<result, lapsed, history>>

\* Fault: the failed write is not made up for.
RewriteSkipped ==
    /\ pc = "rewrite"
    /\ Reject
    /\ Quiet
    /\ UNCHANGED <<try, reply, cloudState, local, history>>

\* Nothing was written: what the attempt came to is written once more, and
\* the promise rejects either way.
Rewrite ==
    /\ pc = "rewrite"
    /\ WriteLocal(FALSE) \/ WriteFails(FALSE)
    /\ Reject
    /\ Unwritten
    /\ UNCHANGED <<try, reply, cloudState, history>>

\* The workflow failed before it had a result.
WriteAbort ==
    /\ pc = "abort"
    /\ WriteLocal(FALSE) \/ WriteFails(FALSE)
    /\ Reject
    /\ Unwritten
    /\ UNCHANGED <<try, reply, cloudState, history>>

Submitted ==
    /\ pc = "submit"
    /\ \/ reply = "ok" /\ Goto("receipt") /\ UNCHANGED <<result, lapsed>>
       \/ reply = "error" /\ Reject
    /\ Quiet
    /\ UNCHANGED <<try, reply, cloudState, local, history>>

\* The record is read back, verified and compared, then written down.
VerifyReceipt ==
    /\ pc = "receipt"
    /\ \/ Goto("verified") /\ UNCHANGED <<result, lapsed>>
       \/ Reject
    /\ Quiet
    /\ UNCHANGED <<try, reply, cloudState, local, history>>

WriteVerified ==
    /\ pc = "verified"
    /\ WriteLocal(TRUE) \/ WriteFails(TRUE)
    /\ Reject
    /\ Unwritten
    /\ UNCHANGED <<try, reply, cloudState, history>>

-----------------------------------------------------------------------------
Workflow ==
    \/ Observe \/ InitialRelease \/ ObserveJointState \/ RequestPermit
    \/ BeforeFinalBoundary \/ BeginBoundary \/ ConfirmConfiguration
    \/ ConfirmRelease \/ StartConsume \/ ConsumeSucceeds \/ ConsumeFails
    \/ CrossBoundary \/ ControllerAnswers
    \/ WriteDenial \/ WriteResult \/ Rewrite \/ WriteAbort
    \/ Submitted \/ VerifyReceipt \/ WriteVerified
    \/ Retry \/ Ambiguous

Next ==
    \/ \E what \in Authority : Withdraw(what)
    \/ Lapse
    \/ Crash
    \/ \E p \in Proposal : Receive(p)
    \/ Workflow
    \/ \E m \in network : CloudConsumes(m) \/ CloudStores(m)

Spec == Init /\ [][Next]_vars

-----------------------------------------------------------------------------
(* Properties. *)

\* A proposal reaches the controller at most once, whatever is delivered again
\* and wherever the process crashes (ros2-workflow.ts:425-466, gate.ts:98-99).
AtMostOneDispatch ==
    \A m, n \in dispatched : m # n => proposalOf[m] # proposalOf[n]

\* The controller is called only in a run, on a permit the Cloud has consumed
\* for this very attempt, and only if nothing the boundary checks had been
\* withdrawn when it was entered (gate.ts:143-190).
DispatchWithinAuthority ==
    \A n \in dispatched :
       mode = "run" /\ n \in consumed /\ before[n] = {}

\* What the local file and the submitted Evidence say is so: "consumed" only
\* if the Cloud consumed the permit, "not_consumed" only if no request to do
\* so was ever sent, so that a late one cannot make it false; a signal sent
\* exactly if the controller was called (gate.ts:165-172, ros2-workflow.ts:660-684).
SaysTruly(n, r) ==
    /\ r.consumption = "consumed" => n \in consumed
    /\ r.consumption = "not_consumed" =>
          /\ n \notin consumed
          /\ \A m \in network : m.of = n => m.kind # "consume"
    /\ r.sent <=> n \in dispatched
EvidenceTrue ==
    /\ local # None => SaysTruly(local.of, local.says)
    /\ \A e \in stored : SaysTruly(e.of, e.says)

\* When the workflow is done with a proposal it dispatched, and did not crash,
\* the local file says so, unless two writes in a row failed
\* (ros2-workflow.ts:693-719).
DispatchWrittenDown ==
    (pc = "idle" /\ crashes = 0 /\ writeFailures < 2 /\ attempt \in dispatched)
        => local # None /\ local.of = attempt /\ local.says.sent

\* The Cloud holds at most one record of an attempt, though the submission is
\* repeated and requests arrive late; and none of an attempt that was not
\* written locally first (client.ts:268-277, ros2-workflow.ts:338-365).
StoredOnce ==
    \A e \in stored :
       /\ local # None /\ local.of >= e.of
       /\ \A f \in stored : f.of = e.of => f = e

\* Every proposal that is received is done with, whatever the Cloud leaves
\* unanswered (client.ts:107-168, ros2-workflow.ts:389-721).
AttemptEnds == pc # "idle" ~> pc = "idle"

\* docs/CLOUD_CONTRACT_V1.md:48 "Approval, revocation, and Permit consumption
\* are not blindly retried."
ConsumeSentOnce == \A m \in network : m.kind = "consume" => m.try = 1
=============================================================================
