------------------------- MODULE CloudWorkflowProofs -------------------------
(***************************************************************************)
(* Proofs about the Cloud-connected workflow: a proposal is dispatched at  *)
(* most once and only within its authority, and what the local file and    *)
(* the Cloud's Evidence say of an attempt is so, for every number of       *)
(* deliveries, crashes and failed writes.                                  *)
(*                                                                         *)
(* Each property speaks of finished attempts, while the steps that could   *)
(* break it work on the current one.  The inductive invariant adds what is *)
(* known of the current attempt at each label: what it has claimed, which  *)
(* withdrawals it has excluded, what its result says, and which reports of *)
(* it can exist.                                                           *)
(***************************************************************************)
EXTENDS CloudWorkflow, TLAPS

-----------------------------------------------------------------------------
(* The inductive invariant. *)

\* Labels of an attempt that may still come to dispatch.
Undecided == {"observe", "initial", "unbound", "state", "permit", "hook",
              "boundary", "configuration", "release", "released", "consume",
              "current"}

\* Labels of an attempt whose request to consume was not sent.
Unsent == {"denied", "observe", "initial", "unbound", "state", "permit",
           "hook", "boundary", "configuration", "release", "released", "abort"}

\* Labels of an attempt of which nothing was written down.
Unreported == Undecided \cup {"denied", "controller", "write", "abort"}

\* Labels of an attempt the local file tells of.
Reported == {"submit", "receipt", "verified"}

\* Nothing exists of an attempt that has not begun.
Numbered ==
    /\ pc # "idle" => attempt >= 1
    /\ \A n \in dispatched : n <= attempt
    /\ \A n \in consumed : n <= attempt
    /\ \A m \in network : m.of <= attempt
    /\ \A e \in stored : e.of <= attempt
    /\ local # None => local.of <= attempt

\* What was dispatched is claimed for good, and the attempt under way claimed
\* a proposal that was not.
ClaimedOnce ==
    /\ \A n \in dispatched : mode = "run" /\ proposalOf[n] \in claimed
    /\ pc \in Undecided =>
          /\ proposalOf[attempt] \in claimed
          /\ \A n \in dispatched : proposalOf[n] # proposalOf[attempt]

\* At each label of the boundary, what has been found in force was in force
\* when the boundary was entered: withdrawals are for good.
StillInForce ==
    /\ pc \in {"configuration", "release", "released", "consume", "current"} =>
          before[attempt] \subseteq withdrawn
    /\ pc \in {"release", "released", "consume", "current"} =>
          "configuration" \notin before[attempt]
    /\ pc \in {"released", "consume", "current"} =>
          "cloud_release" \notin before[attempt]
    /\ pc \in {"consume", "current"} => "local_release" \notin before[attempt]

\* The result is as far as the label.
ResultInStep ==
    /\ pc = "idle" => result = Blocked
    /\ pc \in Undecided \cup {"denied", "abort"} => ~result.sent
    /\ pc \in Unsent => result.consumption = "not_consumed"
    /\ pc = "consume" => result.consumption = "unknown"
    /\ pc = "controller" => result.sent
    /\ (pc = "consume" /\ reply = "ok") => attempt \in consumed
    /\ pc \in {"current", "controller"} => result.consumption = "consumed"

\* The result of the attempt under way is true, and so is every report of an
\* attempt, wherever it has got to.
AllTrue ==
    /\ pc # "idle" => SaysTruly(attempt, result)
    /\ local # None => SaysTruly(local.of, local.says)
    /\ \A e \in stored : SaysTruly(e.of, e.says)
    /\ \A m \in network : m.kind = "evidence" => SaysTruly(m.of, m.says)

\* The reports sent to the Cloud.
Reports == stored \cup {m \in network : m.kind = "evidence"}

\* An attempt is reported late, first in the local file, and always alike.
ReportedAlike ==
    /\ pc \in Unreported =>
          /\ local # None => local.of # attempt
          /\ \A r \in Reports : r.of # attempt
    /\ pc \in Reported =>
          /\ local # None /\ local.of = attempt /\ local.says = result
          /\ \A r \in Reports : r.of = attempt => r.says = result
    /\ \A r \in Reports : local # None /\ local.of >= r.of
    /\ \A r, s \in Reports : r.of = s.of => r.says = s.says
    /\ \A e \in stored : e.key = IdempotencyKey(1)

\* A write that failed is on record until the next attempt.
FailureCounted ==
    /\ pc = "rewrite" => writeFailures >= 1
    /\ DispatchWrittenDown

IInv == /\ TypeOK /\ Numbered /\ ClaimedOnce /\ StillInForce /\ ResultInStep
        /\ AllTrue /\ ReportedAlike /\ FailureCounted /\ DispatchWithinAuthority
        /\ AtMostOneDispatch

-----------------------------------------------------------------------------
(* The steps, by what they do. *)

Preparation == Observe \/ InitialRelease \/ ObserveJointState \/ RequestPermit
                  \/ BeforeFinalBoundary
Confirmation == BeginBoundary \/ ConfirmConfiguration \/ ConfirmRelease
Consumption == StartConsume \/ ConsumeSucceeds \/ ConsumeFails
Control == CrossBoundary \/ ControllerAnswers
Writing == WriteDenial \/ WriteResult \/ Rewrite \/ WriteAbort
Receipt == Submitted \/ VerifyReceipt \/ WriteVerified
Client == Retry \/ Ambiguous

USE ConstantsAssumption DEF cloudState, history, bounds, vars, Quiet, Goto, Reject

\* An update of the result is a result.
LEMMA ResultUpdates ==
    ASSUME NEW r \in Results
    PROVE  /\ Blocked \in Results
           /\ \A d \in {"allowed", "blocked", "failed"} :
                 [r EXCEPT !.decision = d] \in Results
           /\ \A c \in {"not_consumed", "consumed", "unknown"} :
                 [r EXCEPT !.consumption = c] \in Results
           /\ [r EXCEPT !.localPermitConsumed = TRUE] \in Results
           /\ [r EXCEPT !.sent = TRUE] \in Results
  BY DEF Results, Blocked

\* Every step leaves a result of the right form.
LEMMA ResultTyped ==
    ASSUME TypeOK, [Next]_vars
    PROVE  result' \in Results
<1>1. result \in Results
  BY DEF TypeOK
<1>2. CASE UNCHANGED result
  BY <1>1, <1>2
<1>3. CASE result' = Blocked
  BY <1>1, <1>3, ResultUpdates
<1>4. CASE BoundaryFails
  BY <1>1, <1>4, ResultUpdates DEF BoundaryFails, Conclude
<1>5. CASE Confirmation
  BY <1>1, <1>2, <1>4, <1>5, ResultUpdates
     DEF Confirmation, BeginBoundary, ConfirmConfiguration, ConfirmRelease
<1>6. CASE Consumption
  BY <1>1, <1>2, <1>4, <1>6, ResultUpdates
     DEF Consumption, StartConsume, ConsumeSucceeds, ConsumeFails, BeforeConsume
<1>7. CASE Control
  BY <1>1, <1>2, <1>4, <1>7, ResultUpdates
     DEF Control, CrossBoundary, ControllerAnswers, Conclude
<1>8. CASE Preparation \/ Writing \/ Receipt \/ Client
  BY <1>1, <1>2, <1>3, <1>8
     DEF Preparation, Writing, Receipt, Client, Observe, InitialRelease,
         ObserveJointState, RequestPermit, BeforeFinalBoundary, Prepare, Conclude,
         WriteDenial, WriteResult, Rewrite, WriteAbort, Submitted, VerifyReceipt,
         WriteVerified, Retry, Ambiguous
<1>9. CASE ~Workflow
  BY <1>1, <1>2, <1>3, <1>9
     DEF Next, Withdraw, Lapse, Crash, Receive, CloudConsumes, CloudStores
<1> QED
  BY <1>5, <1>6, <1>7, <1>8, <1>9
     DEF Workflow, Confirmation, Consumption, Control, Preparation, Writing, Receipt, Client

\* Only messages of the right form are sent, and only records of the right form kept.
LEMMA MessagesTyped ==
    ASSUME TypeOK, Numbered, [Next]_vars
    PROVE  /\ network' \subseteq Requests
           /\ stored' \subseteq Records
           /\ consumed' \subseteq Attempt
           /\ try' \in 1 .. MutationAttempts
<1>0. /\ network \subseteq Requests /\ stored \subseteq Records
      /\ consumed \subseteq Attempt /\ try \in 1 .. MutationAttempts
      /\ result \in Results /\ result' \in Results
      /\ pc # "idle" => attempt \in Attempt
  BY ResultTyped DEF TypeOK, Numbered, Attempt
<1>1. ASSUME NEW kind \in {"consume", "evidence"}, NEW n \in 1 .. MutationAttempts,
             NEW r \in Results, attempt \in Attempt
      PROVE  [kind |-> kind, of |-> attempt, try |-> n, says |-> r] \in Requests
  BY <1>1 DEF Requests
<1>2. ASSUME NEW kind \in {"consume", "evidence"}, NEW n \in 1 .. MutationAttempts,
             Send(kind, n), pc # "idle"
      PROVE  /\ network' \subseteq Requests /\ try' \in 1 .. MutationAttempts
             /\ UNCHANGED <<stored, consumed>>
  BY <1>0, <1>1, <1>2 DEF Send
<1>3. CASE UNCHANGED <<network, stored, consumed>> /\ try' \in {try, 1}
  BY <1>0, <1>3 DEF MutationAttempts
<1>4. CASE Consumption
  <2>1. CASE Send("consume", 1) /\ pc # "idle"
    BY <1>0, <1>2, <2>1 DEF MutationAttempts
  <2>2. CASE UNCHANGED <<try, network, stored, consumed>>
    BY <1>3, <2>2
  <2>3. CASE StartConsume
    BY <2>1, <2>2, <2>3 DEF StartConsume
  <2>4. CASE ConsumeSucceeds \/ ConsumeFails
    <3>1. UNCHANGED <<try, network, stored, consumed>>
      BY <2>4 DEF ConsumeSucceeds, ConsumeFails
    <3> QED
      BY <2>2, <3>1
  <2> QED
    BY <1>4, <2>3, <2>4 DEF Consumption
<1>5. CASE Writing
  <2>1. CASE Send("evidence", 1) /\ pc # "idle"
    BY <1>0, <1>2, <2>1 DEF MutationAttempts
  <2>2. CASE UNCHANGED <<try, network, stored, consumed>>
    BY <1>3, <2>2
  <2>3. CASE WriteDenial \/ WriteResult
    BY <2>1, <2>2, <2>3 DEF WriteDenial, WriteResult
  <2>4. CASE Rewrite \/ WriteAbort
    <3>1. UNCHANGED <<try, network, stored, consumed>>
      BY <2>4 DEF Rewrite, WriteAbort
    <3> QED
      BY <2>2, <3>1
  <2> QED
    BY <1>5, <2>3, <2>4 DEF Writing
<1>6. CASE Client
  <2>1. CASE Retry
    <3>1. try + 1 \in 1 .. MutationAttempts /\ pc # "idle"
      BY <1>0, <2>1 DEF Retry, GivesUp, MayRetry, MutationAttempts
    <3> QED
      BY <1>0, <1>2, <2>1, <3>1 DEF Retry
  <2> QED
    BY <1>3, <1>6, <2>1 DEF Client, Ambiguous
<1>7. ASSUME NEW m \in network, CloudConsumes(m) \/ CloudStores(m)
      PROVE  /\ network' \subseteq network
             /\ consumed' \subseteq consumed \cup {m.of}
             /\ stored' \subseteq
                   stored \cup {[of |-> m.of, key |-> 1, says |-> m.says]}
             /\ UNCHANGED try
  BY <1>7 DEF CloudConsumes, CloudStores, IdempotencyKey
<1>8. ASSUME NEW m \in network
      PROVE  m.of \in Attempt /\ [of |-> m.of, key |-> 1, says |-> m.says] \in Records
  BY <1>0 DEF Requests, Records, MutationAttempts
<1>9. CASE \E m \in network : CloudConsumes(m) \/ CloudStores(m)
  BY <1>0, <1>7, <1>8, <1>9
<1>10. CASE Preparation \/ Confirmation \/ Control \/ Receipt
  BY <1>3, <1>10
     DEF Preparation, Confirmation, Control, Receipt, Observe, InitialRelease,
         ObserveJointState, RequestPermit, BeforeFinalBoundary, Prepare, BeginBoundary,
         ConfirmConfiguration, ConfirmRelease, CrossBoundary, ControllerAnswers,
         Submitted, VerifyReceipt, WriteVerified
<1>11. CASE ~Workflow /\ ~(\E m \in network : CloudConsumes(m) \/ CloudStores(m))
  BY <1>3, <1>11 DEF Next, Withdraw, Lapse, Crash, Receive
<1> QED
  BY <1>4, <1>5, <1>6, <1>9, <1>10, <1>11
     DEF Workflow, Confirmation, Consumption, Control, Preparation, Writing, Receipt, Client

\* The local file holds nothing or a report of an attempt that has begun.
LEMMA LocalStep ==
    ASSUME [Next]_vars
    PROVE  \/ UNCHANGED local
           \/ /\ pc \notin Undecided \cup {"idle"} /\ pc' \notin Unreported
              /\ local' \in {Report(TRUE), Report(FALSE)}
<1>1. CASE Writing \/ Receipt
  BY <1>1 DEF Writing, Receipt, WriteDenial, WriteResult, Rewrite, WriteAbort,
              Submitted, VerifyReceipt, WriteVerified, WriteLocal, WriteFails,
              Undecided, Unreported
<1>2. CASE ~(Writing \/ Receipt)
  BY <1>2 DEF Next, Workflow, Withdraw, Lapse, Crash, Receive, CloudConsumes, CloudStores,
              Observe, InitialRelease, ObserveJointState, RequestPermit,
              BeforeFinalBoundary, Prepare, BeginBoundary, ConfirmConfiguration,
              ConfirmRelease, CrossBoundary, ControllerAnswers, StartConsume,
              ConsumeSucceeds, ConsumeFails, Retry, Ambiguous, Writing, Receipt
<1> QED
  BY <1>1, <1>2

\* Which steps touch which variable, of those only few touch.
LEMMA Frame ==
    ASSUME [Next]_vars
    PROVE  /\ mode' = mode
           /\ \/ UNCHANGED withdrawn
              \/ \E what \in Authority : withdrawn' = withdrawn \cup {what}
           /\ UNCHANGED claimed \/ Crash \/ \E p \in Proposal : Receive(p)
           /\ \/ UNCHANGED <<attempt, proposalOf>>
              \/ pc = "idle" /\ \E p \in Proposal : Receive(p)
           /\ UNCHANGED dispatched \/ (CrossBoundary /\ pc = "current" /\ pc' = "controller")
           /\ UNCHANGED before \/ BeginBoundary
           /\ UNCHANGED crashes \/ (Crash /\ crashes' = crashes + 1)
           /\ UNCHANGED writeFailures \/ writeFailures' = writeFailures + 1
           /\ UNCHANGED lapsed \/ lapsed' \in BOOLEAN
<1>1. CASE Preparation
  BY <1>1 DEF Preparation, Observe, InitialRelease, ObserveJointState, RequestPermit,
              BeforeFinalBoundary, Prepare
<1>2. CASE Confirmation \/ Control
  BY <1>2 DEF Confirmation, Control, BeginBoundary, ConfirmConfiguration,
              ConfirmRelease, CrossBoundary, ControllerAnswers, Conclude
<1>3. CASE Consumption \/ Client
  BY <1>3 DEF Consumption, Client, StartConsume, ConsumeSucceeds, ConsumeFails,
              Retry, Ambiguous
<1>4. CASE Writing \/ Receipt
  BY <1>4 DEF Writing, Receipt, WriteDenial, WriteResult, Rewrite, WriteAbort,
              Submitted, VerifyReceipt, WriteVerified, Unwritten, WriteFails, WriteLocal
<1>5. CASE ~Workflow
  BY <1>5 DEF Next, Withdraw, Lapse, Crash, Receive, CloudConsumes, CloudStores
<1> QED
  BY <1>1, <1>2, <1>3, <1>4, <1>5
     DEF Workflow, Confirmation, Consumption, Control, Preparation, Writing, Receipt, Client

\* Every step keeps the types.
LEMMA TypeStep ==
    ASSUME TypeOK, Numbered, [Next]_vars
    PROVE  TypeOK'
<1>1. result' \in Results
  BY ResultTyped
<1>2. /\ network' \subseteq Requests /\ stored' \subseteq Records
      /\ consumed' \subseteq Attempt /\ try' \in 1 .. MutationAttempts
  BY MessagesTyped
<1>3. local' \in LocalReports \cup {None}
  <2>1. ASSUME NEW v \in BOOLEAN, pc # "idle"
        PROVE  Report(v) \in LocalReports
    BY <2>1 DEF TypeOK, Numbered, Attempt, Report, LocalReports
  <2> QED
    BY <2>1, LocalStep DEF TypeOK
<1>4. /\ mode' = mode /\ withdrawn' \subseteq Authority /\ claimed' \subseteq Proposal
      /\ attempt' \in 0 .. MaxAttempts
      /\ proposalOf' \in [Attempt -> Proposal \cup {None}]
      /\ writeFailures' \in Nat /\ crashes' \in Nat
      /\ dispatched' \subseteq Attempt /\ before' \in [Attempt -> SUBSET Authority]
      /\ lapsed' \in BOOLEAN
  <2>1. withdrawn' \subseteq Authority
    BY Frame DEF TypeOK
  <2>6. claimed' \subseteq Proposal /\ attempt' \in 0 .. MaxAttempts
    <3>1. CASE UNCHANGED <<claimed, attempt>>
      BY <3>1 DEF TypeOK
    <3>2. CASE Crash
      BY <3>2 DEF TypeOK, Crash, SurvivingClaims
    <3>3. ASSUME NEW p \in Proposal, Receive(p)
          PROVE  claimed' \subseteq Proposal /\ attempt' \in 0 .. MaxAttempts
      BY <3>3 DEF TypeOK, Receive
    <3> QED
      BY <3>1, <3>2, <3>3, Frame
  <2>2. proposalOf' \in [Attempt -> Proposal \cup {None}]
    BY Frame DEF TypeOK, Attempt, Crash, Receive
  <2>3. dispatched' \subseteq Attempt
    BY Frame DEF TypeOK, Attempt, CrossBoundary, Numbered
  <2>4. before' \in [Attempt -> SUBSET Authority]
    BY Frame DEF TypeOK, Attempt, BeginBoundary, Numbered
  <2>5. writeFailures' \in Nat /\ crashes' \in Nat /\ lapsed' \in BOOLEAN
    <3>1. writeFailures \in Nat /\ crashes \in Nat /\ lapsed \in BOOLEAN
      BY DEF TypeOK
    <3>2. CASE Crash
      <4>1. writeFailures' \in Nat /\ crashes' \in Nat
        BY <3>1, <3>2 DEF Crash
      <4>2. lapsed' \in BOOLEAN
        BY <3>2, Zenon DEF Crash
      <4> QED
        BY <4>1, <4>2
    <3>3. CASE UNCHANGED crashes
      BY <3>1, <3>3, Frame
    <3> QED
      BY <3>2, <3>3, Frame
  <2> QED
    BY <2>1, <2>2, <2>3, <2>4, <2>5, <2>6, Frame
<1>5. pc' \in Labels /\ reply' \in {"none", "ok", "error"}
  <2>1. CASE Preparation
    BY <2>1 DEF TypeOK, Preparation, Observe, InitialRelease, ObserveJointState, RequestPermit,
                BeforeFinalBoundary, Prepare, Conclude, Labels
  <2>2. CASE Confirmation \/ Control
    BY <2>2 DEF TypeOK, Confirmation, Control, BeginBoundary, ConfirmConfiguration, Conclude,
                ConfirmRelease, CrossBoundary, ControllerAnswers, BoundaryFails, Labels
  <2>3. CASE Consumption \/ Client
    BY <2>3 DEF TypeOK, Consumption, Client, StartConsume, ConsumeSucceeds, ConsumeFails,
                Retry, Ambiguous, Send, Conclude, BoundaryFails, Labels
  <2>4. CASE Writing \/ Receipt
    BY <2>4 DEF TypeOK, Writing, Receipt, WriteDenial, WriteResult, Rewrite, WriteAbort, Send,
                Submitted, VerifyReceipt, WriteVerified, Labels
  <2>5. CASE ~Workflow
    BY <2>5 DEF TypeOK, Next, Withdraw, Lapse, Crash, Receive, CloudConsumes, CloudStores,
                Answers, Labels
  <2> QED
    BY <2>1, <2>2, <2>3, <2>4, <2>5
       DEF Workflow, Confirmation, Consumption, Control, Preparation, Writing, Receipt, Client
<1> QED
  BY <1>1, <1>2, <1>3, <1>4, <1>5 DEF TypeOK

-----------------------------------------------------------------------------
(* What the steps can do: where the labels lead, and what reaches the Cloud. *)

\* An attempt begins with a delivery and is reported once its result is final.
LEMMA Flow ==
    ASSUME [Next]_vars
    PROVE  /\ pc' # "idle" => pc # "idle" \/ \E p \in Proposal : Receive(p)
           /\ pc' \in Undecided =>
                 pc \in Undecided \/ \E p \in Proposal : Receive(p)
           /\ pc' \in Unreported =>
                 pc \in Unreported \/ \E p \in Proposal : Receive(p)
           /\ pc' \in Reported =>
                 \/ pc \in Reported /\ UNCHANGED <<result, local>>
                 \/ /\ pc \in {"denied", "write"}
                    /\ WriteLocal(FALSE) /\ Send("evidence", 1) /\ UNCHANGED result
           /\ pc' = "rewrite" => pc = "rewrite" \/ writeFailures' = writeFailures + 1
<1> USE DEF Undecided, Unreported, Reported
<1>1. CASE Preparation
  BY <1>1 DEF Preparation, Observe, InitialRelease, ObserveJointState, RequestPermit,
              BeforeFinalBoundary, Prepare, Conclude
<1>2. CASE Confirmation \/ Control
  BY <1>2 DEF Confirmation, Control, BeginBoundary, ConfirmConfiguration, Conclude,
              ConfirmRelease, CrossBoundary, ControllerAnswers, BoundaryFails
<1>3. CASE Consumption \/ Client
  BY <1>3 DEF Consumption, Client, StartConsume, ConsumeSucceeds, ConsumeFails,
              Retry, GivesUp, Ambiguous, Conclude, BoundaryFails
<1>4. CASE Writing \/ Receipt
  BY <1>4 DEF Writing, Receipt, WriteDenial, WriteResult, Rewrite, WriteAbort,
              Submitted, VerifyReceipt, WriteVerified, WriteFails
<1>5. CASE \E p \in Proposal : Receive(p)
  <2>1. pc' \notin Reported /\ pc' # "rewrite"
    BY <1>5 DEF Receive
  <2> QED
    BY <1>5, <2>1
<1>6. CASE ~Workflow /\ ~(\E p \in Proposal : Receive(p))
  BY <1>6 DEF Next, Withdraw, Lapse, Crash, CloudConsumes, CloudStores
<1> QED
  BY <1>1, <1>2, <1>3, <1>4, <1>5, <1>6
     DEF Workflow, Confirmation, Consumption, Control, Preparation, Writing, Receipt, Client

\* Requests are sent at four places, and only the Cloud takes them.
LEMMA Traffic ==
    ASSUME [Next]_vars
    PROVE  \/ UNCHANGED <<network, consumed, stored>>
           \/ /\ StartConsume /\ pc = "released" /\ Send("consume", 1)
           \/ /\ pc \in {"denied", "write"} /\ pc' = "submit"
              /\ Send("evidence", 1) /\ WriteLocal(FALSE)
              /\ UNCHANGED <<attempt, result, dispatched>>
           \/ /\ Retry /\ pc = "consume" /\ Send("consume", try + 1)
           \/ /\ Retry /\ pc = "submit" /\ Send("evidence", try + 1)
           \/ \E m \in network : CloudConsumes(m) \/ CloudStores(m)
<1>1. CASE Preparation
  BY <1>1 DEF Preparation, Observe, InitialRelease, ObserveJointState, RequestPermit,
              BeforeFinalBoundary, Prepare
<1>2. CASE Confirmation \/ Control
  BY <1>2 DEF Confirmation, Control, BeginBoundary, ConfirmConfiguration,
              ConfirmRelease, CrossBoundary, ControllerAnswers
<1>3. CASE Consumption
  BY <1>3 DEF Consumption, StartConsume, ConsumeSucceeds, ConsumeFails
<1>4. CASE Client
  BY <1>4 DEF Client, Retry, GivesUp, Ambiguous
<1>5. CASE Writing
  BY <1>5 DEF Writing, WriteDenial, WriteResult, Rewrite, WriteAbort, Unwritten
<1>6. CASE Receipt
  BY <1>6 DEF Receipt, Submitted, VerifyReceipt, WriteVerified
<1>7. CASE ~Workflow
  BY <1>7 DEF Next, Withdraw, Lapse, Crash, Receive
<1> QED
  BY <1>1, <1>2, <1>3, <1>4, <1>5, <1>6, <1>7
     DEF Workflow, Confirmation, Consumption, Control, Preparation, Writing, Receipt, Client

-----------------------------------------------------------------------------
(* Nothing exists of an attempt that has not begun. *)

\* Nothing comes to exist of an attempt before it begins.
LEMMA NumberedStep ==
    ASSUME TypeOK, Numbered, [Next]_vars
    PROVE  Numbered'
<1>0. /\ attempt \in Nat /\ attempt' \in Nat
      /\ \A n \in dispatched \cup consumed : n \in Nat
      /\ \A m \in network : m.of \in Nat
      /\ \A e \in stored : e.of \in Nat
      /\ local # None => local.of \in Nat
      /\ pc # "idle" => attempt >= 1
  BY TypeStep DEF TypeOK, Numbered, Attempt, Requests, Records, LocalReports
<1>1. attempt' >= attempt /\ (pc' # "idle" => attempt' >= 1)
  <2>1. CASE UNCHANGED attempt
    <3>1. ~(\E p \in Proposal : Receive(p))
      BY <1>0, <2>1 DEF Receive
    <3>2. pc' # "idle" => pc # "idle"
      BY <3>1, Flow
    <3> QED
      BY <1>0, <2>1, <3>2
  <2>2. CASE \E p \in Proposal : Receive(p)
    BY <1>0, <2>2 DEF Receive
  <2> QED
    BY <2>1, <2>2, Frame DEF Crash
<1>2. \A n \in dispatched' : n <= attempt'
  BY <1>0, <1>1, Frame DEF Numbered, CrossBoundary
<1>3. /\ \A n \in consumed' : n <= attempt'
      /\ \A m \in network' : m.of <= attempt'
      /\ \A e \in stored' : e.of <= attempt'
  <2>1. CASE UNCHANGED <<network, consumed, stored>>
    BY <1>0, <1>1, <2>1 DEF Numbered
  <2>2. CASE \E kind, n : Send(kind, n)
    BY <1>0, <1>1, <2>2 DEF Numbered, Send
  <2>3. CASE \E m \in network : CloudConsumes(m) \/ CloudStores(m)
    BY <1>0, <1>1, <2>3 DEF Numbered, CloudConsumes, CloudStores
  <2> QED
    BY <2>1, <2>2, <2>3, Traffic
<1>4. local' # None => local.of' <= attempt'
  BY <1>0, <1>1, LocalStep DEF Numbered, Report
<1> QED
  BY <1>1, <1>2, <1>3, <1>4 DEF Numbered

-----------------------------------------------------------------------------
(* At most one dispatch. *)

\* Claims outlive what was dispatched, and an attempt begins with a claim of its own.
LEMMA ClaimedOnceStep ==
    ASSUME TypeOK, Numbered, ClaimedOnce, [Next]_vars
    PROVE  ClaimedOnce'
<1>1. CASE Crash
  BY <1>1 DEF Crash, SurvivingClaims, ClaimedOnce, Undecided
<1>2. ASSUME NEW p \in Proposal, Receive(p)
      PROVE  ClaimedOnce'
  <2>1. /\ dispatched' = dispatched /\ mode' = mode /\ claimed \subseteq claimed'
        /\ attempt' = attempt + 1 /\ attempt \in Nat /\ attempt < MaxAttempts
        /\ proposalOf' = [proposalOf EXCEPT ![attempt + 1] = p]
        /\ pc' \in Undecided => p \notin claimed /\ p \in claimed'
    BY <1>2 DEF Receive, TypeOK, Undecided
  <2>2. /\ proposalOf'[attempt'] = p
        /\ \A n \in dispatched : proposalOf'[n] = proposalOf[n]
    BY <2>1 DEF TypeOK, Attempt, Numbered
  <2> QED
    BY <2>1, <2>2 DEF ClaimedOnce
<1>3. CASE CrossBoundary
  BY <1>3 DEF CrossBoundary, ClaimedOnce, Undecided, BoundaryFails, Conclude
<1>4. CASE UNCHANGED <<claimed, attempt, proposalOf, dispatched>>
  <2>1. ~(\E p \in Proposal : Receive(p))
    <3>1. attempt \in Nat /\ attempt' = attempt
      BY <1>4 DEF TypeOK
    <3> QED
      BY <3>1 DEF Receive
  <2>2. pc' \in Undecided => pc \in Undecided
    BY <2>1, Flow
  <2> QED
    BY <1>4, <2>2, Frame DEF ClaimedOnce
<1> QED
  BY <1>1, <1>2, <1>3, <1>4, Frame

\* No step dispatches a proposal that was dispatched.
LEMMA AtMostOneDispatchStep ==
    ASSUME TypeOK, Numbered, ClaimedOnce, AtMostOneDispatch, [Next]_vars
    PROVE  AtMostOneDispatch'
<1>1. CASE CrossBoundary
  BY <1>1 DEF CrossBoundary, AtMostOneDispatch, ClaimedOnce, Undecided
<1>2. ASSUME dispatched' = dispatched, NEW p \in Proposal, Receive(p)
      PROVE  AtMostOneDispatch'
  <2>1. \A n \in dispatched : proposalOf'[n] = proposalOf[n]
    BY <1>2 DEF Receive, TypeOK, Attempt, Numbered
  <2> QED
    BY <1>2, <2>1 DEF AtMostOneDispatch
<1>3. CASE UNCHANGED <<proposalOf, dispatched>>
  BY <1>3 DEF AtMostOneDispatch
<1> QED
  BY <1>1, <1>2, <1>3, Frame DEF Crash

-----------------------------------------------------------------------------
(* Only within authority. *)

\* Each check of the boundary excludes one withdrawal for the labels after it.
LEMMA StillInForceStep ==
    ASSUME TypeOK, Numbered, StillInForce, [Next]_vars
    PROVE  StillInForce'
<1>1. CASE BeginBoundary
  BY <1>1 DEF BeginBoundary, StillInForce, BoundaryFails, Conclude, TypeOK, Numbered, Attempt
<1>2. CASE ConfirmConfiguration \/ ConfirmRelease
  BY <1>2 DEF ConfirmConfiguration, ConfirmRelease, StillInForce, BoundaryFails, Conclude
<1>3. CASE Consumption
  BY <1>3 DEF Consumption, StartConsume, ConsumeSucceeds, ConsumeFails, StillInForce,
              BoundaryFails, Conclude
<1>4. CASE Control \/ Preparation
  BY <1>4 DEF Control, CrossBoundary, ControllerAnswers, Preparation, Observe,
              InitialRelease, ObserveJointState, RequestPermit, BeforeFinalBoundary,
              Prepare, StillInForce, BoundaryFails, Conclude
<1>5. CASE Writing \/ Receipt
  BY <1>5 DEF Writing, Receipt, WriteDenial, WriteResult, Rewrite, WriteAbort, Submitted,
              VerifyReceipt, WriteVerified, StillInForce
<1>6. CASE \/ Client \/ Lapse \/ Crash
           \/ \E what \in Authority : Withdraw(what)
           \/ \E m \in network : CloudConsumes(m) \/ CloudStores(m)
           \/ UNCHANGED vars
  BY <1>6, Frame DEF Client, Retry, Ambiguous, Withdraw, Lapse, Crash, CloudConsumes,
              CloudStores, StillInForce
<1>7. CASE \E p \in Proposal : Receive(p)
  BY <1>7 DEF Receive, StillInForce
<1> QED
  BY <1>1, <1>2, <1>3, <1>4, <1>5, <1>6, <1>7
     DEF Next, Workflow, Confirmation, Consumption, Control, Preparation, Writing,
         Receipt, Client

\* Each step leaves the result as far as the label it leads to.
LEMMA ResultInStepStep ==
    ASSUME TypeOK, Numbered, ResultInStep, [Next]_vars
    PROVE  ResultInStep'
<1> USE DEF ResultInStep, Undecided, Unsent
<1>0. result \in Results
  BY DEF TypeOK
<1>1. CASE Preparation
  BY <1>1 DEF Preparation, Observe, InitialRelease, ObserveJointState, RequestPermit,
              BeforeFinalBoundary, Prepare, Conclude
<1>2. CASE Confirmation
  BY <1>0, <1>2 DEF Confirmation, BeginBoundary, ConfirmConfiguration, ConfirmRelease,
                    BoundaryFails, Conclude, Results
<1>3. CASE Consumption
  BY <1>0, <1>3 DEF Consumption, StartConsume, ConsumeSucceeds, ConsumeFails, Send,
                    BeforeConsume, BoundaryFails, Conclude, Results
<1>4. CASE Control
  BY <1>0, <1>4 DEF Control, CrossBoundary, ControllerAnswers, BoundaryFails, Conclude,
                    Results
<1>5. CASE Writing \/ Receipt
  BY <1>5 DEF Writing, Receipt, WriteDenial, WriteResult, Rewrite, WriteAbort, Submitted,
              VerifyReceipt, WriteVerified
<1>6. CASE \E m \in network : CloudConsumes(m)
  BY <1>6 DEF CloudConsumes, Answers, Waiting, TypeOK, Requests
<1>7. CASE \E m \in network : CloudStores(m)
  BY <1>7 DEF CloudStores, Answers, Waiting
<1>8. CASE Client \/ Lapse \/ Crash \/ (\E what \in Authority : Withdraw(what))
           \/ UNCHANGED vars
  BY <1>8 DEF Client, Retry, Ambiguous, GivesUp, Send, Withdraw, Lapse, Crash
<1>9. CASE \E p \in Proposal : Receive(p)
  BY <1>9 DEF Receive, Blocked
<1> QED
  BY <1>1, <1>2, <1>3, <1>4, <1>5, <1>6, <1>7, <1>8, <1>9
     DEF Next, Workflow, Confirmation, Consumption, Control, Preparation, Writing,
         Receipt, Client

\* The last step of the boundary finds the permit consumed and nothing withdrawn.
LEMMA DispatchWithinAuthorityStep ==
    ASSUME TypeOK, Numbered, ClaimedOnce, StillInForce, ResultInStep, AllTrue,
           DispatchWithinAuthority, [Next]_vars
    PROVE  DispatchWithinAuthority'
<1>1. CASE CrossBoundary
  <2>1. attempt \in consumed
    BY <1>1 DEF CrossBoundary, ResultInStep, AllTrue, SaysTruly
  <2>2. before[attempt] = {}
    <3>1. before[attempt] \subseteq Authority
      BY <1>1 DEF CrossBoundary, TypeOK, Numbered, Attempt
    <3> QED
      BY <1>1, <3>1 DEF CrossBoundary, StillInForce, Authority
  <2> QED
    BY <1>1, <2>1, <2>2 DEF CrossBoundary, DispatchWithinAuthority
<1>2. CASE BeginBoundary
  BY <1>2 DEF BeginBoundary, DispatchWithinAuthority, ClaimedOnce, Undecided, TypeOK
<1>3. CASE UNCHANGED <<dispatched, before>>
  <2>1. consumed \subseteq consumed'
    BY Traffic DEF Send, CloudConsumes, CloudStores
  <2> QED
    BY <1>3, <2>1, Frame DEF DispatchWithinAuthority
<1> QED
  BY <1>1, <1>2, <1>3, Frame

-----------------------------------------------------------------------------
(* What is reported is so. *)

\* What is true of an attempt stays true, once it has nothing left to send.
LEMMA TruthKept ==
    ASSUME TypeOK, [Next]_vars, NEW n, NEW r, SaysTruly(n, r),
           pc \in Undecided => n # attempt
    PROVE  SaysTruly(n, r)'
<1>1. dispatched' = dispatched \/ (dispatched' = dispatched \cup {attempt} /\ n # attempt)
  BY Frame DEF CrossBoundary, Undecided
<1>2. CASE UNCHANGED <<network, consumed>>
  BY <1>1, <1>2 DEF SaysTruly
<1>3. CASE Send("consume", 1) /\ pc = "released"
  BY <1>1, <1>3 DEF Send, SaysTruly, Undecided
<1>4. CASE Send("consume", try + 1) /\ pc = "consume"
  BY <1>1, <1>4 DEF Send, SaysTruly, Undecided
<1>5. CASE Send("evidence", 1) \/ Send("evidence", try + 1)
  BY <1>1, <1>5 DEF Send, SaysTruly
<1>6. ASSUME NEW m \in network, CloudConsumes(m)
      PROVE  SaysTruly(n, r)'
  BY <1>1, <1>6 DEF CloudConsumes, SaysTruly
<1>7. ASSUME NEW m \in network, CloudStores(m)
      PROVE  SaysTruly(n, r)'
  BY <1>1, <1>7 DEF CloudStores, SaysTruly
<1> QED
  BY <1>2, <1>3, <1>4, <1>5, <1>6, <1>7, Traffic

\* What the workflow makes of the attempt under way is true of it.
LEMMA ResultTrueStep ==
    ASSUME TypeOK, Numbered, ClaimedOnce, ResultInStep, AllTrue, [Next]_vars,
           pc' # "idle"
    PROVE  SaysTruly(attempt, result)'
<1>0. result \in Results /\ (pc # "idle" => SaysTruly(attempt, result))
  BY DEF TypeOK, AllTrue
<1>1. CASE \E p \in Proposal : Receive(p)
  BY <1>1 DEF Receive, TypeOK, Attempt, Numbered, ResultInStep, Blocked, SaysTruly
<1>2. CASE CrossBoundary
  BY <1>0, <1>2 DEF CrossBoundary, ResultInStep, Results, SaysTruly, BoundaryFails,
                    Conclude, Undecided
<1>3. CASE Consumption
  BY <1>0, <1>3 DEF Consumption, StartConsume, ConsumeSucceeds, ConsumeFails, Send,
                    BeforeConsume, BoundaryFails, Conclude, ResultInStep, Results,
                    SaysTruly
<1>4. CASE Retry /\ pc = "consume"
  BY <1>0, <1>4 DEF Retry, Send, ResultInStep, SaysTruly
<1>5. CASE /\ UNCHANGED <<attempt, dispatched, consumed, network>>
           /\ result'.consumption = result.consumption /\ result'.sent = result.sent
           /\ pc # "idle"
  BY <1>0, <1>5 DEF SaysTruly
<1>6. CASE Confirmation \/ ControllerAnswers
  <2>1. /\ result'.consumption = result.consumption /\ result'.sent = result.sent
        /\ UNCHANGED <<attempt, dispatched, consumed, network>> /\ pc # "idle"
    BY <1>0, <1>6 DEF Confirmation, BeginBoundary, ConfirmConfiguration, ConfirmRelease,
                      ControllerAnswers, BoundaryFails, Conclude, Results
  <2> QED
    BY <1>5, <2>1
<1>7. CASE Preparation
  BY <1>0, <1>7 DEF Preparation, Observe, InitialRelease, ObserveJointState, RequestPermit,
                    BeforeFinalBoundary, Prepare, Conclude, ResultInStep, Undecided,
                    Unsent, Blocked, SaysTruly
<1>8. CASE UNCHANGED <<attempt, result>> /\ pc # "idle" /\ pc \notin Undecided
  BY <1>0, <1>8, TruthKept DEF SaysTruly
<1>9. CASE Writing \/ Receipt \/ (Retry /\ pc = "submit")
  <2>1. UNCHANGED <<attempt, result>> /\ pc # "idle" /\ pc \notin Undecided
    BY <1>9 DEF Writing, Receipt, WriteDenial, WriteResult, Rewrite, WriteAbort, Submitted,
                VerifyReceipt, WriteVerified, Retry, Undecided, Unwritten
  <2> QED
    BY <1>8, <2>1
<1>10. ASSUME NEW m \in network, CloudConsumes(m) \/ CloudStores(m)
       PROVE  SaysTruly(attempt, result)'
  BY <1>0, <1>10 DEF CloudConsumes, CloudStores, SaysTruly
<1>11. CASE Ambiguous \/ Lapse \/ Crash \/ (\E what \in Authority : Withdraw(what))
            \/ UNCHANGED vars
  BY <1>0, <1>11 DEF Ambiguous, Lapse, Crash, Withdraw, SaysTruly
<1> QED
  BY <1>1, <1>2, <1>3, <1>4, <1>6, <1>7, <1>9, <1>10, <1>11
     DEF Next, Workflow, Confirmation, Consumption, Control, Preparation, Writing,
         Receipt, Client, Retry, GivesUp

\* The result and every report of it stay true.
LEMMA AllTrueStep ==
    ASSUME TypeOK, Numbered, ClaimedOnce, ResultInStep, AllTrue, ReportedAlike, [Next]_vars
    PROVE  AllTrue'
<1>0. /\ pc # "idle" => SaysTruly(attempt, result)
      /\ local # None => SaysTruly(local.of, local.says)
      /\ \A e \in stored : SaysTruly(e.of, e.says)
      /\ \A m \in network : m.kind = "evidence" => SaysTruly(m.of, m.says)
      /\ pc \in Undecided =>
            /\ local # None => local.of # attempt
            /\ \A e \in stored : e.of # attempt
            /\ \A m \in network : m.kind = "evidence" => m.of # attempt
  BY DEF AllTrue, ReportedAlike, Reports, Unreported
<1>1. pc' # "idle" => SaysTruly(attempt, result)'
  BY ResultTrueStep
<1>2. local' # None => SaysTruly(local.of, local.says)'
  BY <1>0, LocalStep, TruthKept DEF Report, SaysTruly
<1>3. ASSUME NEW m \in network, m.kind = "evidence"
      PROVE  SaysTruly(m.of, m.says)'
  BY <1>0, <1>3, TruthKept
<1>4. \A e \in stored' : SaysTruly(e.of, e.says)'
  <2>1. ASSUME NEW e \in stored
        PROVE  SaysTruly(e.of, e.says)'
    BY <1>0, <2>1, TruthKept
  <2>2. ASSUME NEW m \in network, CloudStores(m)
        PROVE  \A e \in stored' : SaysTruly(e.of, e.says)'
    <3>1. SaysTruly(m.of, m.says)'
      BY <1>3, <2>2 DEF CloudStores
    <3>2. stored' \subseteq stored \cup {[of |-> m.of, key |-> 1, says |-> m.says]}
      BY <2>2 DEF CloudStores, IdempotencyKey
    <3> QED
      BY <2>1, <3>1, <3>2
  <2>3. stored' = stored \/ \E m \in network : CloudStores(m)
    BY Traffic DEF Send, CloudConsumes
  <2> QED
    BY <2>1, <2>2, <2>3
<1>5. \A m \in network' : m.kind = "evidence" => SaysTruly(m.of, m.says)'
  <2>1. ASSUME pc \in {"denied", "write", "submit"}
        PROVE  SaysTruly(attempt, result)
    BY <1>0, <2>1
  <2>2. ASSUME pc \in {"denied", "write", "submit"}, NEW n, Send("evidence", n),
               NEW m \in network', m.kind = "evidence"
        PROVE  SaysTruly(m.of, m.says)'
    BY <1>0, <1>3, <2>1, <2>2, TruthKept DEF Send, Undecided
  <2>3. CASE \E n : Send("consume", n)
    BY <1>3, <2>3 DEF Send
  <2>4. CASE network' \subseteq network
    BY <1>3, <2>4
  <2>5. (\E m \in network : CloudConsumes(m) \/ CloudStores(m)) => network' \subseteq network
    BY DEF CloudConsumes, CloudStores
  <2> QED
    BY <2>2, <2>3, <2>4, <2>5, Traffic
<1> QED
  BY <1>1, <1>2, <1>4, <1>5 DEF AllTrue

-----------------------------------------------------------------------------
(* Every attempt is reported late, first locally, and always alike. *)

\* A report is an old one handed on, or says what the attempt under way came to.
LEMMA ReportsStep ==
    ASSUME ReportedAlike, [Next]_vars, NEW r \in Reports'
    PROVE  \/ \E s \in Reports : s.of = r.of /\ s.says = r.says
           \/ /\ r.of = attempt /\ r.says = result /\ pc' = "submit"
              /\ UNCHANGED <<attempt, result>>
              /\ \/ pc \in {"denied", "write"} /\ local' = Report(FALSE)
                 \/ pc = "submit" /\ local' = local
<1>1. CASE r \in Reports
  BY <1>1
<1>2. CASE \E n : Send("consume", n)
  <2>1. r \in Reports
    BY <1>2 DEF Send, Reports
  <2> QED
    BY <1>1, <2>1
<1>3. CASE /\ pc \in {"denied", "write"} /\ pc' = "submit"
           /\ Send("evidence", 1) /\ WriteLocal(FALSE)
           /\ UNCHANGED <<attempt, result>>
  <2>1. r \in Reports \/ r = [kind |-> "evidence", of |-> attempt, try |-> 1, says |-> result]
    BY <1>3 DEF Send, Reports
  <2> QED
    <3>1. CASE r = [kind |-> "evidence", of |-> attempt, try |-> 1, says |-> result]
      <4>1. r.of = attempt /\ r.says = result
        BY <3>1
      <4> QED
        BY <1>3, <4>1 DEF WriteLocal
    <3> QED
      BY <1>1, <2>1, <3>1
<1>4. CASE Retry /\ pc = "submit" /\ Send("evidence", try + 1)
  <2>1. r \in Reports
           \/ r = [kind |-> "evidence", of |-> attempt, try |-> try + 1, says |-> result]
    BY <1>4 DEF Send, Reports
  <2> QED
    BY <1>1, <1>4, <2>1 DEF Retry
<1>5. ASSUME NEW m \in network, CloudConsumes(m)
      PROVE  \E s \in Reports : s.of = r.of /\ s.says = r.says
  BY <1>1, <1>5 DEF CloudConsumes, Reports
<1>6. ASSUME NEW m \in network, CloudStores(m)
      PROVE  \E s \in Reports : s.of = r.of /\ s.says = r.says
  BY <1>1, <1>6 DEF CloudStores, Reports
<1>7. CASE UNCHANGED <<network, stored>>
  BY <1>1, <1>7 DEF Reports
<1> QED
  BY <1>2, <1>3, <1>4, <1>5, <1>6, <1>7, Traffic

\* Reports keep coming late, locally first and alike.
LEMMA ReportedAlikeStep ==
    ASSUME TypeOK, Numbered, ReportedAlike, [Next]_vars
    PROVE  ReportedAlike'
<1>0. /\ attempt \in Nat
      /\ \A r \in Reports : r.of \in Nat /\ r.of <= attempt
      /\ local # None => local.of \in Nat /\ local.of <= attempt
  BY DEF TypeOK, Reports, Requests, Records, LocalReports, Attempt, Numbered
<1>1. ASSUME pc # "idle"
      PROVE  attempt' = attempt
  BY <1>1, Frame DEF Crash, Receive
<1>2. CASE \E p \in Proposal : Receive(p)
  <2>1. /\ attempt' = attempt + 1 /\ UNCHANGED <<local, network, stored>>
        /\ pc' \notin Reported
    BY <1>2 DEF Receive, Reported
  <2> QED
    BY <1>0, <2>1 DEF ReportedAlike, Reports
<1>3. ASSUME NEW v \in BOOLEAN, pc # "idle"
      PROVE  Report(v) # None
  BY <1>3, NoneAssumption DEF Report, LocalReports, TypeOK, Numbered, Attempt
<1>4. ASSUME ~(\E p \in Proposal : Receive(p))
      PROVE  ReportedAlike'
  <2>1. pc' \in Unreported =>
           /\ local' # None => local'.of # attempt'
           /\ \A r \in Reports' : r.of # attempt'
    <3> SUFFICES ASSUME pc' \in Unreported
                 PROVE  /\ local' # None => local'.of # attempt'
                        /\ \A r \in Reports' : r.of # attempt'
      OBVIOUS
    <3>1. pc \in Unreported /\ attempt' = attempt
      BY <1>1, <1>4, Flow DEF Unreported, Undecided
    <3>2. local' = local
      BY LocalStep
    <3>3. pc' # "submit"
      BY DEF Unreported, Undecided
    <3> QED
      BY <3>1, <3>2, <3>3, ReportsStep DEF ReportedAlike
  <2>2. pc' \in Reported =>
           /\ local' # None /\ local'.of = attempt' /\ local'.says = result'
           /\ \A r \in Reports' : r.of = attempt' => r.says = result'
    <3> SUFFICES ASSUME pc' \in Reported
                 PROVE  /\ local' # None /\ local'.of = attempt' /\ local'.says = result'
                        /\ \A r \in Reports' : r.of = attempt' => r.says = result'
      OBVIOUS
    <3>1. CASE pc \in Reported /\ UNCHANGED <<result, local>>
      <4>1. attempt' = attempt
        BY <1>1, <3>1 DEF Reported
      <4> QED
        BY <3>1, <4>1, ReportsStep DEF ReportedAlike
    <3>2. CASE /\ pc \in {"denied", "write"}
               /\ WriteLocal(FALSE) /\ Send("evidence", 1) /\ UNCHANGED result
      <4>1. attempt' = attempt /\ local' = Report(FALSE) /\ pc \in Unreported
        BY <1>1, <3>2 DEF WriteLocal, Unreported
      <4>2. Report(FALSE) # None
        BY <1>3, <3>2
      <4> QED
        BY <3>2, <4>1, <4>2, ReportsStep DEF ReportedAlike, Report
    <3> QED
      BY <3>1, <3>2, Flow
  <2>3. ASSUME NEW r \in Reports'
        PROVE  local' # None /\ local'.of >= r.of
    <3>1. CASE \E s \in Reports : s.of = r.of /\ s.says = r.says
      <4>1. r.of \in Nat /\ r.of <= attempt /\ local # None /\ local.of >= r.of
        BY <1>0, <3>1 DEF ReportedAlike
      <4>2. \A v \in BOOLEAN : Report(v).of = attempt
        BY DEF Report
      <4> QED
        BY <1>0, <1>3, <4>1, <4>2, LocalStep
    <3>2. CASE /\ r.of = attempt
               /\ \/ pc \in {"denied", "write"} /\ local' = Report(FALSE)
                  \/ pc = "submit" /\ local' = local
      <4>1. Report(FALSE).of = attempt
        BY DEF Report
      <4>2. pc = "submit" => local # None /\ local.of = attempt
        BY DEF ReportedAlike, Reported
      <4>3. attempt >= attempt
        BY <1>0
      <4> QED
        BY <1>3, <3>2, <4>1, <4>2, <4>3
    <3> QED
      BY <3>1, <3>2, ReportsStep
  <2>4. ASSUME NEW r \in Reports', NEW s \in Reports', r.of = s.of
        PROVE  r.says = s.says
    <3>1. ASSUME NEW a \in Reports', NEW b \in Reports', a.of = b.of,
                 \E o \in Reports : o.of = a.of /\ o.says = a.says,
                 b.of = attempt, b.says = result, pc \in {"denied", "write", "submit"}
          PROVE  a.says = b.says
      BY <3>1 DEF ReportedAlike, Unreported, Reported
    <3>2. CASE /\ \E o \in Reports : o.of = r.of /\ o.says = r.says
               /\ \E o \in Reports : o.of = s.of /\ o.says = s.says
      BY <2>4, <3>2 DEF ReportedAlike
    <3>3. \A q \in Reports' :
             \/ \E o \in Reports : o.of = q.of /\ o.says = q.says
             \/ q.of = attempt /\ q.says = result /\ pc \in {"denied", "write", "submit"}
      BY ReportsStep
    <3>4. CASE r.of = attempt /\ r.says = result /\ s.of = attempt /\ s.says = result
      BY <3>4
    <3> QED
      BY <2>4, <3>1, <3>2, <3>3, <3>4
  <2>5. \A e \in stored' : e.key = IdempotencyKey(1)
    <3>1. \A e \in stored : e.key = IdempotencyKey(1)
      BY DEF ReportedAlike
    <3>2. stored' = stored \/ \E m \in network : CloudStores(m)
      BY Traffic DEF Send, CloudConsumes
    <3> QED
      BY <3>1, <3>2 DEF CloudStores, IdempotencyKey
  <2> QED
    BY <2>1, <2>2, <2>3, <2>4, <2>5 DEF ReportedAlike
<1> QED
  BY <1>2, <1>4

-----------------------------------------------------------------------------
(* What was dispatched is written down when the workflow is done with it. *)

\* A dispatched attempt ends in a crash, with its report in the local file, or
\* with a second write that failed.
LEMMA DispatchedEnds ==
    ASSUME TypeOK, Numbered, ResultInStep, AllTrue, ReportedAlike, FailureCounted,
           [Next]_vars, pc # "idle", pc' = "idle", attempt \in dispatched
    PROVE  /\ UNCHANGED <<attempt, dispatched>>
           /\ \/ crashes' > crashes
              \/ local' # None /\ local'.of = attempt /\ local'.says = result
              \/ writeFailures' >= 2
<1>0. /\ crashes \in Nat /\ writeFailures \in Nat
      /\ pc = "rewrite" => writeFailures >= 1
      /\ pc \in Reported => local # None /\ local.of = attempt /\ local.says = result
      /\ result.sent /\ pc \notin Undecided \cup {"denied", "abort"}
  BY DEF TypeOK, FailureCounted, ReportedAlike, AllTrue, SaysTruly, ResultInStep
<1>1. /\ Report(FALSE) # None /\ Report(FALSE).of = attempt /\ Report(FALSE).says = result
      /\ Report(TRUE) # None /\ Report(TRUE).of = attempt /\ Report(TRUE).says = result
  <2>1. Report(FALSE) \in LocalReports /\ Report(TRUE) \in LocalReports
    BY DEF Report, LocalReports, TypeOK, Numbered, Attempt
  <2> QED
    BY <2>1, NoneAssumption DEF Report
<1>2. UNCHANGED <<attempt, dispatched>>
  BY <1>0, Frame DEF Undecided
<1>3. CASE Crash
  BY <1>0, <1>2, <1>3 DEF Crash
<1>4. CASE Rewrite
  <2>1. local' = Report(FALSE) \/ writeFailures' = writeFailures + 1
    BY <1>4 DEF Rewrite, WriteLocal, WriteFails
  <2>2. writeFailures \in Nat /\ writeFailures >= 1
    BY <1>0, <1>4 DEF Rewrite
  <2>3. writeFailures' = writeFailures + 1 => writeFailures' >= 2
    BY <2>2
  <2> QED
    BY <1>1, <1>2, <2>1, <2>3
<1>5. CASE Receipt
  <2>1. pc \in Reported /\ local' \in {local, Report(TRUE)}
    BY <1>5 DEF Receipt, Submitted, VerifyReceipt, WriteVerified, Reported, WriteLocal,
                WriteFails
  <2> QED
    BY <1>0, <1>1, <1>2, <2>1
<1>6. ASSUME ~Crash, ~Rewrite, ~Receipt
      PROVE  FALSE
  <2>1. ~Workflow
    BY <1>0, <1>6 DEF Workflow, Receipt, Observe, InitialRelease, ObserveJointState,
         RequestPermit, BeforeFinalBoundary, Prepare, BeginBoundary, ConfirmConfiguration,
         ConfirmRelease, CrossBoundary, ControllerAnswers, StartConsume, ConsumeSucceeds,
         ConsumeFails, Retry, GivesUp, Ambiguous, WriteDenial, WriteResult, WriteAbort,
         Undecided, Conclude, BoundaryFails
  <2> QED
    BY <1>6, <2>1 DEF Next, Withdraw, Lapse, Receive, CloudConsumes, CloudStores
<1> QED
  BY <1>3, <1>4, <1>5, <1>6

\* A failed write is counted, and a dispatch that is done with is written down.
LEMMA FailureCountedStep ==
    ASSUME TypeOK, Numbered, ResultInStep, AllTrue, ReportedAlike, FailureCounted,
           [Next]_vars
    PROVE  FailureCounted'
<1>0. /\ crashes \in Nat /\ writeFailures \in Nat /\ attempt \in Nat
      /\ crashes' >= crashes /\ writeFailures' >= writeFailures
      /\ crashes' \in Nat /\ writeFailures' \in Nat
  <2>1. crashes \in Nat /\ writeFailures \in Nat /\ attempt \in Nat
    BY DEF TypeOK
  <2> QED
    BY <2>1, Frame
<1>1. pc' = "rewrite" => writeFailures' >= 1
  <2>1. pc = "rewrite" => writeFailures >= 1
    BY DEF FailureCounted
  <2>2. pc' = "rewrite" => pc = "rewrite" \/ writeFailures' = writeFailures + 1
    BY Flow
  <2> QED
    BY <1>0, <2>1, <2>2
<1>2. DispatchWrittenDown'
  <2>1. CASE pc # "idle" /\ pc' = "idle" /\ attempt' \in dispatched'
    <3>1. attempt \in dispatched
      BY <2>1, Frame
    <3>2. result.sent
      BY <2>1, <3>1 DEF AllTrue, SaysTruly
    <3> QED
      <4>1. /\ UNCHANGED <<attempt, dispatched>>
            /\ \/ crashes' > crashes
               \/ local' # None /\ local'.of = attempt /\ local'.says = result
               \/ writeFailures' >= 2
        BY <2>1, <3>1, DispatchedEnds
      <4>2. crashes' = 0 => ~(crashes' > crashes)
        BY <1>0
      <4>3. writeFailures' < 2 => ~(writeFailures' >= 2)
        BY <1>0
      <4> QED
        BY <3>2, <4>1, <4>2, <4>3 DEF DispatchWrittenDown
  <2>2. CASE pc = "idle" /\ ~(\E p \in Proposal : Receive(p))
    <3>1. UNCHANGED <<attempt, dispatched, local>>
      BY <2>2, Frame, LocalStep
    <3>2. crashes' = 0 => crashes = 0
      BY <1>0, Frame
    <3>3. writeFailures' < 2 => writeFailures < 2
      BY <1>0, Frame
    <3> QED
      BY <2>2, <3>1, <3>2, <3>3 DEF FailureCounted, DispatchWrittenDown
  <2>3. CASE \E p \in Proposal : Receive(p)
    BY <1>0, <2>3 DEF Receive, Numbered, DispatchWrittenDown
  <2> QED
    BY <2>1, <2>2, <2>3 DEF DispatchWrittenDown
<1> QED
  BY <1>1, <1>2 DEF FailureCounted

-----------------------------------------------------------------------------
(* The theorems. *)

\* The invariant holds at the start.
LEMMA IInvInit == Init => IInv
<1> SUFFICES ASSUME Init PROVE IInv
  OBVIOUS
<1>1. TypeOK
  <2>1. result \in Results /\ try \in 1 .. MutationAttempts /\ pc \in Labels
    BY DEF Init, Results, Blocked, MutationAttempts, Labels
  <2>2. before \in [Attempt -> SUBSET Authority]
    BY DEF Init
  <2>3. proposalOf \in [Attempt -> Proposal \cup {None}]
    BY DEF Init
  <2>4. lapsed \in BOOLEAN
    BY Zenon DEF Init
  <2> QED
    BY <2>1, <2>2, <2>3, <2>4 DEF Init, TypeOK
<1>2. Numbered /\ ClaimedOnce /\ StillInForce
  BY DEF Init, Numbered, ClaimedOnce, StillInForce, Undecided
<1>3. ResultInStep /\ AllTrue
  BY DEF Init, ResultInStep, AllTrue, Undecided, Unsent, Blocked
<1>4. ReportedAlike
  BY DEF Init, ReportedAlike, Reports, Unreported, Undecided, Reported
<1>5. FailureCounted /\ DispatchWithinAuthority /\ AtMostOneDispatch
  BY DEF Init, FailureCounted, DispatchWrittenDown, DispatchWithinAuthority,
         AtMostOneDispatch
<1> QED
  BY <1>1, <1>2, <1>3, <1>4, <1>5 DEF IInv

\* Every step keeps the invariant.
LEMMA IInvStep == IInv /\ [Next]_vars => IInv'
  BY TypeStep, NumberedStep, ClaimedOnceStep, AtMostOneDispatchStep, StillInForceStep,
     ResultInStepStep, DispatchWithinAuthorityStep, AllTrueStep, ReportedAlikeStep,
     FailureCountedStep DEF IInv

\* The invariant holds always.
LEMMA Inductive == Spec => []IInv
  BY IInvInit, IInvStep, PTL DEF Spec

\* The variables keep their types.
THEOREM TypeCorrect == Spec => []TypeOK
  BY Inductive, PTL DEF IInv

\* A proposal reaches the controller at most once.
THEOREM DispatchedOnce == Spec => []AtMostOneDispatch
  BY Inductive, PTL DEF IInv

\* The controller is called only in a run, with the permit consumed and in force.
THEOREM DispatchedWithinAuthority == Spec => []DispatchWithinAuthority
  BY Inductive, PTL DEF IInv

\* What the local file and the Cloud's Evidence say is so.
THEOREM EvidenceIsTrue == Spec => []EvidenceTrue
<1>1. IInv => EvidenceTrue
  BY DEF IInv, AllTrue, EvidenceTrue
<1> QED
  BY <1>1, Inductive, PTL

\* The Cloud holds one record of an attempt at most, and not before the local file.
THEOREM EvidenceStoredOnce == Spec => []StoredOnce
<1>1. ASSUME IInv
      PROVE  StoredOnce
  <2>1. ASSUME NEW e \in stored, NEW f \in stored, f.of = e.of
        PROVE  f = e
    <3>1. f.says = e.says /\ f.key = e.key
      BY <1>1, <2>1 DEF IInv, ReportedAlike, Reports
    <3>2. e \in Records /\ f \in Records
      BY <1>1 DEF IInv, TypeOK
    <3> QED
      BY <2>1, <3>1, <3>2 DEF Records
  <2>2. \A e \in stored : local # None /\ local.of >= e.of
    BY <1>1 DEF IInv, ReportedAlike, Reports
  <2> QED
    BY <2>1, <2>2 DEF StoredOnce
<1> QED
  BY <1>1, Inductive, PTL

\* When the workflow is done with a proposal it dispatched, the local file says so.
THEOREM DispatchIsWrittenDown == Spec => []DispatchWrittenDown
  BY Inductive, PTL DEF IInv, FailureCounted
=============================================================================
