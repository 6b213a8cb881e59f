--------------------------- MODULE HusarionGateway ---------------------------
(***************************************************************************)
(* The Husarion ROSbot gateway (packages/husarion-rosbot-gazebo/index.ts), *)
(* its JSONL transport (sidecar.ts) and the Python sidecar that publishes  *)
(* on cmd_vel (experimental/husarion-rosbot-gazebo/                        *)
(* rlsok_husarion_rosbot_sidecar.py).                                      *)
(*                                                                         *)
(* Several proposals may be in the gateway at once; they share its two     *)
(* counters, the set of proposal ids, the channel and the child.  A call   *)
(* is at a stage; it moves when what it awaits has settled.  The child is  *)
(* a process of its own: it may publish after its caller stopped waiting,  *)
(* until the signal that ends it arrives.                                  *)
(*                                                                         *)
(* Abstractions.  The Core gates are their verdicts here (what they check  *)
(* is the module ExecutionGate): refused or not at evaluate, refused,      *)
(* passed or failed afterwards at execute.  Request identifiers are the    *)
(* pair of the call and the operation, which is as unique.  Execute is     *)
(* called once per prepared proposal, as handleProposal does.              *)
(***************************************************************************)
EXTENDS Integers, Sequences, FiniteSets

CONSTANTS
  Call,        \* calls of prepareProposal
  Id,          \* proposal ids
  Capacity,    \* MAXIMUM_PENDING_REQUESTS
  None         \* no answer, no id

VARIABLES
  mode,           \* options.mode
  id,             \* [Call -> the proposal id it carries]
  stage,          \* [Call -> where it is]
  attemptsBefore, \* [Call -> what execute() read of dispatchAttemptCount]
  answer,         \* [Call -> its HusarionRosbotGatewayResult]
  seen,           \* seenProposalIds
  attempts,       \* dispatchAttemptCount
  confirmed,      \* publicationCount
  channel,        \* none, up (a child), failed (terminalError)
  pending,        \* the Map of pending requests
  odometry,       \* this.state is set
  child,          \* none, running, dead
  inbox,          \* frames written to the child and not read by it
  outbox,         \* replies of the child not read by the gateway
  mux,            \* the mux (and the required observer) reads cmd_vel
  published       \* [Call -> commands published for it on cmd_vel]

gateway == <<mode, id, attemptsBefore, seen, attempts, confirmed>>
transport == <<channel, pending, odometry>>
process == <<child, inbox, outbox, mux, published>>
vars == <<gateway, stage, answer, transport, process>>

Op == {"ping", "wait", "publish"}
Request == [call: Call, op: Op]

\* The answer of a call: its decision and its hardwareSignalSent.
Answer == [decision: {"allowed", "blocked", "failed"}, signal: BOOLEAN]

\* What the theorems assume of the constants.
Bounds ==
  /\ IsFiniteSet(Call) /\ Capacity \in Nat \ {0}
  /\ None \notin Answer

Init ==
  /\ mode \in {"shadow", "run"}
  /\ id = [c \in Call |-> None]
  /\ stage = [c \in Call |-> "idle"]
  /\ attemptsBefore = [c \in Call |-> 0]
  /\ answer = [c \in Call |-> None]
  /\ seen = {} /\ attempts = 0 /\ confirmed = 0
  /\ channel = "none" /\ pending = {} /\ odometry = FALSE
  /\ child = "none" /\ inbox = <<>> /\ outbox = <<>>
  /\ mux \in BOOLEAN
  /\ published = [c \in Call |-> 0]

At(c, s) == stage[c] = s
Goes(c, s) == stage' = [stage EXCEPT ![c] = s]

Answers(c, decision, signal) ==
  /\ answer' = [answer EXCEPT ![c] = [decision |-> decision, signal |-> signal]]
  /\ Goes(c, "answered")

\* Where a call stands once the request it waits for is rejected: readiness of
\* the command path is unknown, or the outcome of the publication is.
Rejected(op) == IF op = "publish" THEN "unacknowledged" ELSE "unready"

\* request(): rejected at once on a failed channel or at the capacity; otherwise
\* written to the child, which a first request starts and pings.
Send(c, op, waiting) ==
  \/ /\ channel = "failed" \/ (channel = "up" /\ Cardinality(pending) >= Capacity)
     /\ Goes(c, Rejected(op))
     /\ UNCHANGED <<transport, child, inbox>>
  \/ /\ channel = "none"
     /\ channel' = "up" /\ child' = "running"
     /\ pending' = pending \cup {[call |-> c, op |-> "ping"]}
     /\ inbox' = Append(inbox, [call |-> c, op |-> "ping"])
     /\ Goes(c, "starting")
     /\ UNCHANGED odometry
  \/ /\ channel = "up" /\ Cardinality(pending) < Capacity
     /\ pending' = pending \cup {[call |-> c, op |-> op]}
     /\ inbox' = Append(inbox, [call |-> c, op |-> op])
     /\ Goes(c, waiting)
     /\ UNCHANGED <<channel, odometry, child>>

(***************************************************************************)
(* prepareProposal                                                         *)
(***************************************************************************)

\* A proposal id is accepted once per process.
Duplicate(p) == p \in seen

Begin(c, p) ==
  /\ At(c, "idle")
  /\ id' = [id EXCEPT ![c] = p]
  /\ IF Duplicate(p)
     THEN Goes(c, "refused") /\ UNCHANGED seen
     ELSE Goes(c, "reading") /\ seen' = seen \cup {p}
  /\ UNCHANGED <<mode, attemptsBefore, attempts, confirmed, answer, transport, process>>

\* The release record, the configuration and the attestation are read; only a
\* failure of the first escapes.
ReadFails(c) ==
  /\ At(c, "reading")
  /\ Goes(c, "refused")
  /\ UNCHANGED <<gateway, answer, transport, process>>

\* waitForCommandPathReady, also again once the child that was started answers.
AskPath(c) ==
  /\ stage[c] \in {"reading", "started"}
  /\ Send(c, "wait", "waiting")
  /\ UNCHANGED <<gateway, answer, outbox, mux, published>>

PathUnavailable(c) ==
  /\ At(c, "unready")
  /\ Answers(c, "failed", FALSE)
  /\ UNCHANGED <<gateway, transport, process>>

\* getOdometryObservation waits for a state up to its deadline; without one, and
\* for every other reason the contract or the gate has, the proposal is blocked.
Block(c) ==
  /\ At(c, "ready")
  /\ Answers(c, "blocked", FALSE)
  /\ UNCHANGED <<gateway, transport, process>>

Allow(c) ==
  /\ At(c, "ready")
  /\ odometry /\ channel = "up"
  /\ IF mode = "shadow"
     THEN Answers(c, "allowed", FALSE)
     ELSE Goes(c, "allowed") /\ UNCHANGED answer
  /\ UNCHANGED <<gateway, transport, process>>

\* The Evidence of the decision cannot be stored: prepareProposal throws.
EvidenceFails(c) ==
  /\ At(c, "ready")
  /\ Goes(c, "refused")
  /\ UNCHANGED <<gateway, answer, transport, process>>

(***************************************************************************)
(* execute                                                                 *)
(***************************************************************************)

Execute(c) ==
  /\ At(c, "allowed")
  /\ attemptsBefore' = [attemptsBefore EXCEPT ![c] = attempts]
  /\ Goes(c, "rechecking")
  /\ UNCHANGED <<mode, id, seen, attempts, confirmed, answer, transport, process>>

\* What the error path says of the signal when only confirmed publications are
\* counted: a published command whose acknowledgement was lost is denied.
ConfirmedOnly(c) == confirmed > attemptsBefore[c]

\* hardwareSignalSent of the error path: an attempt since execute() began, of
\* this call or of another one.
SignalPossible(c) == attempts > attemptsBefore[c]

Fail(c) ==
  /\ Answers(c, "failed", SignalPossible(c))
  /\ UNCHANGED <<gateway, transport, process>>

\* The final checks of the gate refuse, or the Evidence file has no room.
RecheckRefuses(c) == At(c, "rechecking") /\ Fail(c)

Dispatch(c) ==
  /\ At(c, "rechecking")
  /\ attempts' = attempts + 1
  /\ Send(c, "publish", "publishing")
  /\ UNCHANGED <<mode, id, attemptsBefore, seen, confirmed, answer, outbox, mux, published>>

\* The acknowledgement arrived; the gate then stores the Evidence of the dispatch.
Confirm(c) ==
  /\ At(c, "acknowledged")
  /\ confirmed' = confirmed + 1
  /\ Goes(c, "recording")
  /\ UNCHANGED <<mode, id, attemptsBefore, seen, attempts, answer, transport, process>>

Record(c) ==
  /\ At(c, "recording")
  /\ Answers(c, "allowed", TRUE)
  /\ UNCHANGED <<gateway, transport, process>>

\* The publication was refused, or its outcome is unknown, or it was published
\* and the Evidence of it cannot be stored.
OutcomeLost(c) == stage[c] \in {"unacknowledged", "recording"} /\ Fail(c)

(***************************************************************************)
(* The channel                                                             *)
(***************************************************************************)

\* failChannel: every pending request is rejected, nothing is sent any more.
ChannelFails ==
  /\ channel' = "failed"
  /\ pending' = {}
  /\ stage' = [c \in Call |->
       IF \E r \in pending : r.call = c
       THEN Rejected((CHOOSE r \in pending : r.call = c).op)
       ELSE stage[c]]
  /\ UNCHANGED odometry

\* A time limit ends a request; a malformed, oversized or unsolicited frame
\* arrives; a write fails; the exit of the child is noticed; close() is called:
\* the child is told to end, and may not have yet.
ChannelEnds ==
  /\ channel = "up"
  /\ ChannelFails
  /\ UNCHANGED <<gateway, answer, process>>

\* handleLine, for a reply: it settles the request it names.  The child answers
\* each request once, so that one is pending as long as the channel is up.
Settled(op, ok) ==
  CASE op = "ping" -> IF ok THEN "started" ELSE "unready"
    [] op = "wait" -> IF ok THEN "ready" ELSE "unready"
    [] op = "publish" -> IF ok THEN "acknowledged" ELSE "unacknowledged"

Receive ==
  /\ channel = "up" /\ outbox # <<>>
  /\ LET reply == Head(outbox)
         request == [call |-> reply.call, op |-> reply.op] IN
       /\ request \in pending
       /\ pending' = pending \ {request}
       /\ Goes(reply.call, Settled(reply.op, reply.ok))
  /\ outbox' = Tail(outbox)
  /\ UNCHANGED <<gateway, answer, channel, odometry, child, inbox, mux, published>>

\* An odometry event of the child.
Observe ==
  /\ channel = "up" /\ child = "running"
  /\ ~odometry /\ odometry' = TRUE
  /\ UNCHANGED <<gateway, stage, answer, channel, pending, process>>

(***************************************************************************)
(* The child                                                               *)
(***************************************************************************)

\* One request: ping always succeeds, wait says whether the mux was there, and
\* publish publishes when it is there.  The reply of a child whose channel has
\* failed goes nowhere.
Serve ==
  /\ child = "running" /\ inbox # <<>>
  /\ LET r == Head(inbox)
         ok == r.op = "ping" \/ mux IN
       /\ published' = IF r.op = "publish" /\ ok
                       THEN [published EXCEPT ![r.call] = @ + 1] ELSE published
       /\ outbox' = IF channel = "up"
                    THEN Append(outbox, [call |-> r.call, op |-> r.op, ok |-> ok]) ELSE <<>>
  /\ inbox' = Tail(inbox)
  /\ UNCHANGED <<gateway, stage, answer, transport, child, mux>>

\* It ends: at the signal of failChannel, or by itself between any two steps.
Die ==
  /\ child = "running"
  /\ child' = "dead"
  /\ inbox' = <<>>
  /\ UNCHANGED <<gateway, stage, answer, transport, outbox, mux, published>>

MuxChanges ==
  /\ mux' = ~mux
  /\ UNCHANGED <<gateway, stage, answer, transport, child, inbox, outbox, published>>

Prepare(c) ==
  \/ \E p \in Id : Begin(c, p)
  \/ ReadFails(c) \/ AskPath(c) \/ PathUnavailable(c)
  \/ Block(c) \/ Allow(c) \/ EvidenceFails(c)

Run(c) ==
  \/ Execute(c) \/ RecheckRefuses(c) \/ Dispatch(c)
  \/ Confirm(c) \/ Record(c) \/ OutcomeLost(c)

Next ==
  \/ \E c \in Call : Prepare(c) \/ Run(c)
  \/ ChannelEnds \/ Receive \/ Observe
  \/ Serve \/ Die \/ MuxChanges

Spec == Init /\ [][Next]_vars

TypeOK ==
  /\ mode \in {"shadow", "run"}
  /\ id \in [Call -> Id \cup {None}]
  /\ stage \in [Call -> {"idle", "refused", "reading", "starting", "started", "waiting",
                         "unready", "ready", "allowed", "rechecking", "publishing",
                         "acknowledged", "unacknowledged", "recording", "answered"}]
  /\ attemptsBefore \in [Call -> 0 .. Cardinality(Call)]
  /\ \A c \in Call : answer[c] \in Answer \cup {None}
  /\ seen \subseteq Id
  /\ attempts \in 0 .. Cardinality(Call) /\ confirmed \in 0 .. Cardinality(Call)
  /\ channel \in {"none", "up", "failed"}
  /\ pending \subseteq Request /\ Cardinality(pending) <= Capacity
  /\ odometry \in BOOLEAN
  /\ child \in {"none", "running", "dead"}
  /\ inbox \in Seq(Request)
  /\ \A i \in 1 .. Len(outbox) : outbox[i] \in [call: Call, op: Op, ok: BOOLEAN]
  /\ mux \in BOOLEAN
  /\ published \in [Call -> 0 .. Cardinality(Call)]

\* A publication of this call that may still happen: the child has its request.
MayPublish(c) ==
  child = "running" /\ \E i \in 1 .. Len(inbox) : inbox[i] = [call |-> c, op |-> "publish"]

\* Whatever is lost, late or refused between the gateway and its child, and
\* whichever other proposals share the counters: an answer that denies a hardware
\* signal is true and stays true (nothing was published for the proposal, and
\* nothing is on its way to be); an answer that allows, in Run, follows exactly one
\* publication; a proposal id is published at most once; Shadow publishes nothing.
SignalsAccounted ==
  /\ \A c \in Call : answer[c] # None =>
       /\ ~answer[c].signal => published[c] = 0 /\ ~MayPublish(c)
       /\ answer[c].decision = "allowed" /\ mode = "run" => published[c] = 1
  /\ \A c \in Call : published[c] <= 1
  /\ \A c, d \in Call : c # d /\ published[c] + published[d] = 2 => id[c] # id[d]
  /\ mode = "shadow" => \A c \in Call : published[c] = 0
  /\ confirmed <= Cardinality({c \in Call : published[c] = 1})
=============================================================================
