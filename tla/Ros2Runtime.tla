----------------------------- MODULE Ros2Runtime -----------------------------
(***************************************************************************)
(* A ROS 2 command of the CLI from its start to its end: the transport     *)
(* that talks JSON lines to the Python sidecar, the sidecar's serial loop, *)
(* the processor that admits one proposal and keeps one waiting, and the   *)
(* handling of a proposal, which asks the sidecar twice for a doctor       *)
(* report (evaluate() and execute() each observe the configuration) and    *)
(* then dispatches.                                                        *)
(*                                                                         *)
(* Abstractions.  A line is one element of a pipe.  Joint states travel in *)
(* lines too and expire by the clock: whether a fresh one was found is     *)
(* part of whether the gate allows to go on.  A time limit may strike      *)
(* whenever its request is pending; a failed write to the pipe looks the   *)
(* same.  The doctor request repeated while a controller is being          *)
(* discovered, and the refusal of oversized lines, behave like the first   *)
(* request and like a malformed line.                                      *)
(***************************************************************************)
EXTENDS Integers, Sequences, FiniteSets

CONSTANTS
    Proposal,       \* proposals that may be published
    Main,           \* the command itself, as a caller of the transport
    None,           \* no proposal
    MaxBabble       \* bound: lines the sidecar should not have written

ASSUME ConstantsAssumption ==
    /\ Main \notin Proposal
    /\ None \notin Proposal \cup {Main}
    /\ MaxBabble \in Nat

MaximumPendingRequests == 16
Caller == Proposal \cup {Main}
Request == [op : {"ping", "doctor", "dispatch", "shutdown"}, of : Caller]
Answer == {"good", "invalid", "completed", "refused", "unconfirmed", "error"}

VARIABLES
    once,       \* --once: one proposal, not through the processor
    stage,      \* progress of the command
    subscribed, \* the transport has a proposal handler
    child,      \* the transport has a child process
    terminal,   \* the channel has failed, for good
    requests,   \* the requests written so far; a request's id is its place
    answers,    \* answers[n]: how the promise of request n was settled
    pending,    \* ids that await an answer
    waitsFor,   \* waitsFor[x]: the id caller x awaits, 0 if refused at once
    stdin, stdout,
    process,    \* the sidecar process
    work,       \* the id the sidecar is working on, or 0
    goal,       \* goal[p]: what became of p's goal at the controller
    babble,
    active, slot,   \* the processor
    completed,      \* the one proposal of --once has come, or never will
    handling,   \* handling[p]: progress of the handling of p
    outcome,    \* outcome[p]: what the handling of p concluded
    arrived,    \* the proposals given to the processor, in order
    handled,    \* the proposals taken up, in order
    overflowed  \* the proposals turned away

channel == <<subscribed, child, terminal, requests, answers, pending, waitsFor>>
sidecar == <<process, work, goal, babble>>
processor == <<active, slot, completed, arrived, handled, overflowed>>
vars == <<once, stage, channel, stdin, stdout, sidecar, processor, handling, outcome>>

Frames == [id : Nat, answer : Answer] \cup [proposal : Proposal] \cup {[garbage |-> TRUE]}
Stages == {"new", "ping", "doctor", "subscribe", "serving", "close", "closing", "closed"}

TypeOK ==
    /\ once \in BOOLEAN /\ subscribed \in BOOLEAN
    /\ child \in BOOLEAN /\ terminal \in BOOLEAN
    /\ stage \in Stages
    /\ requests \in Seq(Request)
    /\ answers \in [1 .. Len(requests) -> Answer \cup {"none"}]
    /\ pending = {n \in 1 .. Len(requests) : answers[n] = "none"}
    /\ waitsFor \in [Caller -> 0 .. Len(requests)]
    /\ stdin \in Seq(1 .. Len(requests)) /\ stdout \in Seq(Frames)
    /\ process \in {"none", "running", "killed", "gone"}
    /\ child => process \in {"running", "gone"} /\ ~terminal
    /\ work \in 0 .. Len(requests)
    /\ goal \in [Proposal -> {"none", "sent", "refused", "done"}]
    /\ babble \in 0 .. MaxBabble
    /\ active \in BOOLEAN /\ completed \in BOOLEAN
    /\ slot \in Proposal \cup {None}
    /\ handling \in [Proposal -> {"idle", "observe", "refresh", "dispatch", "over"}]
    /\ outcome \in [Proposal -> {"none", "blocked", "refused", "completed", "unknown"}]
    /\ arrived \in Seq(Proposal) /\ handled \in Seq(Proposal)
    /\ overflowed \subseteq Proposal

Init ==
    /\ once \in BOOLEAN
    /\ stage = "new"
    /\ subscribed = FALSE /\ child = FALSE /\ terminal = FALSE
    /\ requests = <<>> /\ answers = <<>> /\ pending = {}
    /\ waitsFor = [x \in Caller |-> 0]
    /\ stdin = <<>> /\ stdout = <<>>
    /\ process = "none" /\ work = 0
    /\ goal = [p \in Proposal |-> "none"]
    /\ babble = 0
    /\ active = FALSE /\ slot = None /\ completed = FALSE
    /\ handling = [p \in Proposal |-> "idle"]
    /\ outcome = [p \in Proposal |-> "none"]
    /\ arrived = <<>> /\ handled = <<>> /\ overflowed = {}

-----------------------------------------------------------------------------
(* The transport. *)

\* request(): a dead or crowded channel refuses at once, otherwise the frame
\* is written and the caller waits.  The first request starts the child.
Ask(x, op) ==
    IF terminal \/ Cardinality(pending) >= MaximumPendingRequests
    THEN /\ waitsFor' = [waitsFor EXCEPT ![x] = 0]
         /\ UNCHANGED <<child, process, requests, answers, pending, stdin>>
    ELSE LET id == Len(requests) + 1
         IN  /\ child' = TRUE
             /\ process' = IF child THEN process ELSE "running"
             /\ requests' = Append(requests, [op |-> op, of |-> x])
             /\ answers' = Append(answers, "none")
             /\ pending' = pending \cup {id}
             /\ waitsFor' = [waitsFor EXCEPT ![x] = id]
             /\ stdin' = Append(stdin, id)

\* failChannel(): every pending promise is rejected, nothing is ever written
\* again, and the child is killed.
ForgottenAnswers == answers                                     \* fault
RejectedAnswers == [n \in DOMAIN answers |->
                      IF n \in pending THEN "error" ELSE answers[n]]
FailChannel ==
    /\ terminal' = TRUE
    /\ child' = FALSE
    /\ answers' = RejectedAnswers
    /\ pending' = {}
    /\ process' = IF child /\ process = "running" THEN "killed" ELSE process
    /\ UNCHANGED <<subscribed, requests, waitsFor>>

Settled(x) == waitsFor[x] \notin pending
Result(x) == IF waitsFor[x] = 0 THEN "error" ELSE answers[waitsFor[x]]

\* The caller's promise is settled; with "none" the promise is lost.
Continues(x) == Settled(x) /\ Result(x) # "none"

\* A timer strikes, or the write of the frame fails.
UntimedShutdown(n) == requests[n].op # "shutdown"               \* fault
Timed(n) == TRUE
Timeout ==
    /\ \E n \in pending : Timed(n)
    /\ FailChannel
    /\ UNCHANGED <<once, stage, stdin, stdout, work, goal, babble, processor,
                   handling, outcome>>

\* The "exit" event of the child.
ChildExits ==
    /\ child /\ process = "gone"
    /\ FailChannel
    /\ UNCHANGED <<once, stage, stdin, stdout, work, goal, babble, processor,
                   handling, outcome>>

-----------------------------------------------------------------------------
(* The processor, and the handling of one proposal. *)

\* Take p up: handlePayload runs to its first doctor report.
TakeUp(p) ==
    /\ handled' = Append(handled, p)
    /\ handling' = [handling EXCEPT ![p] = "observe"]
    /\ Ask(p, "doctor")

Waiting == UNCHANGED <<child, process, requests, answers, pending, waitsFor, stdin>>

\* submit(): one proposal is handled, one waits, the next is turned away.
NeverBusy == FALSE                                              \* fault
Busy == active
Submit(p) ==
    /\ arrived' = Append(arrived, p)
    /\ UNCHANGED completed
    /\ \/ /\ ~Busy
          /\ active' = TRUE
          /\ TakeUp(p)
          /\ UNCHANGED <<slot, overflowed>>
       \/ /\ Busy /\ slot = None
          /\ slot' = p
          /\ UNCHANGED <<active, handled, overflowed, handling>> /\ Waiting
       \/ /\ Busy /\ slot # None
          /\ overflowed' = overflowed \cup {p}
          /\ UNCHANGED <<active, slot, handled, handling>> /\ Waiting

\* --once: the first proposal is evaluated, every later one ignored.
SubmitOnce(p) ==
    /\ \/ /\ ~completed
          /\ completed' = TRUE
          /\ arrived' = Append(arrived, p)
          /\ TakeUp(p)
       \/ /\ completed
          /\ UNCHANGED <<completed, arrived, handled, handling>> /\ Waiting
    /\ UNCHANGED <<active, slot, overflowed>>

\* The handling of p is over; the submit() that ran it takes the next one.
SlotKept == slot                                                \* fault
EmptySlot == None
Finish(p) ==
    /\ \/ /\ ~once /\ slot # None
          /\ handled' = Append(handled, slot)
          /\ handling' = [handling EXCEPT ![p] = "over", ![slot] = "observe"]
          /\ Ask(slot, "doctor")
          /\ slot' = EmptySlot
          /\ UNCHANGED active
       \/ /\ once \/ slot = None
          /\ active' = FALSE
          /\ handling' = [handling EXCEPT ![p] = "over"]
          /\ UNCHANGED <<slot, handled>> /\ Waiting
    /\ UNCHANGED <<subscribed, terminal, completed, arrived, overflowed>>

\* A report that is no report ends the channel; without an observation, or by
\* any other of its checks, the gate refuses and nothing was sent.
Blocked(p) ==
    /\ outcome' = [outcome EXCEPT ![p] = "blocked"]
    /\ Finish(p)

\* doctor() fails the channel on a report it cannot parse, and throws; the
\* caller goes on with no observation, in Goes.
InvalidReport(p) ==
    /\ handling[p] \in {"observe", "refresh"}
    /\ Continues(p) /\ Result(p) = "invalid" /\ ~terminal
    /\ FailChannel
    /\ UNCHANGED <<once, stage, stdin, stdout, work, goal, babble, processor,
                   handling, outcome>>

Goes(p, from, to, op) ==
    /\ handling[p] = from
    /\ Continues(p)
    /\ Result(p) = "invalid" => terminal
    /\ \/ Blocked(p)
       \/ /\ Result(p) = "good"
          /\ handling' = [handling EXCEPT ![p] = to]
          /\ Ask(p, op)
          /\ UNCHANGED <<subscribed, terminal, processor, outcome>>
    /\ UNCHANGED <<once, stage, stdout, work, goal, babble>>

Evaluate(p) == Goes(p, "observe", "refresh", "doctor")
Execute(p) == Goes(p, "refresh", "dispatch", "dispatch")

\* What the answer to the dispatch says of the goal.
OutcomeOptimistic(answer) == IF answer = "completed" THEN answer ELSE "refused"  \* fault
OutcomeOf(answer) ==
    IF answer \in {"completed", "refused"} THEN answer ELSE "unknown"

Conclude(p) ==
    /\ handling[p] = "dispatch"
    /\ Continues(p)
    /\ outcome' = [outcome EXCEPT ![p] = OutcomeOf(Result(p))]
    /\ Finish(p)
    /\ UNCHANGED <<once, stage, stdout, work, goal, babble>>

-----------------------------------------------------------------------------
(* One line from the sidecar.  Lines still come after the channel failed. *)

HandleGarbage(line) ==
    /\ line = [garbage |-> TRUE]
    /\ FailChannel
    /\ UNCHANGED <<stdin, processor, handling>>

\* An answer nobody waits for ends the channel.
HandleReply(line) ==
    /\ line \in [id : Nat, answer : Answer]
    /\ \/ /\ line.id \in pending
          /\ answers' = [answers EXCEPT ![line.id] = line.answer]
          /\ pending' = pending \ {line.id}
          /\ UNCHANGED <<subscribed, child, terminal, requests, waitsFor, process>>
       \/ /\ line.id \notin pending
          /\ FailChannel
    /\ UNCHANGED <<stdin, processor, handling>>

HandleProposal(line) ==
    /\ line \in [proposal : Proposal]
    /\ \/ subscribed /\ ~once /\ Submit(line.proposal)
       \/ subscribed /\ once /\ SubmitOnce(line.proposal)
       \/ ~subscribed /\ UNCHANGED <<processor, handling>> /\ Waiting
    /\ UNCHANGED <<subscribed, terminal>>

HandleLine ==
    /\ stdout # <<>>
    /\ stdout' = Tail(stdout)
    /\ \/ HandleGarbage(Head(stdout))
       \/ HandleReply(Head(stdout))
       \/ HandleProposal(Head(stdout))
    /\ UNCHANGED <<once, stage, work, goal, babble, outcome>>

-----------------------------------------------------------------------------
(* The command. *)

Onward(from, to) == stage = from /\ stage' = to
Unhandled == UNCHANGED <<once, stdout, work, goal, babble, processor, handling, outcome>>

Start ==
    /\ Onward("new", "ping")
    /\ Ask(Main, "ping")
    /\ UNCHANGED <<subscribed, terminal>> /\ Unhandled

\* The first ping settles ensureStarted(), then the doctor report is asked for.
Started ==
    /\ Onward("ping", "doctor")
    /\ Continues(Main) /\ Result(Main) = "good"
    /\ Ask(Main, "doctor")
    /\ UNCHANGED <<subscribed, terminal>> /\ Unhandled

\* The report says that ROS and the controller are there.
Reported ==
    /\ Onward("doctor", "subscribe")
    /\ Continues(Main) /\ Result(Main) = "good"
    /\ UNCHANGED <<channel, stdin, process>> /\ Unhandled

\* The start fails: a request was rejected, the report is invalid, says that
\* something is missing, or the channel is dead when it is subscribed to.
StartFails ==
    /\ stage' = "close"
    /\ \/ /\ stage \in {"ping", "doctor"}
          /\ Continues(Main)
          /\ \/ Result(Main) = "error" /\ UNCHANGED <<channel, process>>
             \/ Result(Main) = "good" /\ stage = "doctor" /\ UNCHANGED <<channel, process>>
             \/ Result(Main) = "invalid" /\ FailChannel
       \/ /\ stage = "subscribe" /\ terminal
          /\ subscribed' = TRUE
          /\ UNCHANGED <<child, terminal, requests, answers, pending, waitsFor, process>>
    /\ UNCHANGED stdin /\ Unhandled

Subscribe ==
    /\ Onward("subscribe", "serving")
    /\ ~terminal
    /\ subscribed' = TRUE
    /\ UNCHANGED <<child, terminal, requests, answers, pending, waitsFor, stdin, process>>
    /\ Unhandled

\* SIGINT, SIGTERM; or the one proposal has been handled.
Stop ==
    /\ Onward("serving", "close")
    /\ once => \E p \in Proposal : handling[p] = "over"
    /\ UNCHANGED <<channel, stdin, process>> /\ Unhandled

\* --once: no proposal came in time.
ProposalTimeout ==
    /\ Onward("serving", "close")
    /\ once /\ ~completed
    /\ completed' = TRUE
    /\ UNCHANGED <<channel, stdin, process, once, stdout, work, goal, babble,
                   active, slot, arrived, handled, overflowed, handling, outcome>>

\* close(): nothing to close, or a shutdown request with a time limit.
Close ==
    /\ \/ ~child /\ Onward("close", "closed") /\ UNCHANGED <<channel, stdin, process>>
       \/ /\ child /\ Onward("close", "closing")
          /\ Ask(Main, "shutdown")
          /\ UNCHANGED <<subscribed, terminal>>
    /\ Unhandled

Closed ==
    /\ Onward("closing", "closed")
    /\ Continues(Main)
    /\ FailChannel
    /\ UNCHANGED stdin /\ Unhandled

-----------------------------------------------------------------------------
(* The sidecar: one request after the other, proposals in between. *)

Alive == process \in {"running", "killed"}
Idle == UNCHANGED <<once, stage, channel, processor, handling, outcome>>
Emit(line) == stdout' = Append(stdout, line)

TakeRequest ==
    /\ Alive /\ work = 0 /\ stdin # <<>>
    /\ work' = Head(stdin)
    /\ stdin' = Tail(stdin)
    /\ UNCHANGED <<stdout, process, goal, babble>> /\ Idle

\* send_goal_async: from here on the controller may act.
SendGoal ==
    /\ Alive /\ work # 0
    /\ requests[work].op = "dispatch" /\ goal[requests[work].of] = "none"
    /\ goal' = [goal EXCEPT ![requests[work].of] = "sent"]
    /\ UNCHANGED <<stdin, stdout, process, work, babble>> /\ Idle

\* What the loop may answer, given what it knows of the goal.
Replies(request) ==
    CASE request.op \in {"ping", "shutdown"} -> {"good"}
      [] request.op = "doctor" -> {"good", "invalid", "error"}
      [] request.op = "dispatch" ->
            LET g == goal[request.of]
            IN  {"error"} \cup (IF g \in {"none", "refused"} THEN {"refused"} ELSE {})
                          \cup (IF g \in {"sent", "done"} THEN {"unconfirmed"} ELSE {})
                          \cup (IF g = "done" THEN {"completed"} ELSE {})

Reply ==
    /\ Alive /\ work # 0
    /\ \E answer \in Replies(requests[work]) : Emit([id |-> work, answer |-> answer])
    /\ work' = 0
    /\ process' = IF requests[work].op = "shutdown" THEN "gone" ELSE process
    /\ UNCHANGED <<stdin, goal, babble>>
    /\ UNCHANGED <<once, stage, channel, processor, handling, outcome>>

PublishProposal(p) ==
    /\ Alive
    /\ \A n \in 1 .. Len(stdout) : stdout[n] # [proposal |-> p]
    /\ handling[p] = "idle" /\ p # slot /\ p \notin overflowed
    /\ Emit([proposal |-> p])
    /\ UNCHANGED <<stdin, process, work, goal, babble>> /\ Idle

\* The sidecar writes a line that is no message, or an answer it owes nobody.
Babble ==
    /\ Alive /\ babble < MaxBabble
    /\ babble' = babble + 1
    /\ Emit([garbage |-> TRUE])
    /\ UNCHANGED <<stdin, process, work, goal>> /\ Idle

SidecarExits ==
    /\ Alive
    /\ process' = "gone"
    /\ work' = 0
    /\ UNCHANGED <<stdin, stdout, goal, babble>> /\ Idle

Controller(p) ==
    /\ goal[p] = "sent"
    /\ \E g \in {"refused", "done"} : goal' = [goal EXCEPT ![p] = g]
    /\ UNCHANGED <<stdin, stdout, process, work, babble>> /\ Idle

-----------------------------------------------------------------------------

Command == Start \/ Started \/ Reported \/ StartFails \/ Subscribe \/ Close \/ Closed

Handle(p) == InvalidReport(p) \/ Evaluate(p) \/ Execute(p) \/ Conclude(p)

Sidecar ==
    \/ TakeRequest \/ SendGoal \/ Reply \/ Babble \/ SidecarExits
    \/ \E p \in Proposal : PublishProposal(p) \/ Controller(p)

Next ==
    \/ Command \/ Stop \/ ProposalTimeout
    \/ HandleLine \/ ChildExits \/ Timeout
    \/ \E p \in Proposal : Handle(p)
    \/ Sidecar

Spec == Init /\ [][Next]_vars

-----------------------------------------------------------------------------
(* Properties. *)

\* What is recorded of a proposal stays true of the controller: "blocked" only
\* if no goal ever left, "refused" only if the controller did not take it,
\* "completed" only if it was carried out (sidecar.ts:90-99, index.ts:436-458).
OutcomeTrue ==
    \A p \in Proposal :
       /\ outcome[p] = "blocked" => goal[p] = "none"
       /\ outcome[p] = "refused" => goal[p] \in {"none", "refused"}
       /\ outcome[p] = "completed" => goal[p] = "done"

\* A dispatch has the serial sidecar to itself, but for the shutdown: no
\* request waits behind it, whose shorter time limit would end the channel and
\* the dispatch with it (sidecar.ts:165-194, ros2.ts:245-282).
DispatchAlone ==
    \A m, n \in pending :
       m # n /\ requests[m].op = "dispatch" => requests[n].op = "shutdown"

Kept == {n \in 1 .. Len(arrived) : arrived[n] \notin overflowed}
Queue == handled \o (IF slot = None THEN <<>> ELSE <<slot>>)

InOrder(place) ==
    /\ \A i \in DOMAIN Queue : Queue[i] = arrived[place[i]]
    /\ \A i, j \in DOMAIN Queue : i < j => place[i] < place[j]
    /\ \A n \in Kept : \E i \in DOMAIN Queue : place[i] = n

\* Each proposal given to the processor is taken up once and in the order of
\* arrival, waits in the slot, or was turned away: what was taken up and what
\* waits are the arrivals that were kept, place by place (ros2.ts:245-282).
ProposalsAccounted == \E place \in [DOMAIN Queue -> Kept] : InOrder(place)

\* Whatever the sidecar does or leaves undone, every proposal that was kept is
\* handled to the end, and a command that is told to stop does
\* (sidecar.ts:113-123, 187-222).
EverythingEnds ==
    /\ \A p \in Proposal : (slot = p \/ handling[p] # "idle") ~> handling[p] = "over"
    /\ stage \in {"close", "closing"} ~> stage = "closed"
=============================================================================
