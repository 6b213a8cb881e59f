------------------------------- MODULE MCEnds -------------------------------
(***************************************************************************)
(* What must end does: the fair behaviours of the cloud-connected workflow *)
(* and of the ROS 2 command, checked by one run of TLC.  The two share no  *)
(* variable; a behaviour is one of `part`, and the other one rests in an   *)
(* initial state.  Fairness is that of the event loop and its timers: the  *)
(* Cloud, the sidecar, the controller and the operator owe nothing.        *)
(***************************************************************************)
EXTENDS Integers, Sequences, FiniteSets

CONSTANTS None, Delivered, MaxAttempts, MaxWriteFailures, MaxCrashes,
  Main, Proposal, MaxBabble

VARIABLES part,
  mode, withdrawn, claimed, attempt, proposalOf, pc, lapsed, result, try,
  reply, network, consumed, stored, local, dispatched, before,
  writeFailures, crashes,
  once, stage, subscribed, child, terminal, requests, answers, pending,
  waitsFor, stdin, stdout, process, work, goal, babble, active, slot,
  completed, handling, outcome, arrived, handled, overflowed

Workflow == INSTANCE CloudWorkflow WITH Proposal <- Delivered
Runtime == INSTANCE Ros2Runtime

workflowVars ==
  <<mode, withdrawn, claimed, attempt, proposalOf, pc, lapsed, result, try,
    reply, network, consumed, stored, local, dispatched, before,
    writeFailures, crashes>>
runtimeVars ==
  <<once, stage, subscribed, child, terminal, requests, answers, pending,
    waitsFor, stdin, stdout, process, work, goal, babble, active, slot,
    completed, handling, outcome, arrived, handled, overflowed>>
vars == <<part, workflowVars, runtimeVars>>

Init ==
  /\ Workflow!Init
  /\ Runtime!Init
  /\ \/ part = "workflow" /\ ~once
     \/ part = "runtime" /\ mode = "run"

Next ==
  /\ UNCHANGED part
  /\ \/ part = "workflow" /\ Workflow!Next /\ UNCHANGED runtimeVars
     \/ part = "runtime" /\ Runtime!Next /\ UNCHANGED workflowVars

Running(p) == part = "runtime" /\ Runtime!Handle(p)

FairSpec ==
  /\ Init /\ [][Next]_vars
  \* Every await of the workflow settles: providers and the controller answer
  \* or fail, and a timer ends every request.
  /\ WF_workflowVars(part = "workflow" /\ Workflow!Workflow)
  \* The event loop runs every continuation that is ready, and timers strike.
  /\ WF_runtimeVars(part = "runtime" /\ Runtime!Command)
  /\ WF_runtimeVars(part = "runtime" /\ Runtime!Timeout)
  /\ \A p \in Proposal : WF_runtimeVars(Running(p))

\* The workflow (ros2-workflow.ts:389-721, client.ts:107-168): every proposal
\* that is received is done with, whatever the Cloud leaves unanswered.
AttemptEnds == Workflow!AttemptEnds

\* The command (sidecar.ts:113-123, 187-222): every proposal that was kept is
\* handled to its end, and a command that is told to stop does.
EverythingEnds == Runtime!EverythingEnds
=============================================================================
