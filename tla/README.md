# A verification of RLSOK in TLA+

RLSOK decides whether a robot policy release may send one action to a
controller, sends it at most once, and writes down what it decided. This
directory holds TLA+ modules translated from its source, TLC configurations
that check them on small instances, and proofs that TLAPS checks for every
value of the constants. Paths below are relative to the repository.

## 1. The system

A proposal (one JSON document) arrives over ROS 2 or from a file. The runtime
finds the approved release, observes the joint state, the execution
configuration and the running policy, evaluates the release, obtains a
single-use permit, looks at everything again immediately before the controller
is called, calls it, and records evidence. Two callers do this: the *reference
gateway* with a local permit and an evidence file, and the *cloud-connected
workflow* with a permit that the Cloud issues and consumes, and with the replay
registry between delivery and permit.

| component | state it keeps | operations | talks to |
|---|---|---|---|
| replay registry, `packages/cloud-client/replay-registry.ts` | a directory: metadata file, one file per claimed slot | `claim`, `checkReady` | the file system; other processes through it |
| execution gate, `packages/core/execution-gate.ts` | live permits (a map) | `evaluate`, `execute` | providers of the record, configuration and attestation; adapter; evidence sink |
| release policy, configuration binding, attestation, `packages/core/{release-policy,execution-configuration,runtime-attestation}.ts` | none | pure decisions | called by gate and workflow |
| evidence file, `packages/core/evidence.ts`, `apps/cli/ros2.ts` | the chain in memory and its file | `append`, `assertWritableBeforeDispatch` | the file system |
| reference gateway, `packages/ros2-reference-gateway/index.ts` | the `processing` flag, the record store | `start`, `handlePayload`, `revoke` | gate, sidecar, evidence file |
| dispatch boundary, `packages/cloud-client/gate.ts` | used once: permit, phase | `beginFinalBoundary`, `authorizeFinalBoundary`, `dispatch` | Cloud client, workflow |
| cloud workflow, `packages/cloud-client/ros2-workflow.ts` | the result being built | `runProposal`, `persistEvidence` | boundary, registry, Cloud client, sidecar, result file |
| Cloud client, `packages/cloud-client/client.ts` | none between requests | `request` with its retry, permit, consume, evidence, export | the Cloud over HTTP |
| sidecar transport, `packages/ros2-reference-gateway/sidecar.ts` and the Python sidecar | pending requests, child process, sticky error | `request`, `getFreshJointState`, `close` | the ROS graph over a pipe |
| proposal processor, `apps/cli/ros2.ts` | `active` and one pending payload | `submit` | sidecar events, workflow |
| edge boundary, `packages/edge-authorization/snapshot.ts` | used once: `consumed`, `prepared` | `prepare`, `dispatch` | a refresh task, a dispatcher |
| release lifecycle, `packages/core/release-policy.ts` | release records | `transitionRelease` | record stores |
| evidence export, `packages/cloud-client/client.ts` | cursor, pages, records | `exportEvidence`, `verifyEvidenceChain` | the Cloud, which grows meanwhile |
| ROSbot gateway, `packages/husarion-rosbot-gazebo/` and its Python sidecar | seen ids, two counters, pending requests, child | `prepareProposal`, `execute`, `publish` | gate, sidecar, `cmd_vel` mux |
| set-up and pairing, `apps/cli/{setup,pair}.ts`, `packages/cloud-client/credentials.ts` | artifact copies, release and evidence files, credential, `setup.json` | bind, copy, pair, draft, Shadow, complete | the Cloud and its administrator, an operator, other runs |
| installer, `packaging/install.sh` | the installed tree, links, backups | install, rollback | the file system |
| validation session, `apps/cli/validate-external-ros2.ts` | session directory and lock | init, record, finalize, verify, recover | the file system, other processes |
| validation cases, the same file with `examples/external-validation/` | the run directories, the Cloud's records | `record`, `finalize`: which mix of files is accepted | the operator, the Cloud |

The command line around them, the validators of documents and the scripts are
listed with reasons in `PROJECT.json` under `components`.

What is hard to get right, and to test:

* **Races between processes without a lock** (registry): two claims of one
  identity whose scans are stale; the creation of the table by processes that
  were configured differently.
* **Durability** (registry): an answer given before the directory was
  synchronised.
* **Awaits** (gate, workflow): the facts are read one after the other, the
  caller owns the objects, two calls present one permit.
* **Two clocks** (gate, file): permits live on the monotonic clock, evidence is
  dated by the wall clock.
* **Lost and late answers** (client): the client gives up on a request that
  the Cloud processes afterwards.
* **Crashes and failed writes after an irreversible act** (workflow, file).
* **Capacity** (registry, file): the entry that does not fit.
* **A lock that outlives its owner** (validation session): recovery judges one
  lock file and may rename another.
* **Files gathered by hand** (validation cases): evidence, proposal and approval
  of another run, an earlier set-up, an earlier session.
* **A caller's object read later** (edge boundary): the adapter reads the action
  after an await; the snapshot is refreshed beside it.
* **Shared counters** (ROSbot gateway): what a call concludes from the growth of a
  counter that others move too.
* **Shared names** (set-up): copies, releases, credential and `setup.json` of
  several runs on one host.

`PROJECT.json` lists each of them at its line, with the property that covers it
or the reason why none does yet.

What makes each component correct:

* registry: an identity is granted once, for good; refusals are justified; a
  race alone makes nothing unavailable;
* gate: one permit, one dispatch; the content that was authorized, in a world
  that still supports it, in time; evidence that is true and is not lost;
* cloud workflow: one dispatch per proposal, on a permit consumed for it; a
  record that never says more than is known; one record in the Cloud; every
  attempt ends;
* sidecar and processor: what is recorded of a proposal is true of the
  controller, a dispatch has the serial sidecar to itself, no proposal is handled
  twice or forgotten, and everything ends whatever the sidecar leaves undone;
* installer: after any failure and any kill the previous state can be recovered
  or the new one is complete, and the last message is true;
* validation session: one owner of the lock, except after the one race that
  the recovery cannot exclude; the directory that is left behind can be recovered,
  and the lock that is left behind is taken away if it names its owner;
* validation cases: a collection that is accepted tells one story, of one
  session, one release and the runs it names;
* evidence file: what was reported as written survives failure, kill and loss
  of power;
* evidence export: what verifies is the chain of one moment, from its beginning to an
  end that the Cloud had, or everything of one release in it;
* edge boundary: one move at most, of the authorised action, under a snapshot
  that is valid at the hand-over;
* ROSbot gateway: a signal that is denied was none, one that is confirmed was one;
* set-up: a `setup.json` stands for an approval and a Shadow of its artifact.

## 2. Modules

| module | models | state and actions |
|---|---|---|
| `ReplayClaims` | the promise, and `InMemoryProposalReplayRegistry` | `grants`, `asking`; Ask, Grant, Refuse, PowerLoss |
| `ReplayRegistry` | `FileProposalReplayRegistry` | the directory (`meta`, `slots`, what of it is damaged, what is durable) and, per process, the label and locals of the call. One action per system call that other processes can see: open, list one entry, link, synchronise, read back |
| `ReplayRegistryProofs` | | theorems about `ReplayRegistry` |
| `ExecutionGate` | `ReleaseExecutionGate`, `FileEvidenceSink`, the gateway as caller | both clocks, the world (revoked, drifted, runtime), per request what the caller collected and the permit, per `execute` call its label, the evidence. The actions are the stretches of code between two awaits |
| `ExecutionGateProofs` | | theorems about `ExecutionGate` |
| `CloudWorkflow` | `CloudConnectedRos2Workflow`, `CloudConnectedDispatchBoundary`, `RlsokCloudClient` | the attempt with its label and result, the request being sent, the requests on their way, what the Cloud consumed and stored, the local file. One action per await, plus Crash, Withdraw, Lapse |
| `Ros2Runtime` | `PythonRos2SidecarTransport`, the loop of `rlsok_ros2_sidecar.py`, `BoundedProposalProcessor`, the CLI command around them | the requests with their answers, the two pipes, the sidecar process, the goals at the controller, per proposal the progress of its handling. One action per line read, timer, continuation of an await and step of the sidecar |
| `Installer` | `packaging/install.sh` | the three directories, the registrations, the snapshots and the script's variables. One action per command of the script, each of which may fail; Kill |
| `ValidationSession` | the lock and the directory of `rlsok validate external-ros2` | per process its label; the lock, the files, the manifest and the checksums. One action per file operation, each of which may fail; Kill |
| `ValidationCases` | what `record` and `finalize` accept | the runs of the harness, releases, revocations, sessions, the Cloud's chain. The acceptance is a predicate over every combination of what can be handed in |
| `EvidenceFile` | `FileEvidenceSink`, `PrivateResultFile`, `appendEvidence` | the chain in memory, the temporary file, the file and what a loss of power may bring back. One action per write, synchronisation and rename; Kill, PowerLoss, Restart |
| `EvidenceExport` | `exportEvidence`, `verifyEvidenceChain` | the client's cursor and records, the Cloud's chain and its history. One action per page; Grow, Restore |
| `EdgeBoundary` | `EdgeAuthorizedDispatchBoundary` | `consumed`, `prepared`, the caller's object, the epoch and the clock. Dispatch is one synchronous stretch; Consume is the adapter's later read |
| `HusarionGateway` | the ROSbot gateway, its JSONL transport, the loop of its sidecar | per proposal its stage, the two counters, the channel, both pipes, what was published. One action per await, line and step of the sidecar |
| `SetupCommand` | `rlsok setup` with its pairing | per run its stage and locals; the shared files, the Cloud's drafts. One action per file write and per answer of the Cloud; Stop, and an operator who edits |
| `MCHost` | the parts of one host that share no state while they run | the variable `part`, see below |
| `MCEnds` | the fair behaviours of `CloudWorkflow` and of `Ros2Runtime`, which share no state | the variable `part`, the variables of both |
| `HostPartProofs` | | theorems about `EdgeBoundary`, `Installer`, `SetupCommand`, `ValidationCases`, `EvidenceFile` and `EvidenceExport` |
| `ValidationSessionProofs`, `HusarionGatewayProofs`, `CloudWorkflowProofs`, `Ros2RuntimeProofs` | | theorems about the module they are named after |
| `MCHostProofs` | | the same theorems stated of the properties of `MCHost` |
| `MC...` | instances | model values and capacities |

`Ros2Runtime` composes the transport, the processor and the handling of a
proposal, because they meet in one event loop; what the handling decides is
`ExecutionGate`'s and `CloudWorkflow`'s business, and here it is the choice
between `Blocked` and going on.

`MCHost` checks ten small state machines in one run. A behaviour is one of one
part, chosen in `Init`; the variables of the part are `v1`, `v2`, ... and the
others hold `None` throughout. The parts do not interact in the code either: they are
different commands, or (export, edge boundary) objects that
nothing else refers to. Where parts of this repository do interact, they are in one
module instead (`CloudWorkflow`, `Ros2Runtime`, `HusarionGateway`,
`SetupCommand`, and the gate with its evidence in `ExecutionGate`).

Correspondences a reader may want:

* `ScanEntry` lists *any* entry not yet listed, and `ScanEnd` needs only the
  entries present when the directory was opened (`must`): `readdir` owes no
  more. `PowerLoss` keeps any subset of what was not synchronised.
* `PublishSlot` is the hard link with the read of whoever won the place;
  staging files are private and complete before the link, so they are no state.
* In `ExecutionGate`, `call[c].captured` is the copy of action and state that
  `execute` takes before its first await (`execution-gate.ts:508-519`) and
  `call[c].live` what becomes of them in the caller's object. The copy is compared
  with the permit by its hash and the copy is handed to the adapter: a caller that
  rewrites its object meanwhile does not stop the dispatch
  (`tests/releasegate/releaseGate.test.ts:764-777`), and `sent` is a history
  variable that says what the adapter was given. `call[c].terms` is the rest, which
  is compared where the caller keeps it: identifiers, claimed hash, time of the
  state, and the release, whose eligibility is decided by the hash of the caller's
  object. `Yielded` says that no other call is between two awaits: JavaScript runs
  a stretch to its end.
* `Accepts` is the order that `verifyEvidenceBundle` demands and that `append`
  runs on every entry; `Recorded` is the whole of `append`.
* In `CloudWorkflow`, a request the client gave up on stays in `network`, and
  the Cloud may process it at any later time. `IdempotencyKey(n)` is the key
  the second try shares with the first.
* In `Ros2Runtime`, a request's id is its place in `requests`, as in `nextId`;
  `answers[n] = "none"` is a promise not yet settled. `FailChannel` is
  `failChannel`; afterwards `child` is unset, but the process may still answer
  and even send a goal, and its lines are still handled.
* The handling asks for a doctor report in `evaluate` and again in `execute`:
  the case of a release with a version 1 execution configuration
  (`ros2.ts:408-419`). Without one there are fewer requests, not other ones.
* In `ValidationSession`, `looked` is the lock a recovery read and `moved` the one
  that its rename took away: the two differ exactly when another command came
  between them. `Misled` is that case. `wrote` are the locks that name their owner;
  `unsigned` is a history variable, the commands that were killed or failed between
  the creation of their lock and the end of writing it. `Look` judges, as the code
  does, by what the file says.
* In `ValidationCases`, `Piece(c)` is what an operator can put together for the
  case `c` (a run, a proposal, an evidence record), `CaseHolds` is what `record`
  checks of it, and `CrossBound` what `finalize` checks of all of them.
* In `EvidenceFile`, `file` is what processes see and `before` what the directory
  on disk still names; `Synchronise` makes them one. An entry carries the place
  in the file where it ends, so that the size of a file is where its last entry
  ends.
* In `EvidenceExport`, a page has the records of a chain after the cursor by their
  place in it. That place is their sequence number, in every chain there has been.
* In `Ros2Runtime`, `ProposalsAccounted` gives each proposal that was taken up, or
  waits, its place among the arrivals; the places ascend and are those that were
  not turned away.
* In `EdgeBoundary`, `handed` keeps the circumstances of each hand-over and
  `moved` what the adapter read afterwards. `Seen` reads the detached copy;
  its mutated form reads the caller's object.
* In `HusarionGateway`, `attempts` is `dispatchAttemptCount` and `confirmed` is
  `publicationCount`; `published` is what went to `cmd_vel`.
* In `SetupCommand`, a release or evidence file names the run that wrote it
  (`by`), which is how `CompletedIsTrue` can say that the evidence is the run's
  own although two runs may be given one release name.
* In `Installer`, `failed` is the set of commands that failed in this run;
  `Misjudged` names the two kinds of failure that the script handles wrongly,
  and the properties say what holds without them.

## 3. Runs

| run | question | instance |
|---|---|---|
| `replay_registry` | Are grants single and durable, are refusals justified? | 2 processes, 3 identities that start at the same slots, table of 2; 2 faults (damage, I/O, power), 1 kill |
| `replay_registry_mixed` | Different capacities; does it implement the promise, is the invariant of the proofs true? | 2 processes with tables of 3 and 2; 2 identities; 1 fault, 1 kill |
| `execution_gate` | One permit under two concurrent `execute` calls | 1 request, 2 calls, permits of one tick, 1 disturbance (clock set, revocation, drift, restart) |
| `execution_gateway` | Does a dispatch leave evidence when one proposal is handled at a time? Is it in time under a clock that is set? | 3 requests one after the other, permits of two ticks, a file of 2 entries, 1 disturbance, 1 failed write |
| `evidence_refused_after_dispatch` | The comment at `execution-gate.ts:61` | violated, see section 6 |
| `cloud_workflow` | Safety of the cloud-connected run; is a dispatch written down? | 1 proposal delivered twice, 2 failed writes, 1 crash, 2 tries of each mutation |
| `permit_consumption_retried` | The sentence at `docs/CLOUD_CONTRACT_V1.md:48` | violated, see section 6 |
| `ros2_runtime` | Is the outcome of each proposal true, is a dispatch undisturbed, is no proposal lost? | 3 proposals (one handled, one waiting, one refused), 1 malformed line, a sidecar that may die, both modes |
| `everything_ends` | Does every attempt of the workflow end; does every kept proposal and every stop of the command? | 1 delivery with 2 failed writes and 1 crash; 2 proposals; fairness |
| `host` | One or two questions of each part, below | see the table of the parts |
| `rollback_removes_previous` | The message at `install.sh:154` | violated, see section 6 |
| `dead_lock_not_repaired` | The sentence at `docs/EXTERNAL_ROS2_SHADOW_VALIDATION.md:430` | violated, see section 6 |

The parts of `host`:

| part | question | property | instance | states |
|---|---|---|---|---|
| installer | Can the previous state be recovered, is the message true? | `PreviousRecoverable`, `MessageTrue` | every state before that a user can have, 2 failing commands, kills, 2 runs | 98,000 |
| session | One owner of the lock; is what is left recoverable? | `OneOwner`, `Recoverable` | 3 processes with any of the five commands, 1 case, failures and kills | 25,000 |
| lock | The same for the race of recoveries | the same | 4 recoveries that meet a stale lock | 450,000 |
| cases | Does an accepted collection tell one story? | `CollectedIsTrue` | 6 runs of five cases, 1 repetition or new session, times off by one run | 30,000 |
| file | Is what was reported kept? | `EvidenceKept` | a chain and a last result, 4 writes, 5 bytes with a reserve of 2, 3 decision times | 22,000 |
| export | Is what verifies the chain of one moment? | `ExportIsWhole` | pages of 2, at most 3 pages and 5 records, 4 records stored, 2 releases | 230,000 |
| edge | Is there one authorised move? | `OneAuthorizedMove` | 2 calls, 2 actions, clock to 4, 2 epochs | 20,000 |
| rosbot | Are signals accounted for? | `SignalsAccounted` | 2 concurrent proposals with equal or different ids, 2 pending requests | 30,000 |
| crowded | The same when the map of pending requests is full | the same | 2 concurrent proposals, 1 pending request | 24,000 |
| setup | Does `setup.json` tell the truth? | `CompletedIsTrue` | 2 concurrent runs, 2 contents, 2 Clouds, 1 edit by the operator | 370,000 |

Altogether 1.26 million states. Larger instances of single parts that were
checked once, with the same result: the session with 4 processes and all commands
(558,000 states under symmetry), the cases with two repetitions (1.1 million), the export
with 5 stored records (1.8 million).

Symmetry is by hand where a set of interchangeable values would otherwise be
permuted: `NextToStart` (the next process or run to start is a chosen one of those that have
not), `NextCloud` (likewise for Clouds not named yet) and the `CHOOSE` of the
first content in `SetupCommand!Init`. The values have no order and no property
names one, so any behaviour is a renaming of one that is explored.

Why the bounds are enough for the cases that matter. *Registry*: two processes
and two colliding identities are what every race needs; the third identity
fills the table; two faults combine a power loss with a failed synchronisation
or damage. *Gate*: the property about reuse
needs two calls of one permit; a permit lives as long as a state may be old, an
observation may already be as old as allowed when it is made and lapse with the
next tick, the release expires shortly after the start: each may lapse first,
before or after the last check. *Gateway*: three requests meet a file of two entries. *Cloud*: the second
delivery meets the registry, the crash and late requests of the first. *Sidecar*: three proposals are the smallest number that fills the
processor and overflows it; more repeat the cycle. At most three requests are
ever pending, far from the limit of 16: that distance is a consequence of
`DispatchAlone` and the processor. *Installer*: the lies of a rollback need one
failure in the activation and one in the rollback. *Session*: one
process to leave a lock, one to judge it and a third to take its place; the lock
part adds a fourth, so that two misled recoveries can meet. *Cases*: one run of each of the
five cases, and one more, is every mix-up of two. *File*: the smallest file in
which a write fits without the reserve and not with it. *Export*: a
chain longer than a page and one longer than is allowed. *ROSbot*: two calls are what the
shared counters need; with room for one pending request (`crowded`) the second call
is refused at the capacity. *Set-up*: two runs that share a name, a content, a credential or a
Cloud, and one hand that changes a file between two reads.

`CHECK_DEADLOCK FALSE` in the gate, cloud, sidecar, installer and host runs: all
requests of the instance have been handled, the deliveries or runs are used up,
or the command or script has ended, and the system may rest. The
registry runs keep the check: a process can always call again.

**Fairness.** Only `MCEnds!FairSpec` has any. For the workflow it is weak fairness
of the workflow as a whole: the awaited providers answer or fail, and a timer ends
each request. For the ROS 2 command it is weak fairness of each continuation of the
event loop (the command, the handling of each proposal) and of the timers: a
pending request has a time limit, so it cannot stay pending for ever. The registry
needs none: `claim` is synchronous code without a lock or a wait.
Nothing is assumed of the Cloud, of the network, of the sidecar, of the
controller or of the callers.

Every property of a passing run has a mutant in `PROJECT.json`: a plausible bug
in one mapped definition with which the same run fails. The mutated forms stand
in the modules right before the definition they would replace, marked *fault*.

## 4. Proofs

Every theorem is about the specification of its module, for every value of the
constants that meets the named assumption. The form is always the same: an
inductive invariant `IInv`, a lemma per part of it, and the listed theorems as
its consequences. Where a module has many actions, these are first sorted into a few
*kinds* of step that say what a step changes and what it leaves alone, and the
invariant is kept kind by kind.

| module | theorems | assumption |
|---|---|---|
| `ReplayRegistryProofs` | `TypeCorrect`, `InductiveInvariant`, `GrantedAtMostOnce`, `SlotsUnique`, `GrantsSurvivePowerLoss`, `TableSizeKept`, `RefusalsAreJustified`, `UnavailableHasCause`, `RegistryKeepsPromise` | `ConstantsAssumption` |
| `ExecutionGateProofs` | `TypeCorrect`, `PermitsSpentOnce`, `DispatchedWithinAuthority`, `DispatchedInTime`, `EvidenceIsTruthful`, `GatewayLeavesEvidence` | `ConstantsAssumption`; the last one `MaxInFlight = 1` |
| `CloudWorkflowProofs` | `TypeCorrect`, `DispatchedOnce`, `DispatchedWithinAuthority`, `EvidenceIsTrue`, `EvidenceStoredOnce`, `DispatchIsWrittenDown` | `ConstantsAssumption`, `NoneAssumption` |
| `Ros2RuntimeProofs` | `TypeCorrect`, `InductiveInvariant`, `OutcomesAreTrue`, `DispatchIsAlone`, `ProposalsAreAccounted` | `ConstantsAssumption` |
| `HostPartProofs` | `EdgeTypeCorrect`, `MovesOnceAuthorized` | `Edge!Bounds` |
| | `ScriptTypeCorrect`, `PreviousIsRecoverable`, `MessageIsTrue` | `Script!Bounds` |
| | `SetupTypeCorrect`, `CompletedMeansApproved` | `Setup!Distinct` |
| | `CollectedTellsTheTruth` | `Cases!Bounds` |
| | `FileKept` | `File!Distinct` |
| | `ExportWhole` | `Export!Distinct` |
| `ValidationSessionProofs` | `InductiveInvariant`, `TypeCorrect`, `OneOwnerKept`, `LeftRecoverable` | `Distinct` |
| `HusarionGatewayProofs` | `InductiveInvariant`, `TypeCorrect`, `SignalsAreAccounted` | `Bounds` |
| `MCHostProofs` | `EdgeMovesOnce`, `PreviousInHost`, `MessageInHost`, `OneOwnerInHost`, `RecoverableInHost`, `SignalsInHost`, `CompletedInHost`, `CollectedInHost`, `KeptInHost`, `WholeInHost`, `TypesInHost` | `HostAssumption` |

**Replay registry**, for all processes, identities, digests, capacities and
bounds. `AtMostOneGrant` is not inductive: a process that is about to publish
must be known not to hold a stale picture. `IInv` adds

* `CapacityAgreed`: who passed the metadata agrees on the table size;
* `MemoryTrue`: a slot a process noted as taken by another is still taken by
  another (nothing published is deleted while processes live; a power loss
  kills them all);
* `ClaimsReachable`, the heart: a claim for p's identity lies either among the
  entries p's scan must still list, or on a probe path without gaps, which p
  would run into before it could publish (`NoGapBefore`);
* `MineTrue`: a slot between publication and answer belongs to one process and
  is durable when its answer is due;
* `GrantsSpent`: a granted identity has a durable slot that is no longer
  anybody's;
* `SlotsInTable`: slots lie inside the table as the metadata, and every process
  past it, describes it, and there are none while the metadata is to be created;
* `RefusalsRemain`: the slots a refusal was made for are there until the next
  call of the process, or a loss of power;
* `CleanHistory`: without a fault, slots imply metadata, and who was answered
  *unavailable* is configured with another capacity.

One lemma per action shows that the step preserves the parts it can disturb.
`Distance` being injective below the capacity is the arithmetic fact under it.
TLC checks `IInv` in `replay_registry_mixed` too, with unequal capacities.

`RegistryKeepsPromise` is the refinement: `Spec => Promise!Spec`. The label and
the locals of a process are mapped to what it asks for, a published slot and its
synchronisation to nothing, the answer to a grant or a refusal. What has to be
shown of a grant is that it fits: granted identities have slots of their own in
the table of the process that answers, the one just published included, and a
set with an injection into the table is no larger than the table.

**Execution gate**, for any requests, calls of `execute`, limits and bounds
(requests and calls are told apart, `Missing` is none of the values it stands
for the absence of, the limits are numbers). Nothing is assumed about how many
calls run at once, how the caller writes to its objects or how the wall clock is
set. The invariant says what a call that has not yet dispatched holds:

* `Stage`: what `evaluate` and `execute` rely on having read is there;
* `Spent`: a permit is in the map or in the hands of one call, and its request
  can get no second one;
* `Dated`: authorization time and monotonic time in a permit are as far apart as
  the two clocks were when `evaluate` began, so the projected time of the last
  check bounds the age of the state by the monotonic clock alone;
* `Tokens` and `Supported`: if the world did not support the permit when
  `execute` was entered, the reason is still there to be read by a refresh
  to come, or has been read (revocation, drift and a new continuity token
  are never undone), and the check refuses it;
* `Told`: an entry of the file is about a request or call that ended with it.

`GatewayLeavesEvidence` is about the caller that works on one proposal at a time
(`MaxInFlight = 1`), as the gateway's `processing` flag makes it. `OneAtATime`
says that nobody else works while a call of `execute` runs; `Steady` that both
clocks agree as long as nobody set the wall clock, so that everything in the file
is dated before now; `Kept` that a running call has room in the file and that its
entry will be accepted. Without the hypothesis the property is false (section 5).

**Cloud workflow**, for any proposals, deliveries, crashes and failed writes.
The properties speak of finished attempts, while the steps that could break
them work on the current one. `IInv` adds what is known of it at each label:

* `ClaimedOnce`: it claimed a proposal that no dispatched attempt has;
* `StillInForce`: what the boundary has found in force so far was in force when
  it was entered (withdrawals are for good), which makes every later
  confirmation count for the whole boundary;
* `ResultInStep` and `AllTrue`: the result is as far as the label, and it and
  every copy of it, in the file, on its way or in the Cloud, is true;
* `ReportedAlike`: the local file is written first, and all reports of an attempt
  are equal, whichever try sent them: a late request cannot contradict;
* `FailureCounted`: a second write is tried only after a failed one.

`NoneAssumption` says that `None` is not a record.

**Sidecar and processor**, for any proposals and any number of lines that should
not have been written. `OutcomesAreTrue` needs to know that a request is in one
place: `AnswersTrue` says that requests are read once, and that an answer, given
or under way, is about a request the sidecar will not come back to. `OneHandled`,
`OnePlace` and `Subscribed` follow a proposal from the pipe through the slot to
its handling; `OneAwaited`, `DispatchOnce` and `Concluded` tie requests to
progress and to the outcome. `ProposalsAreAccounted` says that there is an assignment
of places, and every step has one to offer: an arrival that is taken up, or waits,
gets the last place (`JoinsInOrder`), one that is turned away leaves the places as
they are (`LeavesInOrder`), and the step from the slot to the handling does not
change the queue. `Accounted` adds what an arrival can have become: turned away, waiting, or in
handling, and nothing that is still in the pipe.

**Validation session**, for any number of commands, any cases and any choice of
the commands that are started (`Distinct`: processes, cases, commands and the names
of files are told apart).
The lock: a lock file is in one place (`OnePlace`); one that a recovery has judged
belongs to a process that is over (`Judged`); so as long as no recovery took away
another file than the one it judged, there is one owner (`Owned`). The directory:
files are added in an order that can be recovered (`Ordered`), because what a
command has still to write fits what is there (`Planned`, `Fits`), whichever commands
run at once. `Legible` adds, of the lock that is left: a lock file that names no
owner belongs to a command that is about to write it, or was stopped there. The second argument does not use the first: what is left is
recoverable even where two commands were at work.

**Edge boundary**, for any actions and calls and for any clock, epochs, clock skew
and lifetimes that are natural numbers. `OneAuthorizedMove` does not say that the
call the adapter still works on is the one that was handed over, nor that a
boundary which is not consumed has handed nothing over. `EdgeCore` adds both: until
`consumed` nothing is handed over; afterwards there is one hand-over, vouched for
by the evidence, and every dispatching call and every move belongs to it.

**Installer**, for any number of runs and of failing commands. A kill may come at
any command, so the invariant says of each command what is already true when it
is about to run: `Advancing` on the way to the installation (what has been set
aside, activated, registered), `Retreating` on the way back (what has been undone).
`Preserved` is why the way back exists: as long as the trees and registrations are
not what they were, the recovery paths hold what they were; `Copied` ties the
snapshots to the registrations they were taken from, `Numbered` and `Housed` the
recovery paths to the run that made them. A failure that leaves the script a wrong
picture (`Misjudged`) is excluded here as in the properties.

**Set-up**, for any runs, Clouds and artifacts (`Distinct`: there is an artifact, a
given id is no random one, absent and torn files are none). `CompletedIsTrue` is
about a run that has ended. `SetupIInv` says of a run under way, stage by stage,
what it may count on although everything it reads is shared: the draft it asked for
is about its artifact and, once decided, is not a draft again (`RunDrafted`); what
the copy held when it was checked (`RunHeld`); a release file under a random id is
its own (`RunOwn`); the Evidence path is reserved by one run (`RunReserved`) and is
not written over once the Shadow's result is in it (`RunObserved`).

**Husarion gateway**, for finitely many calls and any capacity. That a denied
signal was none, and stays none, rests on where a publication can be:

* `Awaited`: the pending requests are those a call waits for, and a channel that
  is not up has none;
* `Silent`: nothing was published, and nothing is in the child's inbox, for a call
  before its dispatch or with an answer that denies;
* `Noticed`: a call after its dispatch has seen the attempts grow since it began.
  This is why the error path can only deny before the dispatch;
* `Once`, `Acknowledged`: a publication is in the inbox, once, or was made, once;
  what was acknowledged was published;
* `Counted`: both counters are the sizes of sets of calls, the confirmed ones all
  published; `OneCallPerId`: an accepted id belongs to one call; `ShadowEnds`.

**Validation cases**, for any number of runs, sessions and set-ups and any clock
skew. What finalize accepts is a predicate over everything that may be handed in, so
the invariant describes what can be handed in: each run leaves one entry in the
Cloud's chain and takes one unit of time (`CaseInStep`); a proposal is numbered and
dated by the run that made it, and other runs only repeat it (`CaseTraced`); the reason
in an entry says of the world at that time what it seems to say (`CaseReasoned`).
`CaseSuffices` then takes the checks of `record` and `finalize` one by one: they fix
which run a piece is from, and the reason a case wants fixes what happened in it.

**Evidence file**, for any limits, times, number of writes and reserve (`File!Distinct`:
a missing or torn file is no chain). `EvidenceKept` looks at the file; the invariant
follows what the process holds (`FileMemory`: the entries in memory are the reported
ones, room that was found is still there) and how far a write has come (`FilePending`:
the contents extend what is there, are synchronised before the rename, and are in the
file before they are reported). A kill or a loss of power leaves the old file or the
new one, and both continue what was reported.

**Evidence export**, for any page size, limits, releases and number of stored records.
Pages are of chains of different moments, and some of those may have lost their end since.
`ExportLinked`: a hash stands for one record in all chains there have been, and names
its predecessor; `ExportSourced`: every record fetched is one of a chain with the same
announced ends. If the records verify, the last one lies in such a chain at its own
place. Assume some earlier record is not the one of that chain: then there is one nearest
to the end (`Least`, well-foundedness of < on the naturals), and its successor, which does
agree, names its hash. So all agree.

**In the host.** A theorem of a component is about its module with variables of its
own; the run `host` checks it for `v1`, `v2`, ... `MCHostProofs` instantiates the
proof modules the way `MCHost` instantiates the components, shows that initial states
and steps agree, and carries the invariants over: `part = "edge" => EdgeIInv` and so on
are kept by `MCHost!Next`, which moves no other part's variables.
`TypesInHost` collects what the invariants of all ten parts say of the types.
`HostAssumption` is the conjunction of the components' assumptions, and TLC evaluates
it in the run.

Only model-checked is what this prover cannot do: liveness under fairness
(`AttemptEnds`, `EverythingEnds`), and with it anything about ENABLED.
Every invariant that a passing run checks, and the refinement, are also theorems. The
library's induction theorems are out of reach too, because they take an operator as a
parameter; where an argument needs induction it is carried by the steps of the
specification, or by a least counterexample as in the export. The mutants and the runs
that end in a violation speak about changed definitions and are TLC's alone.

## 5. Abstractions and what is not modelled

* Hashes compare what they are computed from: in the chains an entry names the
  one before it. The canonical JSON and the schemas are not modelled.
* `EvidenceFile` takes it that no record exceeds the reserve of 512 KiB
  (`apps/cli/ros2.ts:490-492`); whether each record printed is that small is not
  decided here.
* An adapter or a provider takes one step. The call may last: other calls and
  the clocks run between the step that starts it and the one that continues.
* The Cloud is external: it is what the client and the contract document
  assume (consumption and storage are idempotent in the key).
* With the core API alone, and unlike through the gateway, evidence of a
  dispatch can be lost under a steady clock: if a spent permit is presented
  again while the adapter works, the refusal is recorded first and the entry of
  the dispatch, decided earlier, is then out of order. The gateway's
  `processing` flag (`index.ts:269-279`) excludes it; this is why
  `DispatchLeavesEvidence` is checked with `MaxInFlight = 1`.
* Lines that are too long behave like malformed ones. Joint states are part of
  whether the handling goes on.
* A sidecar that exits while no request is pending is noticed by nobody: the
  channel is dead, and a continuous command waits for proposals that cannot come
  until it is told to stop (`sidecar.ts:153-158`). `EverythingEnds` makes no
  claim about it.
* The installer: platform checks and download are left out; the traps of line
  35 do not exit, so a signal is a command that fails; two installers at the
  same time are not modelled.
* The validation session: a process identifier is not reused, and the orphaned
  staging directories are not state: `recover` only lists them.
* The validation cases: the three cases without Cloud evidence and the contents
  of the observer's report are left out. The operator mixes files up; nobody
  forges one.
* The set-up: discovery and the bindings derived from it are the same for every
  run; the questions on the terminal are left out.
* The ROSbot gateway: the gate inside it is reduced to its verdicts, which are
  `ExecutionGate`'s subject.

Not modelled, and why (`PROJECT.json` has the files):

* *UR5e validation* (`apps/cli/validate-ur5e.ts`) is one sequential list of checks of one
  robot, each a read and a comparison; there is no second actor and nothing to
  recover. A model would copy the list.
* *Release lifecycle* is one pure function of a record and a next status, without
  a caller in the running system; *shadow gate* is the gate without permit and adapter.
* *Composable shadow, adapter references, the contract schemas, execution
  specifications* are validators without state: what they accept is data.
* *Observation, compatibility and report commands, profiles, discovery* are
  terminal I/O over single calls of modelled components.
* *Shadow bundle installer, Python SDK, build and release scripts, demo*: one pass without
  anything to undo, or not part of the running system.

## 6. Disagreements found

* The writability check before a dispatch sees the size of the file and not the
  time of the entry: after the wall clock is set back during a dispatch the file
  refuses the entry of an action that was sent
  (`evidence_refused_after_dispatch`).
* The consumption of a permit is sent again after a time limit, with the same
  key, where the contract document says that it is not retried
  (`permit_consumption_retried`). `cloud_workflow` shows that the key keeps it
  harmless if the Cloud honours it.
* When the previous runtime cannot be renamed, the installer's rollback removes
  it and reports that it was restored (`rollback_removes_previous`):
  `HAD_PREVIOUS` is set after the rename, and `rm -rf "$VERSION_ROOT"` does not
  ask for it. A failing `rm` during the rollback is passed over too.
* A validation command that is killed, or whose write fails, between the creation
  of its lock (`validate-external-ros2.ts:478`) and the writing of it (486) leaves a
  lock that names no owner. `recover` refuses it for good (520-524), and every
  other command asks for `recover`, where the document promises that `recover`
  repairs a dead collector lock (`dead_lock_not_repaired`). `Recoverable` says that
  this is the only lock that stays.

What else the models show, where no document says otherwise, or where the code's
own promise is weaker than one may expect:

* Session: a recovery that judged a stale lock can rename the lock of a command
  that came between; `OneOwner` holds but for that.
* Session: `docs/EXTERNAL_ROS2_SHADOW_VALIDATION.md` (about line 430) speaks of
  staging directories among what `recover` repairs; the code lists them and
  changes none.
* Set-up: the stored credential is read again after the pairing check, so
  `setup.json` can name another Cloud than the one the run spoke to; and with one
  `--release-name` at two Clouds the Shadow of a completed run can be of another artifact
  than its digest. `CompletedIsTrue` therefore speaks of the Cloud the run spoke to, and
  says what holds without a shared name.
* ROSbot gateway: `dispatchAttemptCount` is shared, so of two concurrent calls one
  may report a possible signal that was the other's; it never denies one that was.
* Edge boundary: a dispatcher that fails leaves the boundary consumed. Only tests
  call it in this repository.

## 7. Plan

Done so far: everything in section 2, in the order registry, gate, cloud
workflow, sidecar, installer, then the parts of `MCHost`; proofs of every invariant
that the passing runs check and of the registry's refinement. No module has a recursive
operator, so that each can be proved about. Next, in this order:

1. An abstract specification of the dispatch, one permit and one signal, that
   `CloudWorkflow` and `ExecutionGate` both implement.
2. The shadow gate as a second writer of the evidence file.
3. The liveness of the ROSbot gateway's pending requests under its time limits.
