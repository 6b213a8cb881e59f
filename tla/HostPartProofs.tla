---------------------------- MODULE HostPartProofs ----------------------------
(***************************************************************************)
(* Theorems about six of the smaller parts of the host, for every value of *)
(* their constants:                                                        *)
(*   - EdgeBoundary, the final write boundary of                           *)
(*     packages/edge-authorization/snapshot.ts;                            *)
(*   - Installer, the runtime installer packaging/install.sh;              *)
(*   - SetupCommand, `rlsok setup` with the pairing it starts              *)
(*     (apps/cli/setup.ts, apps/cli/pair.ts);                              *)
(*   - ValidationCases, the cases a validation session collects            *)
(*     (apps/cli/validate-external-ros2.ts);                               *)
(*   - EvidenceFile, the Evidence sink of apps/cli/ros2.ts;                *)
(*   - EvidenceExport, the export of a Cloud chain                         *)
(*     (packages/cloud-client/client.ts).                                  *)
(* They share nothing but this file: each is an instance under its own     *)
(* name, and has variables of its own here.                                *)
(***************************************************************************)
EXTENDS Integers, Sequences, FiniteSets, FiniteSetTheorems, SequenceTheorems,
        WellFoundedInduction, TLAPS

CONSTANTS Action, Bound, Call, MaxTime, MaxEpoch, Skew, MaximumLifetime, None,
          MaxFailures, MaxRuns,
          Run, Content, Cloud, Named, MaxEdits, Torn,
          MaxCases, MaxExtra,
          MaxBytes, RecordReserve, MaxAppends, LastTime,
          PageSize, MaxPages, MaxRecords, AnyRelease, MaxStored

VARIABLES now, minimum, object, consumed, prepared, evidence, call, moved, handed

VARIABLES version, staged, rollback, registered, site, backup, saved, phase, at,
          undoing, hadPrevious, siteExisted, said, run, failed, before

VARIABLES stage, source, digest, name, target, key, pairing, granted, credential,
          copy, releaseFile, evidenceFile, draft, held, ran, state, edits

VARIABLES clock, session, approved, revoked, runs, chain, extra

VARIABLES kind, step, entries, pending, room, temporary, file, earlier, reported,
          refused, asked

VARIABLES log, seen, stored, releaseFilter, cursor, pages, records, first, last,
          outcome

Edge == INSTANCE EdgeBoundary
Script == INSTANCE Installer
Setup == INSTANCE SetupCommand WITH evidence <- evidenceFile
Cases == INSTANCE ValidationCases WITH now <- clock, MaxRuns <- MaxCases
File == INSTANCE EvidenceFile WITH
    said <- reported, before <- earlier, MaxTime <- LastTime, Reserve <- RecordReserve
Export == INSTANCE EvidenceExport WITH
    chain <- log, MaxAppends <- MaxStored, Release <- AnyRelease

\* The instances count as this module does.
LEMMA EdgeCardinality == \A S : Edge!Cardinality(S) = Cardinality(S)
  BY DEF Edge!Cardinality, Edge!IsFiniteSet, Cardinality, IsFiniteSet
LEMMA ScriptCardinality == \A S : Script!Cardinality(S) = Cardinality(S)
  BY DEF Script!Cardinality, Script!IsFiniteSet, Cardinality, IsFiniteSet

-----------------------------------------------------------------------------
(* EdgeBoundary.  OneAuthorizedMove is not inductive: it does not say that a   *)
(* call which the adapter still works on is the one that was handed over, nor  *)
(* that a boundary which is not consumed has handed nothing over.  EdgeIInv    *)
(* does.                                                                       *)

\* The circumstances h of a hand-over agree with the Evidence.
EdgeVouched(h) ==
  /\ evidence # None
  /\ evidence.for = h.action
  /\ evidence.intact /\ evidence.known
  /\ evidence.epoch >= h.minimum
  /\ h.at < evidence.expires
  /\ evidence.issued - Skew <= h.at
  /\ h.at - evidence.issued < MaximumLifetime

\* A boundary is consumed before it hands anything over, and what the adapter
\* has moved is what its call was handed.
EdgeCore ==
  /\ ~consumed => handed = {}
  /\ evidence # None => handed # {}
  /\ handed # {} => \E h \in handed : handed = {h} /\ EdgeVouched(h)
  /\ \A c \in Call : call[c] = "dispatching" => \E h \in handed : h.call = c
  /\ \A m \in moved : /\ call[m.call] = "sent"
                      /\ \E h \in handed : m.call = h.call /\ m.action = evidence.for

EdgeIInv == Edge!TypeOK /\ EdgeCore

\* The initial state has its types.
LEMMA EdgeInitTypeOK == Edge!Bounds /\ Edge!Init => Edge!TypeOK
<1> SUFFICES ASSUME Edge!Bounds, Edge!Init PROVE Edge!TypeOK
  OBVIOUS
<1>1. now \in 0 .. MaxTime /\ minimum \in 0 .. MaxEpoch
  BY DEF Edge!Bounds, Edge!Init
<1>2. object \in Action /\ consumed \in BOOLEAN
  BY DEF Edge!Init
<1>3. prepared \in Edge!Snapshot \cup {None} /\ evidence \in Edge!Snapshot \cup {None}
  BY DEF Edge!Init
<1>4. call \in [Call -> {"idle", "dispatching", "sent", "refused"}]
  BY DEF Edge!Init
<1>5. moved \subseteq [call: Call, action: Action] /\ handed \subseteq Edge!Handed
  BY DEF Edge!Init
<1> QED
  BY <1>1, <1>2, <1>3, <1>4, <1>5 DEF Edge!TypeOK

\* Every step keeps the types.
LEMMA EdgeNextTypeOK == Edge!Bounds /\ Edge!TypeOK /\ [Edge!Next]_Edge!vars => Edge!TypeOK'
<1> SUFFICES ASSUME Edge!Bounds, Edge!TypeOK, [Edge!Next]_Edge!vars PROVE Edge!TypeOK'
  OBVIOUS
<1>1. ASSUME NEW s \in Edge!Snapshot, Edge!Prepare(s) PROVE Edge!TypeOK'
  BY <1>1 DEF Edge!TypeOK, Edge!Prepare, Edge!Snapshot
<1>2. ASSUME NEW c \in Call, Edge!Dispatch(c) PROVE Edge!TypeOK'
  <2>1. CASE consumed \/ object # Bound
    BY <1>2, <2>1 DEF Edge!TypeOK, Edge!Dispatch
  <2>2. CASE ~consumed /\ object = Bound /\ ~Edge!Verifies(prepared)
    BY <1>2, <2>2 DEF Edge!TypeOK, Edge!Dispatch
  <2>3. CASE ~consumed /\ object = Bound /\ Edge!Verifies(prepared)
    <3>1. prepared \in Edge!Snapshot
      BY <2>3 DEF Edge!TypeOK, Edge!Verifies
    <3>2. [call |-> c, at |-> now, minimum |-> minimum, action |-> object] \in Edge!Handed
      BY DEF Edge!TypeOK, Edge!Handed
    <3>3. handed' = handed \cup
             {[call |-> c, at |-> now, minimum |-> minimum, action |-> object]}
      BY <1>2, <2>3 DEF Edge!Dispatch
    <3>4. handed' \subseteq Edge!Handed
      BY <3>2, <3>3 DEF Edge!TypeOK
    <3> QED
      BY <1>2, <2>3, <3>1, <3>4 DEF Edge!TypeOK, Edge!Dispatch
  <2> QED
    BY <2>1, <2>2, <2>3
<1>3. ASSUME NEW c \in Call, Edge!Consume(c) PROVE Edge!TypeOK'
  <2>1. PICK h \in handed : moved' = moved \cup {[call |-> c, action |-> h.action]}
    BY <1>3 DEF Edge!Consume, Edge!Seen
  <2>2. [call |-> c, action |-> h.action] \in [call: Call, action: Action]
    BY <2>1 DEF Edge!TypeOK, Edge!Handed
  <2> QED
    BY <1>3, <2>1, <2>2 DEF Edge!TypeOK, Edge!Consume
<1>4. ASSUME NEW c \in Call, Edge!AdapterFails(c) PROVE Edge!TypeOK'
  BY <1>4 DEF Edge!TypeOK, Edge!AdapterFails
<1>5. ASSUME NEW a \in Action, Edge!ChangeObject(a) PROVE Edge!TypeOK'
  BY <1>5 DEF Edge!TypeOK, Edge!ChangeObject
<1>6. CASE Edge!Tick
  BY <1>6 DEF Edge!TypeOK, Edge!Tick, Edge!Bounds
<1>7. CASE Edge!RaiseEpoch
  BY <1>7 DEF Edge!TypeOK, Edge!RaiseEpoch, Edge!Bounds
<1>8. CASE UNCHANGED Edge!vars
  BY <1>8 DEF Edge!TypeOK, Edge!vars
<1> QED
  BY <1>1, <1>2, <1>3, <1>4, <1>5, <1>6, <1>7, <1>8 DEF Edge!Next

\* Nothing is handed over at the beginning.
LEMMA EdgeInitCore == Edge!Init => EdgeCore
  BY DEF Edge!Init, EdgeCore

\* A step that touches neither the boundary's answer nor its calls keeps Core.
LEMMA EdgeQuietStep ==
    ASSUME EdgeCore, UNCHANGED <<consumed, evidence, call, moved, handed>>
    PROVE  EdgeCore'
  BY DEF EdgeCore, EdgeVouched

\* dispatch(): the first call that is let through is the only one, under a
\* snapshot verified at that instant.
LEMMA EdgeDispatchStep ==
    ASSUME NEW c \in Call, Edge!Bounds, Edge!TypeOK, EdgeCore, Edge!Dispatch(c)
    PROVE  EdgeCore'
<1> DEFINE given == [call |-> c, at |-> now, minimum |-> minimum, action |-> object]
<1>1. CASE consumed \/ object # Bound \/ ~Edge!Verifies(prepared)
  <2>1. /\ call' = [call EXCEPT ![c] = "refused"]
        /\ consumed' = TRUE
        /\ UNCHANGED <<evidence, moved, handed>>
    BY <1>1 DEF Edge!Dispatch
  <2>2. \A m \in moved : m.call # c
    BY DEF EdgeCore, Edge!Dispatch
  <2> QED
    BY <2>1, <2>2 DEF EdgeCore, EdgeVouched, Edge!TypeOK
<1>2. CASE ~consumed /\ object = Bound /\ Edge!Verifies(prepared)
  <2>1. handed = {} /\ moved = {}
    BY <1>2 DEF EdgeCore
  <2>2. /\ handed' = {given} /\ moved' = {} /\ consumed' = TRUE
        /\ evidence' = prepared
        /\ call' = [call EXCEPT ![c] = "dispatching"]
    BY <1>2, <2>1 DEF Edge!Dispatch
  <2>3. prepared \in Edge!Snapshot
    BY <1>2 DEF Edge!TypeOK, Edge!Verifies
  <2>4. /\ prepared # None /\ prepared.for = object
        /\ prepared.intact /\ prepared.known /\ prepared.epoch >= minimum
        /\ now < prepared.expires /\ prepared.issued - Skew <= now
        /\ now - prepared.issued < MaximumLifetime
    <3>1. /\ prepared.issued \in Int /\ prepared.expires \in Int /\ now \in Int
          /\ Skew \in Int /\ MaximumLifetime \in Int
      BY <2>3 DEF Edge!Snapshot, Edge!TypeOK, Edge!Bounds
    <3> QED
      BY <1>2, <3>1 DEF Edge!Verifies
  <2>5. \A d \in Call : call'[d] = "dispatching" => d = c
    BY <2>1, <2>2 DEF EdgeCore, Edge!TypeOK
  <2>6. PICK h : h = given
    OBVIOUS
  <2>7. handed' = {h} /\ EdgeVouched(h)'
    BY <2>2, <2>4, <2>6 DEF EdgeVouched
  <2>8. \A d \in Call : call'[d] = "dispatching" => h.call = d
    BY <2>5, <2>6
  <2> QED
    BY <2>2, <2>7, <2>8 DEF EdgeCore
<1> QED
  BY <1>1, <1>2

\* The adapter moves what this call was handed, once.
LEMMA EdgeConsumeStep ==
    ASSUME NEW c \in Call, Edge!TypeOK, EdgeCore, Edge!Consume(c) PROVE EdgeCore'
<1>1. PICK h \in handed : /\ h.call = c
                          /\ moved' = moved \cup {[call |-> c, action |-> h.action]}
  BY DEF Edge!Consume, Edge!Seen
<1>2. handed = {h} /\ EdgeVouched(h)
  BY <1>1 DEF EdgeCore
<1>3. /\ call' = [call EXCEPT ![c] = "sent"]
      /\ UNCHANGED <<consumed, evidence, handed>>
  BY DEF Edge!Consume
<1>4. \A d \in Call : call'[d] = "dispatching" => \E g \in handed : g.call = d
  BY <1>3 DEF EdgeCore, Edge!TypeOK
<1>5. \A m \in moved' : /\ call'[m.call] = "sent"
                        /\ \E g \in handed : m.call = g.call /\ m.action = evidence.for
  <2> SUFFICES ASSUME NEW m \in moved'
               PROVE  /\ call'[m.call] = "sent"
                      /\ \E g \in handed : m.call = g.call /\ m.action = evidence.for
    OBVIOUS
  <2>1. CASE m \in moved
    BY <1>3, <2>1 DEF EdgeCore, Edge!TypeOK
  <2>2. CASE m = [call |-> c, action |-> h.action]
    BY <1>1, <1>2, <1>3, <2>2 DEF EdgeVouched, Edge!TypeOK
  <2> QED
    BY <1>1, <2>1, <2>2
<1> QED
  BY <1>2, <1>3, <1>4, <1>5 DEF EdgeCore, EdgeVouched

\* Every step keeps Core.
LEMMA EdgeNextCore ==
    Edge!Bounds /\ Edge!TypeOK /\ EdgeCore /\ [Edge!Next]_Edge!vars => EdgeCore'
<1> SUFFICES ASSUME Edge!Bounds, Edge!TypeOK, EdgeCore, [Edge!Next]_Edge!vars PROVE EdgeCore'
  OBVIOUS
<1>1. ASSUME NEW s \in Edge!Snapshot, Edge!Prepare(s) PROVE EdgeCore'
  BY <1>1, EdgeQuietStep DEF Edge!Prepare
<1>2. ASSUME NEW c \in Call, Edge!Dispatch(c) PROVE EdgeCore'
  BY <1>2, EdgeDispatchStep
<1>3. ASSUME NEW c \in Call, Edge!Consume(c) PROVE EdgeCore'
  BY <1>3, EdgeConsumeStep
<1>4. ASSUME NEW c \in Call, Edge!AdapterFails(c) PROVE EdgeCore'
  <2>1. \A m \in moved : m.call # c
    BY <1>4 DEF EdgeCore, Edge!AdapterFails
  <2> QED
    BY <1>4, <2>1 DEF EdgeCore, EdgeVouched, Edge!AdapterFails, Edge!TypeOK
<1>5. ASSUME NEW a \in Action, Edge!ChangeObject(a) PROVE EdgeCore'
  BY <1>5, EdgeQuietStep DEF Edge!ChangeObject
<1>6. CASE Edge!Tick
  BY <1>6, EdgeQuietStep DEF Edge!Tick
<1>7. CASE Edge!RaiseEpoch
  BY <1>7, EdgeQuietStep DEF Edge!RaiseEpoch
<1>8. CASE UNCHANGED Edge!vars
  BY <1>8, EdgeQuietStep DEF Edge!vars
<1> QED
  BY <1>1, <1>2, <1>3, <1>4, <1>5, <1>6, <1>7, <1>8 DEF Edge!Next

\* What IInv is for.
LEMMA EdgeCoreSuffices == Edge!TypeOK /\ EdgeCore => Edge!OneAuthorizedMove
<1> SUFFICES ASSUME Edge!TypeOK, EdgeCore PROVE Edge!OneAuthorizedMove
  OBVIOUS
<1>1. \A h \in handed : EdgeVouched(h)
  BY DEF EdgeCore
<1>2. \A m \in moved : \E h \in handed : m.call = h.call /\ m.action = evidence.for
  BY DEF EdgeCore
<1>3. handed = {} \/ \E h : handed = {h}
  BY DEF EdgeCore
<1>4. moved = {} \/ \E m : moved = {m}
  <2>1. \A m, n \in moved : m.call = n.call /\ m.action = n.action
    BY <1>2, <1>3
  <2>2. \A m, n \in moved : m = n
    BY <2>1 DEF Edge!TypeOK
  <2> QED
    BY <2>2
<1>5. ASSUME NEW S, S = {} \/ \E x : S = {x} PROVE Cardinality(S) <= 1
  <2>1. CASE S = {}
    <3>1. Cardinality(S) = 0
      BY <2>1, FS_EmptySet
    <3> QED
      BY <3>1
  <2>2. CASE \E x : S = {x}
    <3>1. Cardinality(S) = 1
      BY <2>2, FS_Singleton
    <3> QED
      BY <3>1
  <2> QED
    BY <1>5, <2>1, <2>2
<1>6. Cardinality(handed) <= 1
  BY <1>3, <1>5
<1>7. Cardinality(moved) <= 1
  BY <1>4, <1>5
<1> QED
  BY <1>1, <1>2, <1>6, <1>7, EdgeCardinality, Zenon DEF Edge!OneAuthorizedMove,
      EdgeVouched, EdgeCore

\* The variables of the boundary keep their types (dispatch and prepare).
THEOREM EdgeTypeCorrect == ASSUME Edge!Bounds PROVE Edge!Spec => []Edge!TypeOK
<1>1. Edge!Init => Edge!TypeOK
  BY EdgeInitTypeOK
<1>2. Edge!TypeOK /\ [Edge!Next]_Edge!vars => Edge!TypeOK'
  BY EdgeNextTypeOK
<1> QED
  BY <1>1, <1>2, PTL DEF Edge!Spec

\* One boundary moves the robot at most once, with the action its snapshot was
\* issued for and under a snapshot valid at the hand-over, whatever the calls of
\* dispatch, the refresh task, the clock, the epoch and the caller do beside it.
THEOREM MovesOnceAuthorized ==
    ASSUME Edge!Bounds PROVE Edge!Spec => []Edge!OneAuthorizedMove
<1>1. Edge!Init => EdgeIInv
  BY EdgeInitTypeOK, EdgeInitCore DEF EdgeIInv
<1>2. EdgeIInv /\ [Edge!Next]_Edge!vars => EdgeIInv'
  BY EdgeNextTypeOK, EdgeNextCore DEF EdgeIInv
<1>3. EdgeIInv => Edge!OneAuthorizedMove
  BY EdgeCoreSuffices DEF EdgeIInv
<1> QED
  BY <1>1, <1>2, <1>3, PTL DEF Edge!Spec

-----------------------------------------------------------------------------
(* Installer.  PreviousRecoverable and MessageTrue are not inductive: they do  *)
(* not say how far an installation, or its rollback, has got, nor what each    *)
(* step of it has already copied, set aside or put back.  ScriptIInv does.     *)

\* Nothing of the installation was changed yet.
Untouched == before = Script!Installation /\ rollback = Script!Absent

\* The previous registrations are in the recovery paths, and so is the runtime;
\* the script knows what there was.
Copied == backup /\ saved = before.registered /\ siteExisted = before.site
Preserved ==
    /\ Copied
    /\ rollback = before.version /\ hadPrevious = (before.version # Script!Absent)

\* A version is a tree of this run or of an earlier one.
Numbered ==
    /\ version <= run /\ staged <= run /\ rollback <= run /\ before.version <= run
    /\ phase # "idle" => before.version < run /\ run >= 1

\* A .pth file is in the site directory.
Housed ==
    /\ registered["pth"] # "absent" => site
    /\ before.registered["pth"] # "absent" => before.site

\* As far as the installation has got.
Advancing ==
    /\ phase = "prepare" => Untouched /\ ~backup
    /\ phase \in {"stage", "snapshot", "set_aside"} => Untouched /\ backup
    /\ phase = "snapshot" =>
          /\ staged = run
          /\ \A n \in 1 .. at - 1 :
                saved[Script!Registrations[n]] = registered[Script!Registrations[n]]
    /\ phase = "set_aside" =>
          /\ saved = registered /\ staged = run /\ siteExisted = site
          /\ ~hadPrevious /\ ~undoing
    /\ phase = "activate" =>
          /\ Preserved /\ staged = run /\ ~undoing
          /\ registered = before.registered /\ site = before.site
          /\ version = Script!Absent
    /\ phase \in {"register", "verify"} =>
          Preserved /\ version = run /\ ~undoing /\ (before.site => site)
    /\ phase = "register" =>
          \A n \in 1 .. at - 1 : registered[Script!Registrations[n]] = "this"
    /\ phase = "verify" => \A r \in Script!Registration : registered[r] = "this"
    /\ phase = "forget" /\ ~undoing => Script!Complete

\* As far as the rollback has got, unless a failure was misjudged.
Retreating ==
    /\ phase \in {"undo", "discard", "put_back"} =>
          undoing /\ Copied /\ (before.site => site)
    /\ ~Script!Misjudged =>
          /\ phase \in {"undo", "discard", "put_back"} => Preserved
          /\ phase = "undo" =>
                /\ \A n \in at + 1 .. Len(Script!Registrations) :
                      registered[Script!Registrations[n]]
                         = before.registered[Script!Registrations[n]]
                /\ at < 3 => site = before.site
          /\ phase \in {"discard", "put_back"} =>
                registered = before.registered /\ site = before.site
          /\ phase = "put_back" => version = Script!Absent
          /\ phase = "forget" /\ undoing =>
                Script!Installation = before /\ rollback = Script!Absent

\* The script counts registrations in three phases, and speaks when it ends.
InStep ==
    /\ phase \notin {"snapshot", "register", "undo"} => at = 1
    /\ phase # "idle" => said = "nothing"

ScriptIInv ==
    /\ Script!TypeOK /\ IsFiniteSet(failed) /\ Numbered /\ Housed /\ InStep
    /\ Advancing /\ Retreating /\ Script!PreviousRecoverable /\ Script!MessageTrue

\* The four registrations.
LEMMA Four ==
    /\ Len(Script!Registrations) = 4
    /\ Script!Registrations[1] = "cli" /\ Script!Registrations[2] = "uninstall"
    /\ Script!Registrations[3] = "pth" /\ Script!Registrations[4] = "pth_path"
    /\ Script!Registration = {"cli", "uninstall", "pth", "pth_path"}
    /\ Script!FirstToUndo = 4
    /\ \A n : Script!Last(n) <=> n = 4
  BY DEF Script!Registrations, Script!Registration, Script!FirstToUndo, Script!Last

\* The types, one command at a time.
LEMMA FailureTyped ==
    ASSUME Script!Bounds, Script!TypeOK, IsFiniteSet(failed), NEW command \in Script!Commands,
           failed' = failed \/ failed' = {} \/ Script!Works \/ Script!Fails(command)
    PROVE  /\ failed' \subseteq Script!Commands
           /\ Cardinality(failed') <= MaxFailures /\ IsFiniteSet(failed')
<1>1. /\ failed \subseteq Script!Commands
      /\ Cardinality(failed) <= MaxFailures /\ Cardinality(failed) \in Nat
  BY FS_CardinalityType, ScriptCardinality DEF Script!TypeOK
<1>2. CASE failed' = failed \/ Script!Works
  BY <1>1, <1>2 DEF Script!Works
<1>3. CASE failed' = {}
  BY <1>3, FS_EmptySet DEF Script!Bounds
<1>4. CASE Script!Fails(command)
  <2>1. /\ Cardinality(failed) < MaxFailures
        /\ command \notin failed /\ failed' = failed \cup {command}
    BY <1>4, ScriptCardinality DEF Script!Fails
  <2>2. IsFiniteSet(failed') /\ Cardinality(failed') = Cardinality(failed) + 1
    BY <2>1, FS_AddElement
  <2> QED
    BY <1>1, <2>1, <2>2 DEF Script!Bounds
<1> QED
  BY <1>2, <1>3, <1>4

\* TypeOK in parts.
Trees == version \in Script!Tree /\ staged \in Script!Tree /\ rollback \in Script!Tree
Entries == /\ registered \in [Script!Registration -> Script!Entry]
           /\ saved \in [Script!Registration -> Script!Entry \cup {"none"}]
Flags == /\ site \in BOOLEAN /\ backup \in BOOLEAN
         /\ undoing \in BOOLEAN /\ hadPrevious \in BOOLEAN /\ siteExisted \in BOOLEAN
Progress == /\ phase \in Script!Phases /\ at \in 1 .. 4
            /\ said \in {"nothing", "refused", "failed", "installed", "restored",
                         "incomplete", "killed"}
Runs == /\ run \in 0 .. MaxRuns
        /\ before \in [version : Script!Tree, site : BOOLEAN,
                      registered : [Script!Registration -> Script!Entry]]

LEMMA ScriptTypeStep ==
    ASSUME Script!Bounds, Script!TypeOK, IsFiniteSet(failed), Retreating, Script!Next
    PROVE  Script!TypeOK' /\ IsFiniteSet(failed')
<1> USE DEF Script!trees, Script!copies, Script!script, Script!Exit, Script!GoTo, Script!UndoAll
<1>0. Trees /\ Entries /\ Flags /\ Progress /\ Runs
  BY Four DEF Script!TypeOK, Trees, Entries, Flags, Progress, Runs
<1>00. Script!Registrations[at] \in Script!Registration
  BY <1>0, Four DEF Progress
<1>01. phase = "undo" => \A r \in Script!Registration : saved[r] \in Script!Entry
  BY <1>0 DEF Runs, Retreating, Copied
<1>1. Trees'
  BY <1>0 DEF Trees, Runs, Script!Tree, Script!Shrunk, Script!Next, Script!Start,
      Script!Prepare, Script!Stage, Script!Snapshot, Script!SetAside, Script!Activate,
      Script!Register, Script!Verify, Script!Undo, Script!Discard, Script!PutBack,
      Script!Forget, Script!Kill
<1>2. Entries'
  <2>1. \/ UNCHANGED registered
        \/ \E e \in Script!Entry :
              registered' = [registered EXCEPT ![Script!Registrations[at]] = e]
    BY <1>0, <1>00, <1>01 DEF Entries, Script!Entry, Script!Next, Script!Start,
        Script!Prepare, Script!Stage, Script!Snapshot, Script!SetAside, Script!Activate,
        Script!Register, Script!Verify, Script!Undo, Script!Discard, Script!PutBack,
        Script!Forget, Script!Kill
  <2>2. \/ saved' \in {saved, Script!Nothing}
        \/ saved' = [saved EXCEPT
                        ![Script!Registrations[at]] = registered[Script!Registrations[at]]]
    BY DEF Script!Next, Script!Start, Script!Prepare, Script!Stage, Script!Snapshot,
        Script!SetAside, Script!Activate, Script!Register, Script!Verify, Script!Undo,
        Script!Discard, Script!PutBack, Script!Forget, Script!Kill
  <2> QED
    BY <1>0, <1>00, <2>1, <2>2 DEF Entries, Script!Nothing
<1>3. Flags'
  BY <1>0 DEF Flags, Script!Next, Script!Start, Script!Prepare, Script!Stage,
      Script!Snapshot, Script!SetAside, Script!Activate, Script!Register, Script!Verify,
      Script!Undo, Script!Discard, Script!PutBack, Script!Forget, Script!Kill
<1>4. Progress'
  BY <1>0, Four DEF Progress, Script!Phases, Script!Next, Script!Start, Script!Prepare,
      Script!Stage, Script!Snapshot, Script!SetAside, Script!Activate, Script!Register,
      Script!Verify, Script!Undo, Script!Discard, Script!PutBack, Script!Forget,
      Script!Kill
<1>5. Runs'
  BY <1>0 DEF Runs, Script!Installation, Script!Bounds, Trees, Entries, Flags,
      Script!Next, Script!Start, Script!Prepare, Script!Stage, Script!Snapshot,
      Script!SetAside, Script!Activate, Script!Register, Script!Verify, Script!Undo,
      Script!Discard, Script!PutBack, Script!Forget, Script!Kill
<1>11. \E command \in Script!Commands :
          failed' = failed \/ failed' = {} \/ Script!Works \/ Script!Fails(command)
  BY DEF Script!Next, Script!Start, Script!Prepare, Script!Stage, Script!Snapshot,
      Script!SetAside, Script!Activate, Script!Register, Script!Verify, Script!Undo,
      Script!Discard, Script!PutBack, Script!Forget, Script!Kill, Script!Commands
<1> QED
  BY <1>1, <1>2, <1>3, <1>4, <1>5, <1>11, FailureTyped, ScriptCardinality, Four DEF
      Script!TypeOK, Trees, Entries, Flags, Progress, Runs

\* The numbers of the runs, the site directory and the progress of the script.
LEMMA ScriptSmallSteps ==
    ASSUME Script!Bounds, ScriptIInv, Script!Next, Script!TypeOK'
    PROVE  Numbered' /\ Housed' /\ InStep'
<1> USE DEF Script!trees, Script!copies, Script!script, Script!Exit, Script!GoTo,
            Script!UndoAll, ScriptIInv, Script!Nothing, Script!Installation
<1>0. Trees /\ Entries /\ Flags /\ Progress /\ Runs
  BY Four DEF Script!TypeOK, Trees, Entries, Flags, Progress, Runs
<1>1. Numbered'
  BY <1>0 DEF Numbered, Trees, Runs, Script!Tree, Script!Shrunk, Script!Absent,
      Script!Damaged, Advancing, Retreating, Preserved, Untouched, Script!Next,
      Script!Start, Script!Prepare, Script!Stage, Script!Snapshot, Script!SetAside,
      Script!Activate, Script!Register, Script!Verify, Script!Undo, Script!Discard,
      Script!PutBack, Script!Forget, Script!Kill
<1>3. InStep'
  BY <1>0, Four DEF InStep, Progress, Script!Next, Script!Start, Script!Prepare,
      Script!Stage, Script!Snapshot, Script!SetAside, Script!Activate, Script!Register,
      Script!Verify, Script!Undo, Script!Discard, Script!PutBack, Script!Forget,
      Script!Kill
<1>2. Housed'
  <2>1. \/ registered' = registered /\ site' = site /\ before' \in {before, Script!Installation}
        \/ Script!Register \/ Script!Undo
    BY DEF Script!Next, Script!Start, Script!Prepare, Script!Stage, Script!Snapshot,
        Script!SetAside, Script!Activate, Script!Verify, Script!Discard, Script!PutBack,
        Script!Forget, Script!Kill
  <2>2. CASE registered' = registered /\ site' = site /\ before' \in {before, Script!Installation}
    BY <2>2 DEF Housed
  <2>3. CASE Script!Register
    BY <2>3, <1>0, Four DEF Housed, Script!Register, Entries, Progress, Flags
  <2>4. CASE Script!Undo
    <3>1. undoing /\ Copied /\ (before.site => site)
      BY <2>4 DEF Script!Undo, Retreating
    <3>2. CASE Script!Registrations[at] = "pth"
      <4>1. \/ saved["pth"] # "absent" /\ site' = site
            \/ registered'["pth"] = "absent"
            \/ registered'["pth"] = registered["pth"] /\ site' = site
        BY <2>4, <1>0, <3>2, Four DEF Script!Undo, Entries, Flags
      <4> QED
        BY <2>4, <3>1, <4>1 DEF Housed, Copied, Script!Undo
    <3>3. CASE Script!Registrations[at] # "pth"
      <4>1. registered'["pth"] = registered["pth"] /\ site' = site
        BY <2>4, <1>0, <3>3, Four DEF Script!Undo, Entries, Flags
      <4> QED
        BY <2>4, <4>1 DEF Housed, Script!Undo
    <3> QED
      BY <3>2, <3>3
  <2> QED
    BY <2>1, <2>2, <2>3, <2>4
<1> QED
  BY <1>1, <1>2, <1>3

\* How far an installation has got, one command at a time.
LEMMA ScriptAdvancingStep ==
    ASSUME Script!Bounds, ScriptIInv, Script!Next, Script!TypeOK' PROVE Advancing'
<1> USE DEF Script!trees, Script!copies, Script!script, Script!Exit, Script!GoTo,
            Script!UndoAll, ScriptIInv, Script!Nothing, Script!Installation
<1>0. Trees /\ Entries /\ Flags /\ Progress /\ Runs
  BY Four DEF Script!TypeOK, Trees, Entries, Flags, Progress, Runs
<1>1. CASE Script!Start
  BY <1>1 DEF Script!Start, Advancing, Untouched, Script!RecoveryPaths,
      Script!UnfinishedRecovery, InStep
<1>2. CASE Script!Prepare
  BY <1>2 DEF Script!Prepare, Advancing, Untouched
<1>3. CASE Script!Stage
  BY <1>3, <1>0, Four DEF Script!Stage, Advancing, Untouched, InStep
<1>4. CASE Script!Snapshot
  BY <1>4, <1>0, Four DEF Script!Snapshot, Advancing, Untouched, Entries, Progress
<1>5. CASE Script!SetAside
  <2>1. /\ before = Script!Installation /\ rollback = Script!Absent /\ backup
        /\ saved = registered /\ staged = run /\ siteExisted = site
        /\ ~hadPrevious /\ ~undoing
    BY <1>5 DEF Script!SetAside, Advancing, Untouched
  <2>2. /\ before.version = version /\ before.registered = registered /\ before.site = site
    BY <2>1
  <2>3. CASE phase' = "undo"
    BY <2>3 DEF Advancing
  <2>4. CASE phase' = "activate"
    <3>1. /\ UNCHANGED <<staged, registered, site, backup, saved, siteExisted, undoing, before, run>>
          /\ version' = Script!Absent /\ rollback' = version
          /\ hadPrevious' = (version # Script!Absent)
      BY <2>1, <2>4, <1>5, <1>0 DEF Script!SetAside, Flags
    <3> QED
      BY <2>1, <2>2, <2>4, <3>1 DEF Advancing, Preserved, Copied
  <2> QED
    BY <2>3, <2>4, <1>5 DEF Script!SetAside
<1>6. CASE Script!Activate
  BY <1>6, <1>0, Four DEF Script!Activate, Advancing, Preserved, Copied, InStep
<1>7. CASE Script!Register
  <2>0. Preserved /\ version = run /\ ~undoing /\ (before.site => site)
    BY <1>7 DEF Script!Register, Advancing
  <2>1. phase' \in {"register", "verify", "undo"}
    BY <1>7 DEF Script!Register
  <2>2. phase' \in {"register", "verify"} =>
            Preserved' /\ version' = run' /\ ~undoing' /\ (before'.site => site')
    BY <2>0, <1>7, <1>0 DEF Script!Register, Preserved, Copied
  <2>3. phase' = "register" => \A n \in 1 .. at' - 1 : registered'[Script!Registrations[n]] = "this"
    BY <1>7, <1>0, Four DEF Script!Register, Advancing, Entries, Progress
  <2>4. phase' = "verify" => \A r \in Script!Registration : registered'[r] = "this"
    BY <1>7, <1>0, Four DEF Script!Register, Advancing, Entries, Progress
  <2> QED
    BY <2>1, <2>2, <2>3, <2>4 DEF Advancing
<1>8. CASE Script!Verify
  BY <1>8, <1>0 DEF Script!Verify, Advancing, Preserved, Script!Complete, Numbered, Runs
<1>9. CASE Script!Undo
  BY <1>9, <1>0 DEF Script!Undo, Advancing
<1>10. CASE Script!Discard
  BY <1>10, <1>0 DEF Script!Discard, Advancing
<1>11. CASE Script!PutBack
  BY <1>11, <1>0 DEF Script!PutBack, Advancing, Retreating
<1>12. CASE Script!Forget
  BY <1>12, <1>0 DEF Script!Forget, Advancing, Script!Complete
<1>13. CASE Script!Kill
  BY <1>13 DEF Script!Kill, Advancing
<1> QED
  BY <1>1, <1>2, <1>3, <1>4, <1>5, <1>6, <1>7, <1>8, <1>9, <1>10, <1>11, <1>12, <1>13
      DEF Script!Next

\* How far a rollback has got, one command at a time.
LEMMA ScriptRetreatingStep ==
    ASSUME Script!Bounds, ScriptIInv, Script!Next, Script!TypeOK' PROVE Retreating'
<1> USE DEF Script!trees, Script!copies, Script!script, Script!Exit, Script!GoTo,
            Script!UndoAll, ScriptIInv, Script!Nothing, Script!Installation
<1>0. Trees /\ Entries /\ Flags /\ Progress /\ Runs
  BY Four DEF Script!TypeOK, Trees, Entries, Flags, Progress, Runs
<1>1. CASE Script!Start
  BY <1>1 DEF Script!Start, Retreating, InStep
<1>2. CASE Script!Prepare
  BY <1>2 DEF Script!Prepare, Retreating
<1>3. CASE Script!Stage
  BY <1>3 DEF Script!Stage, Retreating
<1>4. CASE Script!Snapshot
  BY <1>4 DEF Script!Snapshot, Retreating
<1>5. CASE Script!SetAside
  BY <1>5, <1>0, Four DEF Script!SetAside, Advancing, Untouched, Preserved, Copied,
      Retreating, Script!Misjudged, Script!Fails, Script!Works
<1>6. CASE Script!Activate
  BY <1>6, <1>0, Four DEF Script!Activate, Advancing, Preserved, Copied, InStep,
      Retreating, Script!Misjudged, Script!Fails, Script!Works
<1>7. CASE Script!Register
  BY <1>7, <1>0, Four DEF Script!Register, Advancing, Preserved, Copied, Entries,
      Progress, Retreating, Script!Misjudged, Script!Fails, Script!Works
<1>8. CASE Script!Verify
  BY <1>8, <1>0, Four DEF Script!Verify, Advancing, Preserved, Copied, Retreating,
      Script!Misjudged, Script!Fails, Script!Works
<1>9. CASE Script!Undo
  <2>0. undoing /\ Copied /\ (before.site => site) /\ (Script!Misjudged => Script!Misjudged')
    BY <1>9 DEF Script!Undo, Retreating, Script!Misjudged, Script!Fails, Script!Works
  <2>1. undoing' /\ Copied' /\ (before'.site => site')
    BY <2>0, <1>9, <1>0 DEF Script!Undo, Copied, Flags
  <2>2. phase' \in {"undo", "discard", "idle"}
    BY <1>9 DEF Script!Undo
  <2>3. CASE Script!Misjudged' \/ phase' = "idle"
    BY <2>1, <2>2, <2>3 DEF Retreating
  <2>4. CASE ~Script!Misjudged' /\ phase' # "idle"
    <3>1. Script!Works /\ ~Script!Misjudged
      BY <2>0, <2>4, <1>9 DEF Script!Undo, Script!Fails, Script!Misjudged
    <3>2. /\ registered' = [registered EXCEPT
                               ![Script!Registrations[at]] = saved[Script!Registrations[at]]]
          /\ site' = (site /\ ~(/\ Script!Registrations[at] = "pth"
                                /\ saved[Script!Registrations[at]] = "absent"
                                /\ ~siteExisted))
          /\ IF at = 1 THEN phase' = "discard" ELSE at' = at - 1 /\ phase' = "undo"
      BY <2>0, <2>4, <1>9, <1>0 DEF Script!Undo, Script!Fails, Script!Misjudged,
          Script!Works
    <3>3. Preserved'
      BY <3>1, <1>9 DEF Script!Undo, Retreating, Preserved, Copied
    <3>4. \A n \in at .. Len(Script!Registrations) :
             registered'[Script!Registrations[n]]
                = before'.registered[Script!Registrations[n]]
      BY <3>1, <3>2, <2>0, <1>9, <1>0, Four DEF Script!Undo, Retreating, Copied,
          Entries, Progress
    <3>5. at <= 3 => site' = before'.site
      BY <3>1, <3>2, <2>0, <1>9, <1>0, Four DEF Script!Undo, Retreating, Copied,
          Entries, Progress, Flags, Runs, Housed
    <3>6. phase' = "undo" => at = at' + 1 /\ at' \in 1 .. 3
      BY <3>2, <1>0 DEF Progress
    <3>7. phase' = "discard" => registered' = before'.registered /\ site' = before'.site
      BY <3>4, <3>5, <3>2, <1>9, <1>0, Four DEF Entries, Runs, Script!Undo, Progress
    <3> QED
      BY <3>2, <3>3, <3>4, <3>5, <3>6, <3>7, <2>1, <2>2 DEF Retreating
  <2> QED
    BY <2>3, <2>4
<1>10. CASE Script!Discard
  BY <1>10, <1>0 DEF Script!Discard, Retreating, Preserved, Copied, Script!Misjudged,
      Script!Fails, Script!Works
<1>11. CASE Script!PutBack
  BY <1>11, <1>0 DEF Script!PutBack, Retreating, Preserved, Copied, Script!Misjudged,
      Script!Fails, Script!Works, Flags, Runs
<1>12. CASE Script!Forget
  BY <1>12, <1>0 DEF Script!Forget, Retreating, Script!Misjudged, Script!Fails,
      Script!Works
<1>13. CASE Script!Kill
  BY <1>13 DEF Script!Kill, Retreating
<1> QED
  BY <1>1, <1>2, <1>3, <1>4, <1>5, <1>6, <1>7, <1>8, <1>9, <1>10, <1>11, <1>12, <1>13
      DEF Script!Next

\* A command that leaves the installation and the copies alone leaves what can
\* be restored alone, and a later failure does not un-misjudge an earlier one.
LEMMA ScriptRecoverableStep ==
    ASSUME Script!Bounds, ScriptIInv, Script!Next,
           Script!TypeOK', Advancing', Retreating'
    PROVE  Script!PreviousRecoverable'
<1> USE DEF Script!trees, Script!copies, Script!script, Script!Exit, Script!GoTo,
            Script!UndoAll, ScriptIInv, Script!Nothing, Script!Installation
<1>0. Trees /\ Entries /\ Flags /\ Progress /\ Runs
  BY Four DEF Script!TypeOK, Trees, Entries, Flags, Progress, Runs
<1>1. CASE Script!Start
  <2>1. CASE Script!RecoveryPaths
    <3>1. /\ UNCHANGED <<version, rollback, registered, backup, saved, before, failed>>
          /\ run' = run + 1 /\ run \in Nat
      BY <2>1, <1>1, <1>0 DEF Script!Start, Script!RecoveryPaths,
          Script!UnfinishedRecovery, Runs, Script!Bounds
    <3>2. Script!Misjudged' = Script!Misjudged /\ Script!Restorable' = Script!Restorable
      BY <3>1 DEF Script!Misjudged, Script!Restorable
    <3>3. Script!Complete => Script!Complete'
      BY <3>1 DEF Script!Complete
    <3> QED
      BY <3>2, <3>3 DEF Script!PreviousRecoverable
  <2>2. CASE ~Script!RecoveryPaths
    BY <2>2, <1>1 DEF Script!Start, Script!PreviousRecoverable, Script!Restorable
  <2> QED
    BY <2>1, <2>2
<1>2. CASE Script!Prepare
  BY <1>2 DEF Script!Prepare, Advancing, Untouched, Script!PreviousRecoverable,
      Script!Restorable
<1>3. CASE Script!Stage
  BY <1>3 DEF Script!Stage, Advancing, Untouched, Script!PreviousRecoverable,
      Script!Restorable
<1>4. CASE Script!Snapshot
  BY <1>4 DEF Script!Snapshot, Advancing, Untouched, Script!PreviousRecoverable,
      Script!Restorable
<1>5. CASE Script!SetAside
  BY <1>5 DEF Script!SetAside, Advancing, Untouched, Script!PreviousRecoverable,
      Script!Restorable
<1>6. CASE Script!Activate
  BY <1>6 DEF Script!Activate, Advancing, Preserved, Copied, Script!PreviousRecoverable,
      Script!Restorable
<1>7. CASE Script!Register
  BY <1>7 DEF Script!Register, Advancing, Preserved, Copied, Script!PreviousRecoverable,
      Script!Restorable
<1>8. CASE Script!Verify
  BY <1>8 DEF Script!Verify, Advancing, Preserved, Copied, Script!PreviousRecoverable,
      Script!Restorable
<1>9. CASE Script!Undo
  BY <1>9 DEF Script!Undo, Retreating, Preserved, Copied, Script!PreviousRecoverable,
      Script!Restorable, Script!Misjudged, Script!Fails, Script!Works
<1>10. CASE Script!Discard
  BY <1>10 DEF Script!Discard, Retreating, Preserved, Copied,
      Script!PreviousRecoverable, Script!Restorable, Script!Misjudged, Script!Fails,
      Script!Works
<1>11. CASE Script!PutBack
  BY <1>11 DEF Script!PutBack, Retreating, Preserved, Copied,
      Script!PreviousRecoverable, Script!Restorable, Script!Misjudged, Script!Fails,
      Script!Works
<1>12. CASE Script!Forget
  BY <1>12 DEF Script!Forget, Advancing, Retreating, Script!PreviousRecoverable,
      Script!Restorable, Script!Complete, Script!Misjudged, Script!Fails, Script!Works
<1>13. CASE Script!Kill
  BY <1>13 DEF Script!Kill, Script!PreviousRecoverable, Script!Restorable,
      Script!Complete, Script!Misjudged
<1> QED
  BY <1>1, <1>2, <1>3, <1>4, <1>5, <1>6, <1>7, <1>8, <1>9, <1>10, <1>11, <1>12, <1>13
      DEF Script!Next

\* What is said at the end: only four steps say more than that they failed.
LEMMA ScriptMessageStep ==
    ASSUME Script!Bounds, ScriptIInv, Script!Next,
           Script!TypeOK', Advancing', Retreating'
    PROVE  Script!MessageTrue'
<1> USE DEF Script!trees, Script!copies, Script!script, Script!Exit, Script!GoTo,
            Script!UndoAll, ScriptIInv, Script!Nothing, Script!Installation
<1>0. Trees /\ Entries /\ Flags /\ Progress /\ Runs
  BY Four DEF Script!TypeOK, Trees, Entries, Flags, Progress, Runs
<1>1. CASE said' \in {"nothing", "failed", "killed"}
  BY <1>1 DEF Script!MessageTrue
<1>2. CASE Script!Start
  BY <1>2 DEF Script!Start, Script!MessageTrue, Script!RecoveryPaths,
      Script!UnfinishedRecovery
<1>3. CASE Script!Undo
  BY <1>3, <1>1, <1>0 DEF Script!Undo, Script!MessageTrue, InStep, Script!RecoveryPaths,
      Retreating, Preserved, Copied, Script!Restorable, Script!Misjudged, Script!Fails,
      Script!Works
<1>4. CASE Script!PutBack
  BY <1>4, <1>1, <1>0 DEF Script!PutBack, Script!MessageTrue, InStep,
      Script!RecoveryPaths, Retreating, Preserved, Copied, Script!Restorable,
      Script!Misjudged, Script!Fails, Script!Works
<1>5. CASE Script!Forget
  BY <1>5, <1>1, <1>0 DEF Script!Forget, Script!MessageTrue, InStep,
      Script!RecoveryPaths, Advancing, Retreating, Script!Complete, Script!Restorable,
      Script!Misjudged, Script!Fails, Script!Works
<1>6. CASE ~(Script!Start \/ Script!Undo \/ Script!PutBack \/ Script!Forget)
  <2>1. said' \in {"nothing", "failed", "killed"}
    BY <1>6 DEF Script!Next, Script!Prepare, Script!Stage, Script!Snapshot,
        Script!SetAside, Script!Activate, Script!Register, Script!Verify,
        Script!Discard, Script!Kill, InStep
  <2> QED
    BY <2>1, <1>1
<1> QED
  BY <1>2, <1>3, <1>4, <1>5, <1>6

\* The initial state, in which nothing was done.
LEMMA ScriptInitial == ASSUME Script!Bounds, Script!Init PROVE ScriptIInv
<1> USE DEF Script!Init, Script!Installation, Script!Nothing
<1>1. Script!TypeOK /\ IsFiniteSet(failed)
  <2>1. IsFiniteSet(failed) /\ Cardinality(failed) = 0
    BY FS_EmptySet
  <2>2. registered \in [Script!Registration -> Script!Entry] /\ site \in BOOLEAN
    BY DEF Script!Entry
  <2>3. /\ version \in Script!Tree /\ staged \in Script!Tree /\ rollback \in Script!Tree
        /\ run \in 0 .. MaxRuns
    BY DEF Script!Tree, Script!Absent, Script!Bounds
  <2>4. before \in [version : Script!Tree, site : BOOLEAN,
                    registered : [Script!Registration -> Script!Entry]]
    BY <2>2, <2>3
  <2>5. failed \subseteq Script!Commands /\ Cardinality(failed) <= MaxFailures
    BY <2>1 DEF Script!Bounds
  <2>6. saved \in [Script!Registration -> Script!Entry \cup {"none"}]
    OBVIOUS
  <2>7. at \in 1 .. Len(Script!Registrations) /\ phase \in Script!Phases
    BY Four DEF Script!Phases
  <2> HIDE DEF Script!Init
  <2>8. /\ backup \in BOOLEAN /\ undoing \in BOOLEAN /\ hadPrevious \in BOOLEAN
        /\ siteExisted \in BOOLEAN /\ said = "nothing"
    BY DEF Script!Init
  <2> QED
    BY <2>1, <2>2, <2>3, <2>4, <2>5, <2>6, <2>7, <2>8, ScriptCardinality DEF
        Script!TypeOK
<1>2. Numbered /\ Housed /\ InStep
  BY DEF Numbered, Housed, InStep, Script!Absent
<1>3. Advancing /\ Retreating
  BY DEF Advancing, Retreating
<1>4. Script!PreviousRecoverable /\ Script!MessageTrue
  BY DEF Script!PreviousRecoverable, Script!Restorable, Script!MessageTrue
<1> QED
  BY <1>1, <1>2, <1>3, <1>4 DEF ScriptIInv

\* Every step keeps the invariant.
LEMMA ScriptInductive ==
    ASSUME Script!Bounds, ScriptIInv, [Script!Next]_Script!vars PROVE ScriptIInv'
<1>1. CASE Script!Next
  <2>1. Script!TypeOK' /\ IsFiniteSet(failed)'
    BY <1>1, ScriptTypeStep DEF ScriptIInv
  <2>2. Numbered' /\ Housed' /\ InStep'
    BY <1>1, <2>1, ScriptSmallSteps
  <2>3. Advancing' /\ Retreating'
    BY <1>1, <2>1, ScriptAdvancingStep, ScriptRetreatingStep
  <2>4. Script!PreviousRecoverable' /\ Script!MessageTrue'
    BY <1>1, <2>1, <2>3, ScriptRecoverableStep, ScriptMessageStep
  <2> QED
    BY <2>1, <2>2, <2>3, <2>4 DEF ScriptIInv
<1>2. CASE UNCHANGED Script!vars
  <2> USE <1>2 DEF Script!vars, Script!trees, Script!copies, Script!script, ScriptIInv
  <2>1. Script!TypeOK' /\ IsFiniteSet(failed)'
    BY DEF Script!TypeOK
  <2>2. Numbered' /\ Housed' /\ InStep'
    BY DEF Numbered, Housed, InStep
  <2>3. Advancing'
    BY DEF Advancing, Untouched, Preserved, Copied, Script!Complete, Script!Installation
  <2>4. Retreating'
    BY DEF Retreating, Preserved, Copied, Script!Misjudged, Script!Installation
  <2>5. Script!PreviousRecoverable' /\ Script!MessageTrue'
    BY DEF Script!PreviousRecoverable, Script!MessageTrue, Script!Restorable,
        Script!Misjudged, Script!Complete, Script!Installation, Script!RecoveryPaths
  <2> QED
    BY <2>1, <2>2, <2>3, <2>4, <2>5
<1> QED
  BY <1>1, <1>2

\* The variables of the installer keep their types (install.sh).
THEOREM ScriptTypeCorrect == ASSUME Script!Bounds PROVE Script!Spec => []Script!TypeOK
<1>1. Script!Init => ScriptIInv
  BY ScriptInitial
<1>2. ScriptIInv /\ [Script!Next]_Script!vars => ScriptIInv'
  BY ScriptInductive
<1>3. ScriptIInv => Script!TypeOK
  BY DEF ScriptIInv
<1> QED
  BY <1>1, <1>2, <1>3, PTL DEF Script!Spec

\* activate_install and rollback_install: whatever fails, however often, and
\* wherever the script is killed and run again, the new version is installed, or
\* the previous runtime and registrations are in place or in the recovery paths,
\* unless a failed mv or rm was misjudged.
THEOREM PreviousIsRecoverable ==
    ASSUME Script!Bounds PROVE Script!Spec => []Script!PreviousRecoverable
<1>1. Script!Init => ScriptIInv
  BY ScriptInitial
<1>2. ScriptIInv /\ [Script!Next]_Script!vars => ScriptIInv'
  BY ScriptInductive
<1>3. ScriptIInv => Script!PreviousRecoverable
  BY DEF ScriptIInv
<1> QED
  BY <1>1, <1>2, <1>3, PTL DEF Script!Spec

\* What the script says at its end is so (install.sh:61-64, 153-156, 161).
THEOREM MessageIsTrue ==
    ASSUME Script!Bounds PROVE Script!Spec => []Script!MessageTrue
<1>1. Script!Init => ScriptIInv
  BY ScriptInitial
<1>2. ScriptIInv /\ [Script!Next]_Script!vars => ScriptIInv'
  BY ScriptInductive
<1>3. ScriptIInv => Script!MessageTrue
  BY DEF ScriptIInv
<1> QED
  BY <1>1, <1>2, <1>3, PTL DEF Script!Spec

-----------------------------------------------------------------------------
(* SetupCommand.  CompletedIsTrue is about a run that has ended; SetupIInv says *)
(* stage by stage what a run that is under way knows, of itself (RunLocal) and  *)
(* of the files and the release in Cloud that it shares with the others, and    *)
(* what of it no other run, operator or administrator can take away.            *)

\* The stages after the draft; a completed run is past them all.
Late == {"waiting", "approved", "checked", "reserved", "observed"}
Since(r, stages) == stage[r] \in stages \/ state = r
Asked(r) == draft[<<key[r], name[r]>>]

\* What a run knows of itself.
RunLocal(r) ==
    /\ stage[r] = "idle" => pairing[r] = None
    /\ stage[r] # "idle" =>
          digest[r] \in Content /\ name[r] \in {r, Named} /\ target[r] \in Cloud
    /\ Since(r, {"keyed"} \cup Late) => key[r] \in Cloud
    /\ Since(r, {"reserved", "observed"}) => ran[r] \in Setup!Release
    /\ state = r => stage[r] = "ended"
    /\ pairing[r] = "approved" => target[r] \in granted

\* What Cloud knows of its release.
RunDrafted(r) ==
    /\ Since(r, Late) => Asked(r) # None /\ Asked(r).model = digest[r]
    /\ Since(r, Late \ {"waiting"}) => Asked(r).state \in {"approved", "revoked"}

\* The protected copy held the approved artifact when it was checked again.
RunHeld(r) == Since(r, {"checked", "reserved", "observed"}) => held[r] = digest[r]

\* A release file under an id of its own is written by no other run.
RunOwn(r) ==
    name[r] = r =>
      /\ stage[r] \in {"approved", "checked"} => releaseFile[r].by = key[r]
      /\ Since(r, {"reserved", "observed"}) => ran[r].by = key[r]

\* One run has the Evidence path.
RunReserved(r) ==
    stage[r] = "reserved" =>
      /\ evidenceFile[name[r]] = Torn
      /\ \A q \in Run : stage[q] = "reserved" /\ name[q] = name[r] => q = r

\* The Evidence of a Shadow is not written over, and is of the approved artifact.
RunObserved(r) ==
    Since(r, {"observed"}) =>
      /\ evidenceFile[name[r]] = ran[r]
      /\ ran[r].status = "approved"
      /\ ran[r].by = key[r] => ran[r].model = digest[r]

SetupDomains ==
    /\ DOMAIN releaseFile = Setup!Name /\ DOMAIN evidenceFile = Setup!Name
    /\ DOMAIN draft = Cloud \X Setup!Name /\ DOMAIN ran = Run

RunGood(r) ==
    /\ RunLocal(r) /\ RunDrafted(r) /\ RunHeld(r)
    /\ RunOwn(r) /\ RunReserved(r) /\ RunObserved(r)
Credited == credential # None => credential \in granted

SetupIInv == Setup!TypeOK /\ SetupDomains /\ Credited /\ \A r \in Run : RunGood(r)

\* TypeOK in two parts.
SetupTypes ==
  /\ stage \in [Run -> {"idle", "bound", "copied", "saved", "pairing", "paired", "keyed",
                        "waiting", "approved", "checked", "reserved", "observed", "ended"}]
  /\ source \in Content
  /\ digest \in [Run -> Content \cup {None}]
  /\ name \in [Run -> Setup!Name \cup {None}]
  /\ target \in [Run -> Cloud \cup {None}] /\ key \in [Run -> Cloud \cup {None}]
  /\ pairing \in [Run -> {"pending", "approved", None}]
  /\ held \in [Run -> Content \cup {Torn, None}]
  /\ copy \in [Content -> Content \cup {Torn, None}]
  /\ granted \subseteq Cloud /\ credential \in Cloud \cup {None}

SetupStored ==
  /\ \A n \in Setup!Name : releaseFile[n] \in Setup!Release \cup {Torn, None}
  /\ \A n \in Setup!Name : evidenceFile[n] \in Setup!Release \cup {Torn, None}
  /\ \A p \in Cloud \X Setup!Name : draft[p] \in Setup!Draft \cup {None}
  /\ \A r \in Run : ran[r] \in Setup!Release \cup {None}
  /\ state \in Run \cup {Torn, None} /\ edits \in 0 .. MaxEdits

\* A run that has completed was the one that observed its Shadow.
LEMMA CompleteSince ==
    ASSUME Setup!Distinct, SetupTypes, NEW q \in Run, Setup!Complete(q), NEW r \in Run,
           NEW S, "observed" \in S, "ended" \notin S, Since(r, S)'
    PROVE  Since(r, S)
  BY DEF Setup!Distinct, SetupTypes, Setup!Complete, Since, Setup!Goes, Setup!At

\* Every step keeps what a run knows of itself.
LEMMA RunLocalStep ==
    ASSUME Setup!Distinct, SetupIInv, Setup!Next, Setup!TypeOK', NEW r \in Run
    PROVE RunLocal(r)'
<1> USE DEF Setup!files, Setup!local, Setup!cloud, Setup!Goes, Setup!At, Setup!Edited,
    Late, Since, Asked, Setup!Name
<1>0. SetupTypes /\ SetupDomains /\ RunGood(r)
  BY DEF SetupIInv, Setup!TypeOK, SetupTypes
<1>1. ASSUME NEW q \in Run,
             Setup!Copy(q) \/ Setup!CopyCutOff(q) \/ Setup!Save(q) \/ Setup!Pair(q)
             \/ Setup!Poll(q) \/ Setup!CreateDraft(q) \/ Setup!Approved(q)
             \/ Setup!CheckAgain(q) \/ Setup!Reserve(q) \/ Setup!Shadow(q)
             \/ Setup!Stop(q)
      PROVE  RunLocal(r)'
  BY <1>1, <1>0 DEF SetupIInv, RunGood, SetupTypes, SetupDomains, RunLocal, Setup!Copy,
      Setup!CopyCutOff, Setup!Save, Setup!Pair, Setup!Poll, Setup!CreateDraft,
      Setup!Approved, Setup!CheckAgain, Setup!Reserve, Setup!Shadow, Setup!Stop,
      Setup!WritesRelease, Setup!Checked
<1>2. CASE \/ \E c \in Cloud : Setup!PairElsewhere(c)
           \/ \E p \in Cloud \X Setup!Name, v \in {"approved", "revoked"} :
                 Setup!Decide(p, v)
           \/ \E c \in Content : Setup!EditSource(c)
           \/ \E c \in Content, x \in Content \cup {None} : Setup!EditCopy(c, x)
  BY <1>2, <1>0 DEF SetupIInv, RunGood, SetupTypes, SetupDomains, RunLocal,
      Setup!PairElsewhere, Setup!Decide, Setup!EditSource, Setup!EditCopy
<1>3. ASSUME NEW q \in Run, NEW n \in Setup!Name, NEW c \in Cloud, Setup!Bind(q, n, c)
      PROVE RunLocal(r)'
  BY <1>3, <1>0 DEF SetupIInv, RunGood, SetupTypes, RunLocal, Setup!Bind, Setup!Distinct
<1>4. ASSUME NEW q \in Run, Setup!ApprovePairing(q) PROVE RunLocal(r)'
  BY <1>4, <1>0 DEF SetupIInv, RunGood, SetupTypes, RunLocal, Setup!ApprovePairing,
      Setup!Distinct
<1>5. ASSUME NEW q \in Run, Setup!ReadKey(q) PROVE RunLocal(r)'
  BY <1>5, <1>0 DEF SetupIInv, RunGood, SetupTypes, RunLocal, Setup!ReadKey,
      Setup!Distinct
<1>6. ASSUME NEW q \in Run, Setup!Complete(q) PROVE RunLocal(r)'
  <2>1. CASE r = q
    BY <2>1, <1>6, <1>0 DEF RunGood, SetupTypes, RunLocal, Setup!Complete
  <2>2. CASE r # q
    BY <2>2, <1>6, <1>0 DEF RunGood, SetupTypes, RunLocal, Setup!Complete,
        Setup!Distinct
  <2> QED
    BY <2>1, <2>2
<1> QED
  BY <1>1, <1>2, <1>3, <1>4, <1>5, <1>6 DEF Setup!Next, Setup!Step

\* A draft and its verdict stay the run's own.
LEMMA RunDraftedStep ==
    ASSUME Setup!Distinct, SetupIInv, Setup!Next, Setup!TypeOK', NEW r \in Run
    PROVE RunDrafted(r)'
<1> USE DEF Setup!files, Setup!local, Setup!cloud, Setup!Goes, Setup!At, Setup!Edited,
    Late, Since, Asked, Setup!Name
<1>0. SetupTypes /\ SetupDomains /\ RunGood(r)
  BY DEF SetupIInv, Setup!TypeOK, SetupTypes
<1>1. ASSUME NEW q \in Run,
             Setup!Copy(q) \/ Setup!CopyCutOff(q) \/ Setup!Save(q) \/ Setup!Pair(q)
             \/ Setup!ApprovePairing(q) \/ Setup!Poll(q) \/ Setup!ReadKey(q)
             \/ Setup!Approved(q) \/ Setup!CheckAgain(q) \/ Setup!Reserve(q)
             \/ Setup!Shadow(q) \/ Setup!Stop(q)
      PROVE  RunDrafted(r)'
  BY <1>1, <1>0 DEF SetupIInv, RunGood, SetupTypes, SetupDomains, RunLocal, RunDrafted,
      Setup!Copy, Setup!CopyCutOff, Setup!Save, Setup!Pair, Setup!ApprovePairing,
      Setup!Poll, Setup!ReadKey, Setup!Approved, Setup!CheckAgain, Setup!Reserve,
      Setup!Shadow, Setup!Stop, Setup!WritesRelease, Setup!Checked
<1>2. CASE \/ \E c \in Cloud : Setup!PairElsewhere(c)
           \/ \E c \in Content : Setup!EditSource(c)
           \/ \E c \in Content, x \in Content \cup {None} : Setup!EditCopy(c, x)
  BY <1>2, <1>0 DEF SetupIInv, RunGood, SetupTypes, SetupDomains, RunLocal, RunDrafted,
      Setup!PairElsewhere, Setup!EditSource, Setup!EditCopy
<1>3. ASSUME NEW q \in Run, NEW n \in Setup!Name, NEW c \in Cloud, Setup!Bind(q, n, c)
      PROVE RunDrafted(r)'
  BY <1>3, <1>0 DEF SetupIInv, RunGood, SetupTypes, SetupDomains, RunLocal, RunDrafted,
      Setup!Bind
<1>4. ASSUME NEW q \in Run, Setup!CreateDraft(q) PROVE RunDrafted(r)'
  <2>1. CASE r = q
    <3>1. draft'[<<key[r], name[r]>>] = [state |-> "draft", model |-> digest[r]]
      BY <2>1, <1>4, <1>0 DEF Setup!CreateDraft, RunGood, RunLocal, SetupDomains,
          SetupTypes
    <3>2. [state |-> "draft", model |-> digest[r]] \in Setup!Draft
      BY <2>1, <1>4, <1>0 DEF Setup!CreateDraft, RunGood, RunLocal, SetupTypes,
          Setup!Draft
    <3>3. stage'[r] \in {"waiting", "ended"} /\ state # r
      BY <2>1, <1>4, <1>0 DEF Setup!CreateDraft, RunGood, RunLocal, SetupTypes
    <3> QED
      BY <3>1, <3>2, <3>3, <1>4 DEF Setup!CreateDraft, RunDrafted, Setup!Distinct
  <2>2. CASE r # q
    <3>1. Since(r, Late)' => Since(r, Late)
      BY <2>2, <1>4, <1>0 DEF Setup!CreateDraft, SetupTypes
    <3>2. Since(r, Late \ {"waiting"})' => Since(r, Late \ {"waiting"})
      BY <2>2, <1>4, <1>0 DEF Setup!CreateDraft, SetupTypes
    <3>3. Asked(r) # None => Asked(r)' = Asked(r)
      BY <2>2, <1>4, <1>0 DEF Setup!CreateDraft, SetupDomains
    <3>4. UNCHANGED <<digest, name, key>>
      BY <1>4 DEF Setup!CreateDraft
    <3> QED
      BY <3>1, <3>2, <3>3, <3>4, <1>0 DEF RunGood, RunDrafted
  <2> QED
    BY <2>1, <2>2
<1>5. ASSUME NEW q \in Run, Setup!Complete(q) PROVE RunDrafted(r)'
  BY <1>5, <1>0, CompleteSince DEF RunGood, RunDrafted, Setup!Complete
<1>6. ASSUME NEW p \in Cloud \X Setup!Name, NEW v \in {"approved", "revoked"},
             Setup!Decide(p, v)
      PROVE RunDrafted(r)'
  <2>1. CASE p # <<key[r], name[r]>>
    BY <2>1, <1>6, <1>0 DEF Setup!Decide, RunGood, RunDrafted, SetupDomains
  <2>2. CASE p = <<key[r], name[r]>>
    <3>1. draft[p] \in Setup!Draft
      BY <1>6 DEF Setup!Decide, SetupIInv, Setup!TypeOK
    <3>2. draft'[p] = [draft[p] EXCEPT !.state = v]
      BY <1>6, <1>0 DEF Setup!Decide, SetupDomains
    <3>3. /\ draft'[p] \in Setup!Draft
          /\ draft'[p].model = draft[p].model
          /\ draft'[p].state = v
      BY <3>1, <3>2, <1>6 DEF Setup!Draft
    <3> QED
      BY <2>2, <3>3, <1>6, <1>0 DEF Setup!Decide, RunGood, RunDrafted, Setup!Distinct
  <2> QED
    BY <2>1, <2>2
<1> QED
  BY <1>1, <1>2, <1>3, <1>4, <1>5, <1>6 DEF Setup!Next, Setup!Step

\* What the second check of the copy found stays noted.
LEMMA RunHeldStep ==
    ASSUME Setup!Distinct, SetupIInv, Setup!Next, Setup!TypeOK', NEW r \in Run
    PROVE RunHeld(r)'
<1> USE DEF Setup!files, Setup!local, Setup!cloud, Setup!Goes, Setup!At, Setup!Edited,
    Late, Since, Asked, Setup!Name
<1>0. SetupTypes /\ SetupDomains /\ RunGood(r)
  BY DEF SetupIInv, Setup!TypeOK, SetupTypes
<1>1. ASSUME NEW q \in Run,
             Setup!Copy(q) \/ Setup!CopyCutOff(q) \/ Setup!Save(q) \/ Setup!Pair(q)
             \/ Setup!ApprovePairing(q) \/ Setup!Poll(q) \/ Setup!ReadKey(q)
             \/ Setup!CreateDraft(q) \/ Setup!Approved(q) \/ Setup!CheckAgain(q)
             \/ Setup!Reserve(q) \/ Setup!Shadow(q) \/ Setup!Stop(q)
      PROVE  RunHeld(r)'
  BY <1>1, <1>0 DEF SetupIInv, RunGood, SetupTypes, SetupDomains, RunLocal, RunDrafted,
      RunHeld, Setup!Copy, Setup!CopyCutOff, Setup!Save, Setup!Pair,
      Setup!ApprovePairing, Setup!Poll, Setup!ReadKey, Setup!CreateDraft,
      Setup!Approved, Setup!CheckAgain, Setup!Reserve, Setup!Shadow, Setup!Stop,
      Setup!WritesRelease, Setup!Checked
<1>2. CASE \/ \E c \in Cloud : Setup!PairElsewhere(c)
           \/ \E p \in Cloud \X Setup!Name, v \in {"approved", "revoked"} :
                 Setup!Decide(p, v)
           \/ \E c \in Content : Setup!EditSource(c)
           \/ \E c \in Content, x \in Content \cup {None} : Setup!EditCopy(c, x)
  BY <1>2, <1>0 DEF SetupIInv, RunGood, SetupTypes, SetupDomains, RunLocal, RunDrafted,
      RunHeld, Setup!PairElsewhere, Setup!Decide, Setup!EditSource, Setup!EditCopy
<1>3. ASSUME NEW q \in Run, NEW n \in Setup!Name, NEW c \in Cloud, Setup!Bind(q, n, c)
      PROVE RunHeld(r)'
  BY <1>3, <1>0 DEF SetupIInv, RunGood, SetupTypes, SetupDomains, RunLocal, RunDrafted,
      RunHeld, Setup!Bind
<1>4. ASSUME NEW q \in Run, Setup!Complete(q) PROVE RunHeld(r)'
  BY <1>4, <1>0, CompleteSince DEF RunGood, RunHeld, Setup!Complete
<1> QED
  BY <1>1, <1>2, <1>3, <1>4 DEF Setup!Next, Setup!Step

\* No other run writes a release file of a name of its own.
LEMMA RunOwnStep ==
    ASSUME Setup!Distinct, SetupIInv, Setup!Next, Setup!TypeOK', NEW r \in Run
    PROVE RunOwn(r)'
<1> USE DEF Setup!files, Setup!local, Setup!cloud, Setup!Goes, Setup!At, Setup!Edited,
    Late, Since, Asked, Setup!Name
<1>0. SetupTypes /\ SetupDomains /\ RunGood(r)
  BY DEF SetupIInv, Setup!TypeOK, SetupTypes
<1>1. ASSUME NEW q \in Run,
             Setup!Copy(q) \/ Setup!CopyCutOff(q) \/ Setup!Pair(q)
             \/ Setup!ApprovePairing(q) \/ Setup!Poll(q) \/ Setup!ReadKey(q)
             \/ Setup!CreateDraft(q) \/ Setup!CheckAgain(q) \/ Setup!Reserve(q)
             \/ Setup!Shadow(q) \/ Setup!Stop(q)
      PROVE  RunOwn(r)'
  BY <1>1, <1>0 DEF SetupIInv, RunGood, SetupTypes, SetupDomains, RunLocal, RunDrafted,
      RunOwn, Setup!Copy, Setup!CopyCutOff, Setup!Pair, Setup!ApprovePairing,
      Setup!Poll, Setup!ReadKey, Setup!CreateDraft, Setup!CheckAgain, Setup!Reserve,
      Setup!Shadow, Setup!Stop, Setup!Checked
<1>2. CASE \/ \E c \in Cloud : Setup!PairElsewhere(c)
           \/ \E p \in Cloud \X Setup!Name, v \in {"approved", "revoked"} :
                 Setup!Decide(p, v)
           \/ \E c \in Content : Setup!EditSource(c)
           \/ \E c \in Content, x \in Content \cup {None} : Setup!EditCopy(c, x)
  BY <1>2, <1>0 DEF SetupIInv, RunGood, SetupTypes, SetupDomains, RunLocal, RunDrafted,
      RunOwn, Setup!PairElsewhere, Setup!Decide, Setup!EditSource, Setup!EditCopy
<1>3. ASSUME NEW q \in Run, NEW n \in Setup!Name, NEW c \in Cloud, Setup!Bind(q, n, c)
      PROVE RunOwn(r)'
  BY <1>3, <1>0 DEF SetupIInv, RunGood, SetupTypes, SetupDomains, RunLocal, RunDrafted,
      RunOwn, Setup!Bind
<1>4. ASSUME NEW q \in Run, Setup!Save(q) PROVE RunOwn(r)'
  <2>1. CASE r = q
    BY <2>1, <1>4, <1>0 DEF RunGood, SetupTypes, SetupDomains, RunLocal, RunOwn,
        Setup!Save, Setup!WritesRelease
  <2>2. CASE r # q
    <3>1. name[r] = r => name[q] # r
      BY <2>2, <1>4 DEF Setup!Save, SetupIInv, RunGood, RunLocal, Setup!Distinct
    <3>2. name[r] = r => releaseFile'[r] = releaseFile[r]
      BY <3>1, <1>4, <1>0 DEF Setup!Save, Setup!WritesRelease, SetupDomains
    <3> QED
      BY <2>2, <3>2, <1>4, <1>0 DEF Setup!Save, Setup!WritesRelease, RunGood, RunOwn,
          SetupTypes
  <2> QED
    BY <2>1, <2>2
<1>5. ASSUME NEW q \in Run, Setup!Approved(q) PROVE RunOwn(r)'
  <2>1. CASE r = q
    BY <2>1, <1>5, <1>0 DEF RunGood, SetupTypes, SetupDomains, RunLocal, RunOwn,
        Setup!Approved, Setup!WritesRelease
  <2>2. CASE r # q
    <3>1. name[r] = r => name[q] # r
      BY <2>2, <1>5 DEF Setup!Approved, SetupIInv, RunGood, RunLocal, Setup!Distinct
    <3>2. name[r] = r => releaseFile'[r] = releaseFile[r]
      BY <3>1, <1>5, <1>0 DEF Setup!Approved, Setup!WritesRelease, SetupDomains
    <3> QED
      BY <2>2, <3>2, <1>5, <1>0 DEF Setup!Approved, Setup!WritesRelease, RunGood,
          RunOwn, SetupTypes
  <2> QED
    BY <2>1, <2>2
<1>6. ASSUME NEW q \in Run, Setup!Complete(q) PROVE RunOwn(r)'
  <2>1. Since(r, {"reserved", "observed"})' => Since(r, {"reserved", "observed"})
    BY <1>6, <1>0, CompleteSince
  <2>2. stage'[r] \in {"approved", "checked"} => stage[r] \in {"approved", "checked"}
    BY <1>6, <1>0 DEF Setup!Complete, SetupTypes
  <2> QED
    BY <2>1, <2>2, <1>6, <1>0 DEF RunGood, RunOwn, Setup!Complete
<1> QED
  BY <1>1, <1>2, <1>3, <1>4, <1>5, <1>6 DEF Setup!Next, Setup!Step

\* The Evidence path is taken by one run at a time.
LEMMA RunReservedStep ==
    ASSUME Setup!Distinct, SetupIInv, Setup!Next, Setup!TypeOK', NEW r \in Run
    PROVE RunReserved(r)'
<1> USE DEF Setup!files, Setup!local, Setup!cloud, Setup!Goes, Setup!At, Setup!Edited,
    Late, Since, Asked, Setup!Name
<1>0. SetupTypes /\ SetupDomains /\ RunGood(r)
  BY DEF SetupIInv, Setup!TypeOK, SetupTypes
<1>1. ASSUME NEW q \in Run,
             Setup!Copy(q) \/ Setup!CopyCutOff(q) \/ Setup!Save(q) \/ Setup!Pair(q)
             \/ Setup!ApprovePairing(q) \/ Setup!Poll(q) \/ Setup!ReadKey(q)
             \/ Setup!CreateDraft(q) \/ Setup!Approved(q) \/ Setup!CheckAgain(q)
             \/ Setup!Shadow(q) \/ Setup!Complete(q) \/ Setup!Stop(q)
      PROVE  RunReserved(r)'
  BY <1>1, <1>0 DEF SetupIInv, RunGood, SetupTypes, SetupDomains, RunLocal, RunReserved,
      Setup!Copy, Setup!CopyCutOff, Setup!Save, Setup!Pair, Setup!ApprovePairing,
      Setup!Poll, Setup!ReadKey, Setup!CreateDraft, Setup!Approved, Setup!CheckAgain,
      Setup!Shadow, Setup!Complete, Setup!Stop, Setup!WritesRelease, Setup!Checked
<1>2. CASE \/ \E c \in Cloud : Setup!PairElsewhere(c)
           \/ \E p \in Cloud \X Setup!Name, v \in {"approved", "revoked"} :
                 Setup!Decide(p, v)
           \/ \E c \in Content : Setup!EditSource(c)
           \/ \E c \in Content, x \in Content \cup {None} : Setup!EditCopy(c, x)
  BY <1>2, <1>0 DEF SetupIInv, RunGood, SetupTypes, SetupDomains, RunLocal, RunReserved,
      Setup!PairElsewhere, Setup!Decide, Setup!EditSource, Setup!EditCopy
<1>3. ASSUME NEW q \in Run, NEW n \in Setup!Name, NEW c \in Cloud, Setup!Bind(q, n, c)
      PROVE RunReserved(r)'
  BY <1>3, <1>0 DEF SetupIInv, RunGood, SetupTypes, SetupDomains, RunLocal, RunReserved,
      Setup!Bind
<1>4. ASSUME NEW q \in Run, Setup!Reserve(q) PROVE RunReserved(r)'
  <2>1. \A d \in Run : stage[d] = "reserved" => name[d] # name[q]
    BY <1>4 DEF Setup!Reserve, SetupIInv, RunGood, RunReserved, Setup!Distinct
  <2>2. \A d \in Run : stage'[d] = "reserved" => d = q \/ stage[d] = "reserved"
    BY <1>4, <1>0 DEF Setup!Reserve, SetupTypes
  <2>3. name[q] \in Setup!Name
    BY <1>4 DEF Setup!Reserve, SetupIInv, RunGood, RunLocal
  <2>4. evidenceFile' = [evidenceFile EXCEPT ![name[q]] = Torn] /\ name' = name
    BY <1>4 DEF Setup!Reserve
  <2>5. stage'[r] = "reserved" => evidenceFile'[name[r]] = Torn
    BY <2>1, <2>2, <2>3, <2>4, <1>0 DEF RunGood, RunReserved, SetupDomains
  <2> QED
    BY <2>1, <2>2, <2>4, <2>5, <1>0 DEF RunGood, RunReserved
<1> QED
  BY <1>1, <1>2, <1>3, <1>4 DEF Setup!Next, Setup!Step

\* An Evidence of a Shadow stays as it was written.
LEMMA RunObservedStep ==
    ASSUME Setup!Distinct, SetupIInv, Setup!Next, Setup!TypeOK', NEW r \in Run
    PROVE RunObserved(r)'
<1> USE DEF Setup!files, Setup!local, Setup!cloud, Setup!Goes, Setup!At, Setup!Edited,
    Late, Since, Asked, Setup!Name
<1>0. SetupTypes /\ SetupDomains /\ RunGood(r)
  BY DEF SetupIInv, Setup!TypeOK, SetupTypes
<1>1. ASSUME NEW q \in Run,
             Setup!Copy(q) \/ Setup!CopyCutOff(q) \/ Setup!Save(q) \/ Setup!Pair(q)
             \/ Setup!ApprovePairing(q) \/ Setup!Poll(q) \/ Setup!ReadKey(q)
             \/ Setup!CreateDraft(q) \/ Setup!Approved(q) \/ Setup!CheckAgain(q)
             \/ Setup!Stop(q)
      PROVE  RunObserved(r)'
  BY <1>1, <1>0 DEF SetupIInv, RunGood, SetupTypes, SetupDomains, RunLocal, RunDrafted,
      RunOwn, RunReserved, RunObserved, Setup!Copy, Setup!CopyCutOff, Setup!Save,
      Setup!Pair, Setup!ApprovePairing, Setup!Poll, Setup!ReadKey, Setup!CreateDraft,
      Setup!Approved, Setup!CheckAgain, Setup!Stop, Setup!WritesRelease, Setup!Checked
<1>2. CASE \/ \E c \in Cloud : Setup!PairElsewhere(c)
           \/ \E p \in Cloud \X Setup!Name, v \in {"approved", "revoked"} :
                 Setup!Decide(p, v)
           \/ \E c \in Content : Setup!EditSource(c)
           \/ \E c \in Content, x \in Content \cup {None} : Setup!EditCopy(c, x)
  BY <1>2, <1>0 DEF SetupIInv, RunGood, SetupTypes, SetupDomains, RunLocal, RunDrafted,
      RunOwn, RunReserved, RunObserved, Setup!PairElsewhere, Setup!Decide,
      Setup!EditSource, Setup!EditCopy
<1>3. ASSUME NEW q \in Run, NEW n \in Setup!Name, NEW c \in Cloud, Setup!Bind(q, n, c)
      PROVE RunObserved(r)'
  BY <1>3, <1>0 DEF SetupIInv, RunGood, SetupTypes, SetupDomains, RunLocal, RunDrafted,
      RunOwn, RunReserved, RunObserved, Setup!Bind
<1>4. ASSUME NEW q \in Run, Setup!Reserve(q) PROVE RunObserved(r)'
  <2>1. Since(r, {"observed"})' => Since(r, {"observed"}) /\ r # q
    BY <1>4, <1>0 DEF Setup!Reserve, SetupTypes, RunGood, RunLocal
  <2>2. Since(r, {"observed"}) => ran[r] \in Setup!Release
    BY <1>0 DEF RunGood, RunLocal
  <2>3. Since(r, {"observed"}) => name[r] # name[q]
    BY <2>2, <1>4, <1>0 DEF Setup!Reserve, RunGood, RunObserved, Setup!Distinct
  <2> QED
    BY <2>1, <2>3, <1>4, <1>0 DEF Setup!Reserve, RunGood, RunObserved, SetupDomains
<1>5. ASSUME NEW q \in Run, Setup!Shadow(q) PROVE RunObserved(r)'
  <2>1. CASE r = q
    <3>1. /\ ran[r].status = "approved" /\ ran[r].by = credential
          /\ ran[r].model = draft[<<credential, name[r]>>].model
      BY <2>1, <1>5 DEF Setup!Shadow
    <3>2. evidenceFile'[name[r]] = ran[r]
      BY <2>1, <1>5, <1>0 DEF Setup!Shadow, RunGood, RunLocal, SetupDomains
    <3>3. ran[r].by = key[r] => ran[r].model = digest[r]
      BY <2>1, <3>1, <1>5, <1>0 DEF Setup!Shadow, RunGood, RunDrafted
    <3> QED
      BY <3>1, <3>2, <3>3, <1>5 DEF Setup!Shadow, RunObserved
  <2>2. CASE r # q
    <3>1. evidenceFile[name[q]] = Torn
      BY <1>5 DEF Setup!Shadow, SetupIInv, RunGood, RunReserved
    <3>2. Since(r, {"observed"}) => ran[r] \in Setup!Release
      BY <1>0 DEF RunGood, RunLocal
    <3>3. Since(r, {"observed"}) => name[r] # name[q]
      BY <3>1, <3>2, <1>0 DEF RunGood, RunObserved, Setup!Distinct
    <3> QED
      BY <2>2, <3>3, <1>5, <1>0 DEF Setup!Shadow, RunGood, RunObserved, SetupTypes
  <2> QED
    BY <2>1, <2>2
<1>6. ASSUME NEW q \in Run, Setup!Complete(q) PROVE RunObserved(r)'
  BY <1>6, <1>0, CompleteSince DEF RunGood, RunObserved, Setup!Complete
<1> QED
  BY <1>1, <1>2, <1>3, <1>4, <1>5, <1>6 DEF Setup!Next, Setup!Step

\* Every step keeps the types of what runs hold.
LEMMA SetupTypesStep == ASSUME Setup!Distinct, SetupIInv, Setup!Next PROVE SetupTypes'
<1> USE DEF Setup!files, Setup!local, Setup!cloud, Setup!Goes, Setup!At, Setup!Edited
<1>0. SetupTypes /\ SetupStored /\ SetupDomains /\ \A r \in Run : RunLocal(r)
  BY DEF SetupIInv, Setup!TypeOK, SetupTypes, SetupStored, RunGood
<1>1. ASSUME NEW q \in Run,
             Setup!Copy(q) \/ Setup!CopyCutOff(q) \/ Setup!Save(q) \/ Setup!Pair(q)
             \/ Setup!Poll(q) \/ Setup!ReadKey(q) \/ Setup!CreateDraft(q)
             \/ Setup!Approved(q) \/ Setup!CheckAgain(q) \/ Setup!Reserve(q)
             \/ Setup!Shadow(q) \/ Setup!Complete(q) \/ Setup!Stop(q)
      PROVE  SetupTypes'
  BY <1>1, <1>0 DEF SetupTypes, RunLocal, Setup!Name, Setup!Copy, Setup!CopyCutOff,
      Setup!Save, Setup!Pair, Setup!Poll, Setup!ReadKey, Setup!CreateDraft,
      Setup!Approved, Setup!CheckAgain, Setup!Reserve, Setup!Shadow, Setup!Complete,
      Setup!Stop, Setup!WritesRelease, Setup!Checked
<1>2. ASSUME NEW q \in Run, NEW n \in Setup!Name, NEW c \in Cloud, Setup!Bind(q, n, c)
      PROVE SetupTypes'
  BY <1>2, <1>0 DEF Setup!Bind, SetupTypes
<1>3. ASSUME NEW q \in Run, Setup!ApprovePairing(q) PROVE SetupTypes'
  BY <1>3, <1>0 DEF Setup!ApprovePairing, SetupTypes, RunLocal, Setup!Distinct
<1>4. CASE \/ \E c \in Cloud : Setup!PairElsewhere(c)
           \/ \E p \in Cloud \X Setup!Name, v \in {"approved", "revoked"} :
                 Setup!Decide(p, v)
           \/ \E c \in Content : Setup!EditSource(c)
           \/ \E c \in Content, x \in Content \cup {None} : Setup!EditCopy(c, x)
  BY <1>4, <1>0 DEF SetupTypes, Setup!PairElsewhere, Setup!Decide, Setup!EditSource,
      Setup!EditCopy
<1> QED
  BY <1>1, <1>2, <1>3, <1>4 DEF Setup!Next, Setup!Step

\* What is stored about releases is stored under the names there are.
LEMMA SetupDomainsStep == ASSUME SetupIInv, Setup!Next PROVE SetupDomains'
  BY DEF SetupIInv, SetupDomains, Setup!Next, Setup!Step, Setup!files, Setup!local,
      Setup!cloud, Setup!Bind, Setup!Copy, Setup!CopyCutOff, Setup!Save, Setup!Pair,
      Setup!ApprovePairing, Setup!Poll, Setup!ReadKey, Setup!CreateDraft,
      Setup!Approved, Setup!CheckAgain, Setup!Reserve, Setup!Shadow, Setup!Complete,
      Setup!Stop, Setup!PairElsewhere, Setup!Decide, Setup!EditSource, Setup!EditCopy,
      Setup!WritesRelease, Setup!Checked

\* Every step keeps the types of what is stored about releases.
LEMMA SetupStoredStep == ASSUME Setup!Distinct, SetupIInv, Setup!Next PROVE SetupStored'
<1> USE DEF Setup!files, Setup!local, Setup!cloud, Setup!Goes, Setup!At, Setup!Edited
<1>0. SetupTypes /\ SetupStored /\ SetupDomains /\ \A r \in Run : RunLocal(r)
  BY DEF SetupIInv, Setup!TypeOK, SetupTypes, SetupStored, RunGood
<1>1. ASSUME NEW q \in Run,
             Setup!Copy(q) \/ Setup!CopyCutOff(q) \/ Setup!Pair(q)
             \/ Setup!ApprovePairing(q) \/ Setup!Poll(q) \/ Setup!ReadKey(q)
             \/ Setup!CheckAgain(q) \/ Setup!Reserve(q) \/ Setup!Shadow(q)
             \/ Setup!Complete(q) \/ Setup!Stop(q)
      PROVE  SetupStored'
  BY <1>1, <1>0 DEF SetupTypes, SetupStored, SetupDomains, RunLocal, Setup!Distinct,
      Setup!Copy, Setup!CopyCutOff, Setup!Pair, Setup!ApprovePairing, Setup!Poll,
      Setup!ReadKey, Setup!CheckAgain, Setup!Reserve, Setup!Shadow, Setup!Complete,
      Setup!Stop, Setup!Checked
<1>2. ASSUME NEW q \in Run, NEW n \in Setup!Name, NEW c \in Cloud, Setup!Bind(q, n, c)
      PROVE SetupStored'
  BY <1>2, <1>0 DEF Setup!Bind, SetupStored
<1>3. ASSUME NEW q \in Run, Setup!Save(q) PROVE SetupStored'
  <2>1. digest[q] \in Content
    BY <1>3, <1>0 DEF Setup!Save, RunLocal
  <2>2. [status |-> "tested", model |-> digest[q], by |-> None] \in Setup!Release
    BY <2>1 DEF Setup!Release
  <2> QED
    BY <2>2, <1>3, <1>0 DEF Setup!Save, Setup!WritesRelease, SetupStored, SetupDomains
<1>4. ASSUME NEW q \in Run, Setup!CreateDraft(q) PROVE SetupStored'
  <2>1. digest[q] \in Content
    BY <1>4, <1>0 DEF Setup!CreateDraft, RunLocal
  <2>2. [state |-> "draft", model |-> digest[q]] \in Setup!Draft
    BY <2>1 DEF Setup!Draft
  <2> QED
    BY <2>2, <1>4, <1>0 DEF Setup!CreateDraft, SetupStored, SetupDomains
<1>5. ASSUME NEW q \in Run, Setup!Approved(q) PROVE SetupStored'
  <2>1. key[q] \in Cloud /\ name[q] \in Setup!Name
    BY <1>5, <1>0 DEF Setup!Approved, RunLocal, Since, Late, Setup!Name
  <2>2. Asked(q) # None
    BY <1>5 DEF Setup!Approved, SetupIInv, RunGood, RunDrafted, Since, Late
  <2>3. Asked(q) \in Setup!Draft
    BY <2>1, <2>2, <1>0 DEF Asked, SetupStored
  <2>4. [status |-> "approved", model |-> Asked(q).model, by |-> key[q]] \in Setup!Release
    BY <2>1, <2>3 DEF Setup!Release, Setup!Draft
  <2> QED
    BY <2>4, <1>5, <1>0 DEF Setup!Approved, Setup!WritesRelease, SetupStored,
        SetupDomains, Asked
<1>6. ASSUME NEW p \in Cloud \X Setup!Name, NEW v \in {"approved", "revoked"},
             Setup!Decide(p, v)
      PROVE  SetupStored'
  <2>1. draft[p] \in Setup!Draft
    BY <1>6, <1>0 DEF Setup!Decide, SetupStored
  <2>2. [draft[p] EXCEPT !.state = v] \in Setup!Draft
    BY <2>1, <1>6 DEF Setup!Draft
  <2> QED
    BY <2>2, <1>6, <1>0 DEF Setup!Decide, SetupStored, SetupDomains
<1>7. CASE \/ \E c \in Cloud : Setup!PairElsewhere(c)
           \/ \E c \in Content : Setup!EditSource(c)
           \/ \E c \in Content, x \in Content \cup {None} : Setup!EditCopy(c, x)
  BY <1>7, <1>0 DEF SetupStored, Setup!Distinct, Setup!PairElsewhere, Setup!EditSource,
      Setup!EditCopy
<1> QED
  BY <1>1, <1>2, <1>3, <1>4, <1>5, <1>6, <1>7 DEF Setup!Next, Setup!Step

\* The credential is one that was approved.
LEMMA CreditedStep == ASSUME Setup!Distinct, SetupIInv, Setup!Next PROVE Credited'
<1> USE DEF Setup!files, Setup!local, Setup!cloud
<1>1. CASE UNCHANGED <<credential, granted>>
  BY <1>1 DEF SetupIInv, Credited
<1>2. ASSUME NEW q \in Run, Setup!ApprovePairing(q) \/ Setup!Poll(q) PROVE Credited'
  BY <1>2 DEF SetupIInv, Credited, RunGood, RunLocal, Setup!ApprovePairing, Setup!Poll
<1>3. ASSUME NEW c \in Cloud, Setup!PairElsewhere(c) PROVE Credited'
  BY <1>3 DEF Credited, Setup!PairElsewhere
<1> QED
  BY <1>1, <1>2, <1>3 DEF Setup!Next, Setup!Step, Setup!Bind, Setup!Copy,
      Setup!CopyCutOff, Setup!Save, Setup!Pair, Setup!ReadKey, Setup!CreateDraft,
      Setup!Approved, Setup!WritesRelease, Setup!CheckAgain, Setup!Checked,
      Setup!Reserve, Setup!Shadow, Setup!Complete, Setup!Stop, Setup!Decide,
      Setup!EditSource, Setup!EditCopy

\* The two parts are all of TypeOK.
LEMMA SetupSameTypes == Setup!TypeOK <=> SetupTypes /\ SetupStored
  BY DEF Setup!TypeOK, SetupTypes, SetupStored

\* The initial state.
LEMMA SetupInitial == ASSUME Setup!Distinct, Setup!Init PROVE SetupIInv
<1> USE DEF Setup!Init
<1>1. SetupTypes
  BY DEF Setup!Distinct, SetupTypes
<1>2. SetupStored /\ SetupDomains
  BY DEF Setup!Distinct, SetupStored, SetupDomains
<1>3. Credited
  BY DEF Credited
<1>4. ASSUME NEW r \in Run PROVE RunGood(r)
  <2>1. stage[r] = "idle" /\ state = None /\ pairing[r] = None /\ name[r] = None
    OBVIOUS
  <2>2. None # r /\ None # "approved"
    BY DEF Setup!Distinct
  <2> QED
    BY <2>1, <2>2 DEF RunGood, RunLocal, RunDrafted, RunHeld, RunOwn, RunReserved,
        RunObserved, Since, Late
<1> QED
  BY <1>1, <1>2, <1>3, <1>4, SetupSameTypes DEF SetupIInv

\* Every step keeps the invariant.
LEMMA SetupInductive ==
    ASSUME Setup!Distinct, SetupIInv, [Setup!Next]_Setup!vars
    PROVE SetupIInv'
<1>1. CASE Setup!Next
  <2>1. Setup!TypeOK' /\ SetupDomains'
    BY <1>1, SetupTypesStep, SetupStoredStep, SetupDomainsStep DEF Setup!TypeOK,
        SetupTypes, SetupStored
  <2>2. \A r \in Run : RunGood(r)'
    BY <1>1, <2>1, RunLocalStep, RunDraftedStep, RunHeldStep, RunOwnStep,
        RunReservedStep, RunObservedStep DEF RunGood
  <2> QED
    BY <1>1, <2>1, <2>2, CreditedStep DEF SetupIInv
<1>2. CASE UNCHANGED Setup!vars
  <2>1. UNCHANGED <<stage, source, digest, name, target, key, held, ran, pairing, granted,
                    draft, credential, copy, releaseFile, evidenceFile, state, edits>>
    BY <1>2 DEF Setup!vars, Setup!local, Setup!cloud, Setup!files
  <2>2. Setup!TypeOK' /\ SetupDomains' /\ Credited'
    BY <2>1 DEF SetupIInv, Setup!TypeOK, SetupDomains, Credited
  <2>3. ASSUME NEW r \in Run PROVE RunGood(r)'
    BY <2>1 DEF SetupIInv, RunGood, RunLocal, RunDrafted, Asked, RunHeld, RunOwn,
        RunReserved, RunObserved, Since
  <2> QED
    BY <2>2, <2>3 DEF SetupIInv
<1> QED
  BY <1>1, <1>2

\* What the invariant is for.
LEMMA SetupSuffices == ASSUME Setup!Distinct, SetupIInv PROVE Setup!CompletedIsTrue
<1>1. ASSUME NEW r \in Run, state = r
      PROVE LET d == draft[<<key[r], name[r]>>] IN
       /\ d # None
       /\ d.state \in {"approved", "revoked"}
       /\ d.model = digest[r]
       /\ held[r] = digest[r]
       /\ evidenceFile[name[r]] = ran[r]
       /\ ran[r].status = "approved"
       /\ ran[r].by = key[r] => ran[r].model = digest[r]
       /\ name[r] # Named => ran[r].by = key[r]
  <2>1. /\ Since(r, Late) /\ Since(r, Late \ {"waiting"}) /\ Since(r, {"observed"})
        /\ Since(r, {"checked", "reserved", "observed"})
        /\ Since(r, {"reserved", "observed"})
    BY <1>1 DEF Since
  <2>2. RunGood(r)
    BY DEF SetupIInv
  <2>3. name[r] \in {r, Named}
    BY <2>2, <1>1 DEF RunGood, RunLocal
  <2> QED
    BY <2>1, <2>2, <2>3 DEF RunGood, RunDrafted, Asked, RunHeld, RunOwn, RunObserved
<1> QED
  BY <1>1 DEF Setup!CompletedIsTrue, SetupIInv, Credited

\* The variables of the set-up keep their types (setup.ts, pair.ts).
THEOREM SetupTypeCorrect == ASSUME Setup!Distinct PROVE Setup!Spec => []Setup!TypeOK
<1>1. Setup!Init => SetupIInv
  BY SetupInitial
<1>2. SetupIInv /\ [Setup!Next]_Setup!vars => SetupIInv'
  BY SetupInductive
<1>3. SetupIInv => Setup!TypeOK
  BY DEF SetupIInv
<1> QED
  BY <1>1, <1>2, <1>3, PTL DEF Setup!Spec

\* setup.json stands for what it says, for any runs, Clouds, artifacts and edits:
\* the Cloud of the run approved its release for its artifact, the protected copy
\* held that artifact afterwards, and the Evidence is of the run's own Shadow.
THEOREM CompletedMeansApproved ==
    ASSUME Setup!Distinct
    PROVE Setup!Spec => []Setup!CompletedIsTrue
<1>1. Setup!Init => SetupIInv
  BY SetupInitial
<1>2. SetupIInv /\ [Setup!Next]_Setup!vars => SetupIInv'
  BY SetupInductive
<1>3. SetupIInv => Setup!CompletedIsTrue
  BY SetupSuffices
<1> QED
  BY <1>1, <1>2, <1>3, PTL DEF Setup!Spec

-----------------------------------------------------------------------------
(* ValidationCases.  CollectedIsTrue speaks of what one collection accepts; the   *)
(* invariant says of every run where its proposal comes from, that the Cloud's    *)
(* chain has one entry per run, and what the reason of an entry stands for.       *)

\* What a Cloud entry gives as its reason, and what the runs and entries are.
CaseReasons == {"shadow_permit_evaluated_no_controller_call", "proposal_id_duplicate",
            "cloud_release_not_eligible:revoked", "configuration_mismatch"}

\* The reason each case wants.
LEMMA CaseReasonsOf ==
  /\ Cases!ReasonOf("setup_zero_to_shadow") = "shadow_permit_evaluated_no_controller_call"
  /\ Cases!ReasonOf("restart_shadow") = "shadow_permit_evaluated_no_controller_call"
  /\ Cases!ReasonOf("duplicate_replay") = "proposal_id_duplicate"
  /\ Cases!ReasonOf("revoked_release") = "cloud_release_not_eligible:revoked"
  /\ Cases!ReasonOf("configuration_drift") = "configuration_mismatch"
  BY DEF Cases!ReasonOf

CaseProposals == [id : Nat, release : Nat, created : Nat]
CaseRun == [case : Cases!CaseId, session : Nat, proposal : CaseProposals,
            setup : Nat, start : Nat, finish : Nat, exit : {0, 2}]
CaseEntry == [proposal : CaseProposals, release : Nat, reason : CaseReasons,
              observed : {"none", "other", "approved"}, at : Nat, revokedThen : BOOLEAN,
                driftThen : BOOLEAN]

CaseTyped ==
  /\ clock \in Nat /\ extra \in 0 .. MaxExtra
  /\ session \in [id : Nat, created : Nat] /\ session.created <= clock
  /\ approved \in Seq(Nat) /\ revoked \subseteq DOMAIN approved
  /\ runs \in Seq(CaseRun) /\ chain \in Seq(CaseEntry)
  /\ Len(runs) <= MaxCases

\* One run, one unit of time and one entry at a time.
CaseInStep ==
  /\ Len(chain) = Len(runs) /\ clock = Len(runs) + 1
  /\ \A n \in 1 .. Len(runs) :
        chain[n].proposal = runs[n].proposal /\ chain[n].at = n + 1

\* A proposal is numbered and dated by the run it was made in.
CaseTraced ==
  \A n \in 1 .. Len(runs) :
     LET p == runs[n].proposal IN
     p.id \in 1 .. n /\ p.created = p.id /\ runs[p.id].proposal = p

\* What an entry says of its run.
CaseReasoned ==
  \A n \in 1 .. Len(runs) :
     LET e == chain[n] IN
     /\ e.reason = "proposal_id_duplicate" <=> e.proposal.id < n
     /\ e.reason = "cloud_release_not_eligible:revoked" => e.revokedThen
     /\ e.reason = "configuration_mismatch" => e.driftThen /\ ~e.revokedThen

CaseIInv == CaseTyped /\ CaseInStep /\ CaseTraced /\ CaseReasoned

\* Every step that adds a run adds its entry and takes one unit of time.
CaseAdds(r, e) ==
  /\ r \in CaseRun /\ e \in CaseEntry
  /\ runs' = Append(runs, r) /\ chain' = Append(chain, e)
  /\ clock' = clock + 1 /\ e.proposal = r.proposal /\ e.at = clock + 1
  /\ \/ r.proposal.id = clock /\ r.proposal.created = clock
     \/ \E n \in DOMAIN runs : r.proposal = runs[n].proposal
  /\ e.reason = "proposal_id_duplicate" <=> e.proposal.id < clock
  /\ e.reason = "cloud_release_not_eligible:revoked" => e.revokedThen
  /\ e.reason = "configuration_mismatch" => e.driftThen /\ ~e.revokedThen

\* A run that is added so keeps what the invariant says of runs and entries.
LEMMA CaseAddsKeeps ==
  ASSUME CaseIInv, NEW r, NEW e, CaseAdds(r, e)
  PROVE  CaseInStep' /\ CaseTraced' /\ CaseReasoned' /\ runs' \in Seq(CaseRun)
           /\ chain' \in Seq(CaseEntry)
<1>1. /\ runs \in Seq(CaseRun) /\ chain \in Seq(CaseEntry) /\ r \in CaseRun
           /\ e \in CaseEntry
      /\ Len(runs) \in Nat /\ Len(chain) = Len(runs) /\ DOMAIN runs = 1 .. Len(runs)
      /\ clock = Len(runs) + 1
  BY LenProperties DEF CaseIInv, CaseTyped, CaseInStep, CaseAdds
<1>2. /\ runs' \in Seq(CaseRun) /\ Len(runs') = Len(runs) + 1
      /\ \A n \in 1 .. Len(runs) : runs'[n] = runs[n]
      /\ runs'[clock] = r
  BY <1>1, AppendProperties DEF CaseAdds
<1>3. /\ chain' \in Seq(CaseEntry) /\ Len(chain') = Len(chain) + 1
      /\ \A n \in 1 .. Len(runs) : chain'[n] = chain[n]
      /\ chain'[clock] = e
  BY <1>1, AppendProperties DEF CaseAdds
<1>4. CaseInStep'
  <2>1. ASSUME NEW n \in 1 .. Len(runs')
               PROVE chain'[n].proposal = runs'[n].proposal /\ chain'[n].at = n + 1
    <3>1. CASE n = clock
      BY <3>1, <1>2, <1>3 DEF CaseAdds
    <3>2. CASE n \in 1 .. Len(runs)
      BY <3>2, <1>2, <1>3 DEF CaseIInv, CaseInStep
    <3> QED
      BY <3>1, <3>2, <1>1, <1>2
  <2> QED
    BY <2>1, <1>1, <1>2, <1>3 DEF CaseInStep, CaseAdds
<1>5. CaseTraced'
  <2> SUFFICES ASSUME NEW n \in 1 .. Len(runs')
               PROVE  LET p == runs'[n].proposal IN
                      p.id \in 1 .. n /\ p.created = p.id /\ runs'[p.id].proposal = p
    BY DEF CaseTraced
  <2>1. CASE n \in 1 .. Len(runs)
    BY <2>1, <1>1, <1>2 DEF CaseIInv, CaseTraced
  <2>2. CASE n = clock
    <3>1. CASE r.proposal.id = clock /\ r.proposal.created = clock
      BY <3>1, <2>2, <1>1, <1>2
    <3>2. CASE \E m \in DOMAIN runs : r.proposal = runs[m].proposal
      <4>1. PICK m \in 1 .. Len(runs) : r.proposal = runs[m].proposal
        BY <3>2, <1>1
      <4>2. /\ runs[m].proposal.id \in 1 .. m /\ runs[m].proposal.created
                 = runs[m].proposal.id
            /\ runs[runs[m].proposal.id].proposal = runs[m].proposal
        BY <4>1 DEF CaseIInv, CaseTraced
      <4> QED
        BY <4>1, <4>2, <2>2, <1>1, <1>2
    <3> QED
      BY <3>1, <3>2 DEF CaseAdds
  <2> QED
    BY <2>1, <2>2, <1>1, <1>2
<1>6. CaseReasoned'
  <2> SUFFICES ASSUME NEW n \in 1 .. Len(runs')
               PROVE  LET x == chain'[n] IN
                      /\ x.reason = "proposal_id_duplicate" <=> x.proposal.id < n
                      /\ x.reason = "cloud_release_not_eligible:revoked" => x.revokedThen
                      /\ x.reason = "configuration_mismatch" => x.driftThen
                           /\ ~x.revokedThen
    BY DEF CaseReasoned
  <2>1. CASE n \in 1 .. Len(runs)
    BY <2>1, <1>3 DEF CaseIInv, CaseReasoned
  <2>2. CASE n = clock
    BY <2>2, <1>3 DEF CaseAdds
  <2> QED
    BY <2>1, <2>2, <1>1, <1>2
<1> QED
  BY <1>2, <1>3, <1>4, <1>5, <1>6

\* A run was made of a proposal.
LEMMA CaseProposalOf == CaseIInv => \A n \in 1 .. Len(runs) :
    runs[n].proposal \in CaseProposals
<1> SUFFICES ASSUME CaseIInv, NEW n \in 1 .. Len(runs)
                    PROVE runs[n].proposal \in CaseProposals
  OBVIOUS
<1>1. runs \in Seq(CaseRun)
  BY DEF CaseIInv, CaseTyped
<1>2. runs[n] \in CaseRun
  BY <1>1, ElementOfSeq
<1> QED
  BY <1>2 DEF CaseRun

\* The invariant holds initially.
LEMMA CaseInitial == Cases!Bounds /\ Cases!Init => CaseIInv
<1> SUFFICES ASSUME Cases!Bounds, Cases!Init PROVE CaseIInv
  OBVIOUS
<1>1. <<>> \in Seq(Nat) /\ <<>> \in Seq(CaseRun) /\ <<>> \in Seq(CaseEntry) /\ Len(<<>>) = 0
  BY EmptySeq
<1>2. CaseTyped /\ CaseInStep
  BY <1>1 DEF Cases!Init, CaseTyped, CaseInStep, Cases!Bounds
<1>3. CaseTraced /\ CaseReasoned
  BY <1>1 DEF Cases!Init, CaseTraced, CaseReasoned
<1> QED
  BY <1>2, <1>3 DEF CaseIInv

\* A set-up keeps the invariant.
LEMMA CaseSetupKeeps == Cases!Bounds /\ CaseIInv /\ Cases!RunSetup => CaseIInv'
<1> SUFFICES ASSUME Cases!Bounds, CaseIInv, Cases!RunSetup PROVE CaseIInv'
  OBVIOUS
<1> DEFINE p == [id |-> clock, release |-> Cases!Current + 1, created |-> clock]
           r == [case |-> "setup_zero_to_shadow", session |-> session.id,
                 proposal |-> p, setup |-> Cases!Current + 1, start |-> clock,
                 finish |-> clock + 1, exit |-> 0]
           e == [proposal |-> p, release |-> Cases!Current + 1,
                 reason |-> Cases!ReasonOf("setup_zero_to_shadow"), observed |-> "approved",
                 at |-> clock + 1, revokedThen |-> FALSE, driftThen |-> FALSE]
<1>1. clock \in Nat /\ session \in [id : Nat, created : Nat] /\ approved \in Seq(Nat)
        /\ Cases!Current \in Nat
  BY LenProperties DEF CaseIInv, CaseTyped, Cases!Current
<1>2. runs' = Append(runs, r) /\ chain' = Append(chain, e) /\ clock' = clock + 1
      /\ approved' = Append(approved, clock) /\ extra' \in {extra, extra + 1}
           /\ extra' <= MaxExtra
      /\ Len(runs) < MaxCases /\ session' = session /\ revoked' = revoked
  BY DEF Cases!RunSetup
<1>3. p \in CaseProposals
  BY <1>1 DEF CaseProposals
<1>4. r \in CaseRun /\ e \in CaseEntry
  BY <1>1, <1>3, CaseReasonsOf DEF CaseRun, CaseEntry, Cases!CaseId, CaseReasons
<1>5. CaseAdds(r, e)
  BY <1>1, <1>2, <1>4, CaseReasonsOf DEF CaseAdds
<1>6. /\ CaseInStep' /\ CaseTraced' /\ CaseReasoned'
      /\ runs' \in Seq(CaseRun) /\ chain' \in Seq(CaseEntry)
  BY <1>5, CaseAddsKeeps
<1>7. approved' \in Seq(Nat) /\ DOMAIN approved \subseteq DOMAIN approved'
  BY <1>1, <1>2, AppendProperties, LenProperties DEF Cases!Current
<1>8. Len(runs') <= MaxCases
  BY <1>2, <1>4, AppendProperties, LenProperties DEF CaseIInv, CaseTyped, Cases!Bounds
<1>9. CaseTyped'
  BY <1>1, <1>2, <1>6, <1>7, <1>8 DEF CaseIInv, CaseTyped, Cases!Bounds
<1> QED
  BY <1>6, <1>9 DEF CaseIInv

\* A run of a case keeps the invariant.
LEMMA CaseRunKeeps ==
  ASSUME Cases!Bounds, CaseIInv, NEW c \in Cases!CaseId, NEW p,
         \/ p = [id |-> clock, release |-> Cases!Current, created |-> clock]
         \/ \E n \in DOMAIN runs : p = runs[n].proposal,
         Cases!RunCase(c, p)
  PROVE CaseIInv'
<1>1. /\ clock \in Nat /\ session \in [id : Nat, created : Nat] /\ Cases!Current \in Nat
      /\ clock = Len(runs) + 1 /\ Len(runs) \in Nat
      /\ DOMAIN runs = 1 .. Len(runs) /\ DOMAIN chain = 1 .. Len(runs)
  BY LenProperties DEF CaseIInv, CaseTyped, CaseInStep, Cases!Current
<1>2. p \in CaseProposals
  <2>1. CASE p = [id |-> clock, release |-> Cases!Current, created |-> clock]
    BY <2>1, <1>1 DEF CaseProposals
  <2>2. CASE \E n \in DOMAIN runs : p = runs[n].proposal
    BY <2>2, <1>1, CaseProposalOf
  <2> QED
    BY <2>1, <2>2
<1>3. PICK drifted \in BOOLEAN :
        Cases!Store(c, p, Cases!Current, Cases!Outcome(p, Cases!Current,
          Cases!Current \in revoked, drifted), drifted)
  BY DEF Cases!RunCase
<1> DEFINE reason == Cases!Outcome(p, Cases!Current, Cases!Current \in revoked, drifted)
           r == [case |-> c, session |-> session.id, proposal |-> p,
                 setup |-> Cases!Current, start |-> clock, finish |-> clock + 1,
                 exit |-> Cases!ExitCode(reason)]
           e == [proposal |-> p, release |-> Cases!Current, reason |-> reason,
                 observed |-> Cases!Observed(reason, drifted), at |-> clock + 1,
                 revokedThen |-> Cases!Current \in revoked, driftThen |-> drifted]
<1>4. /\ runs' = Append(runs, r) /\ chain' = Append(chain, e) /\ clock' = clock + 1
      /\ extra' \in {extra, extra + 1} /\ extra' <= MaxExtra
      /\ Len(runs) < MaxCases /\ session' = session /\ revoked' = revoked
      /\ approved' = approved
  BY <1>3 DEF Cases!RunCase, Cases!Store
<1>5. /\ reason \in CaseReasons /\ Cases!ExitCode(reason) \in {0, 2}
      /\ Cases!Observed(reason, drifted) \in {"none", "other", "approved"}
  BY DEF Cases!Outcome, Cases!Observed, Cases!ExitCode, CaseReasons
<1>6. r \in CaseRun
  BY <1>1, <1>2, <1>5 DEF CaseRun
<1>7. e \in CaseEntry
  BY <1>1, <1>2, <1>5 DEF CaseEntry
<1>8. reason = "proposal_id_duplicate" <=> p.id < clock
  <2>1. reason = "proposal_id_duplicate" <=> p.id \in Cases!Presented
    BY DEF Cases!Outcome
  <2>2. ASSUME p.id \in Cases!Presented PROVE p.id < clock
    <3>1. PICK n \in 1 .. Len(runs) : p.id = chain[n].proposal.id
      BY <2>2, <1>1 DEF Cases!Presented
    <3>2. chain[n].proposal.id \in 1 .. n
      BY <3>1 DEF CaseIInv, CaseInStep, CaseTraced
    <3> QED
      BY <3>1, <3>2, <1>1
  <2>3. ASSUME p.id < clock PROVE p.id \in Cases!Presented
    <3>1. PICK n \in 1 .. Len(runs) : p = runs[n].proposal
      BY <2>3, <1>1
    <3>2. chain[n].proposal.id = p.id
      BY <3>1 DEF CaseIInv, CaseInStep
    <3> QED
      BY <3>1, <3>2, <1>1 DEF Cases!Presented
  <2> QED
    BY <2>1, <2>2, <2>3
<1>9. reason = "cloud_release_not_eligible:revoked" => Cases!Current \in revoked
  BY DEF Cases!Outcome
<1>10. reason = "configuration_mismatch" => drifted /\ Cases!Current \notin revoked
  BY DEF Cases!Outcome
<1>11. \/ p.id = clock /\ p.created = clock
       \/ \E n \in DOMAIN runs : p = runs[n].proposal
  BY <1>1
<1>12. CaseAdds(r, e)
  BY <1>4, <1>6, <1>7, <1>8, <1>9, <1>10, <1>11 DEF CaseAdds
<1>13. CaseInStep' /\ CaseTraced' /\ CaseReasoned' /\ runs' \in Seq(CaseRun)
         /\ chain' \in Seq(CaseEntry)
  BY <1>12, CaseAddsKeeps
<1>14. Len(runs') <= MaxCases
  BY <1>1, <1>4, <1>6, AppendProperties DEF CaseIInv, CaseTyped, Cases!Bounds
<1>15. CaseTyped'
  BY <1>1, <1>4, <1>13, <1>14 DEF CaseIInv, CaseTyped, Cases!Bounds
<1> QED
  BY <1>13, <1>15 DEF CaseIInv

\* The invariant is inductive.
LEMMA CaseInductive == ASSUME Cases!Bounds, CaseIInv, [Cases!Next]_Cases!vars
    PROVE CaseIInv'
<1>1. CASE Cases!RunSetup
  BY <1>1, CaseSetupKeeps
<1>2. ASSUME NEW c \in Cases!CaseId, Cases!RunFresh(c) PROVE CaseIInv'
  BY <1>2, CaseRunKeeps DEF Cases!RunFresh
<1>3. ASSUME NEW c \in Cases!CaseId, Cases!RunAgain(c) PROVE CaseIInv'
  BY <1>3, CaseRunKeeps DEF Cases!RunAgain
<1>4. CASE Cases!Revoke
  <2>1. Cases!Current \in DOMAIN approved
    BY <1>4, LenProperties DEF Cases!Revoke, Cases!Current, CaseIInv, CaseTyped
  <2>2. CaseTyped'
    BY <1>4, <2>1 DEF Cases!Revoke, CaseIInv, CaseTyped
  <2> QED
    BY <1>4, <2>2 DEF Cases!Revoke, CaseIInv, CaseInStep, CaseTraced, CaseReasoned
<1>5. CASE Cases!NewSession
  <2>1. CaseTyped'
    BY <1>5 DEF Cases!NewSession, CaseIInv, CaseTyped, Cases!Bounds
  <2> QED
    BY <1>5, <2>1 DEF Cases!NewSession, CaseIInv, CaseInStep, CaseTraced, CaseReasoned
<1>6. CASE UNCHANGED Cases!vars
  BY <1>6 DEF Cases!vars, CaseIInv, CaseTyped, CaseInStep, CaseTraced, CaseReasoned
<1> QED
  BY <1>1, <1>2, <1>3, <1>4, <1>5, <1>6 DEF Cases!Next

\* What the invariant is for.
LEMMA CaseSuffices == ASSUME CaseIInv PROVE Cases!TypeOK /\ Cases!CollectedIsTrue
<1>1. /\ Len(runs) \in Nat /\ DOMAIN runs = 1 .. Len(runs) /\ DOMAIN chain = 1 .. Len(runs)
      /\ Len(chain) = Len(runs) /\ session.created \in Nat
  BY LenProperties DEF CaseIInv, CaseTyped, CaseInStep
<1>2. Cases!TypeOK
  BY <1>1 DEF CaseIInv, CaseTyped, Cases!TypeOK
<1>3. ASSUME NEW c \in Cases!CaseId, NEW x \in Cases!Candidates(c)
      PROVE  /\ x.case = c /\ x.evidence \in 1 .. Len(runs)
             /\ x.proposal.created >= session.created
             /\ x.proposal \in CaseProposals
             /\ runs[x.proposal.id].proposal = x.proposal
             /\ x.proposal.created = x.proposal.id
             /\ Cases!E(x).proposal = x.proposal
             /\ x.proposal.id \in 1 .. x.evidence
             /\ Cases!E(x).at = x.evidence + 1
             /\ Cases!E(x).reason = Cases!ReasonOf(c)
             /\ Cases!E(x).reason = "proposal_id_duplicate" <=> x.proposal.id < x.evidence
             /\ Cases!E(x).reason = "cloud_release_not_eligible:revoked"
                  => Cases!E(x).revokedThen
             /\ Cases!E(x).reason = "configuration_mismatch" => Cases!E(x).driftThen
                  /\ ~Cases!E(x).revokedThen
  <2>1. x \in Cases!Piece(c) /\ Cases!CaseHolds(x)
    BY DEF Cases!Candidates
  <2>2. /\ x.case = c /\ x.evidence \in 1 .. Len(runs)
        /\ \E n \in 1 .. Len(runs) : x.proposal = runs[n].proposal
    BY <2>1, <1>1 DEF Cases!Piece
  <2>3. /\ x.proposal.created >= session.created
        /\ Cases!E(x).reason = Cases!ReasonOf(c) /\ Cases!E(x).proposal.id = x.proposal.id
    BY <2>1, <2>2 DEF Cases!CaseHolds, Cases!EvidenceBound, Cases!E
  <2>4. PICK n \in 1 .. Len(runs) : x.proposal = runs[n].proposal
    BY <2>2
  <2>5. /\ runs[x.proposal.id].proposal = x.proposal
        /\ x.proposal.created = x.proposal.id
        /\ x.proposal \in CaseProposals
    BY <2>4, CaseProposalOf DEF CaseIInv, CaseTraced
  <2>6. /\ Cases!E(x).proposal = runs[x.evidence].proposal /\ Cases!E(x).at = x.evidence + 1
    BY <2>2 DEF CaseIInv, CaseInStep, Cases!E
  <2>7. /\ Cases!E(x).proposal.id \in 1 .. x.evidence
        /\ runs[Cases!E(x).proposal.id].proposal = Cases!E(x).proposal
    BY <2>2, <2>6 DEF CaseIInv, CaseTraced
  <2>8. /\ Cases!E(x).reason = "proposal_id_duplicate"
             <=> Cases!E(x).proposal.id < x.evidence
        /\ Cases!E(x).reason = "cloud_release_not_eligible:revoked"
             => Cases!E(x).revokedThen
        /\ Cases!E(x).reason = "configuration_mismatch" => Cases!E(x).driftThen
             /\ ~Cases!E(x).revokedThen
    BY <2>2 DEF CaseIInv, CaseReasoned, Cases!E
  <2> QED
    BY <2>2, <2>3, <2>5, <2>6, <2>7, <2>8
<1>4. ASSUME NEW s \in Cases!Candidates("setup_zero_to_shadow"),
             NEW d \in Cases!Candidates("duplicate_replay"),
             NEW r \in Cases!Candidates("restart_shadow"),
               NEW v \in Cases!Candidates("revoked_release"),
             NEW f \in Cases!Candidates("configuration_drift"),
               Cases!CrossBound(s, d, r, v, f)
      PROVE  /\ s.evidence < d.evidence /\ Cases!E(s).proposal = Cases!E(d).proposal
             /\ r.evidence = CHOOSE n \in DOMAIN chain :
                   /\ chain[n].proposal = r.proposal
                   /\ \A m \in 1 .. n - 1 : chain[m].proposal # r.proposal
             /\ Cases!E(v).revokedThen /\ v.evidence > s.evidence
             /\ Cases!E(f).driftThen /\ ~Cases!E(f).revokedThen
             /\ \A x \in {s, d, r, v, f} : Cases!E(x).at > session.created
  <2> DEFINE First(n) == /\ chain[n].proposal = r.proposal
                         /\ \A m \in 1 .. n - 1 : chain[m].proposal # r.proposal
  <2>0. {"setup_zero_to_shadow", "duplicate_replay", "restart_shadow", "revoked_release",
         "configuration_drift"} = Cases!CaseId
    BY DEF Cases!CaseId
  <2>1. d.proposal = s.proposal /\ v.evidence > s.evidence
    BY <1>4 DEF Cases!CrossBound, Cases!LifecycleBound
  <2>2. s.proposal.id = s.evidence /\ d.proposal.id < d.evidence
    BY <1>3, <2>0, <1>1, CaseReasonsOf DEF Cases!CaseId
  <2>3. s.evidence < d.evidence /\ Cases!E(s).proposal = Cases!E(d).proposal
    BY <1>3, <2>0, <2>1, <2>2
  <2>4. Cases!E(v).revokedThen
    BY <1>3, <2>0, CaseReasonsOf DEF Cases!CaseId
  <2>5. Cases!E(f).driftThen /\ ~Cases!E(f).revokedThen
    BY <1>3, <2>0, CaseReasonsOf DEF Cases!CaseId
  <2>6. ASSUME NEW x \in {s, d, r, v, f} PROVE Cases!E(x).at > session.created
    <3>1. PICK c \in Cases!CaseId : x \in Cases!Candidates(c)
      BY <2>0
    <3> QED
      BY <1>1, <1>3, <3>1 DEF CaseProposals
  <2>7. /\ r.proposal.id = r.evidence /\ r.evidence \in 1 .. Len(runs)
        /\ chain[r.evidence].proposal = r.proposal
    <3>1. /\ r.evidence \in 1 .. Len(runs) /\ Cases!E(r).proposal = r.proposal
          /\ r.proposal.id \in 1 .. r.evidence
          /\ Cases!E(r).reason = "proposal_id_duplicate" <=> r.proposal.id < r.evidence
          /\ Cases!E(r).reason = Cases!ReasonOf("restart_shadow")
      BY <1>3, <2>0
    <3> QED
      BY <3>1, <1>1, CaseReasonsOf DEF Cases!E
  <2>8. ASSUME NEW m \in 1 .. Len(runs), chain[m].proposal = r.proposal
               PROVE r.evidence <= m
    <3>1. r.proposal.id \in 1 .. m
      BY <2>8 DEF CaseIInv, CaseInStep, CaseTraced
    <3> QED
      BY <3>1, <2>7
  <2>9. First(r.evidence)
    BY <2>7, <2>8, <1>1
  <2>10. ASSUME NEW n \in DOMAIN chain, First(n) PROVE n = r.evidence
    <3>1. r.evidence <= n
      BY <2>10, <2>8, <1>1
    <3>2. ~(r.evidence < n)
      BY <2>10, <2>7, <1>1
    <3> QED
      BY <3>1, <3>2, <2>7, <1>1
  <2>11. r.evidence = CHOOSE n \in DOMAIN chain : First(n)
    BY <2>7, <2>9, <2>10, <1>1
  <2> QED
    BY <2>1, <2>3, <2>4, <2>5, <2>6, <2>11
<1> QED
  BY <1>2, <1>4 DEF Cases!CollectedIsTrue

\* What the collection accepts tells one story, for any skew and any number of
\* runs: the five runs it picks came about as their cases say, and after the
\* session was made.
THEOREM CollectedTellsTheTruth == ASSUME Cases!Bounds
    PROVE Cases!Spec => []Cases!CollectedIsTrue
<1>1. CaseIInv /\ [Cases!Next]_Cases!vars => CaseIInv'
  BY CaseInductive
<1>2. Cases!Init => CaseIInv
  BY CaseInitial
<1>3. CaseIInv => Cases!CollectedIsTrue
  BY CaseSuffices
<1> QED
  BY <1>1, <1>2, <1>3, PTL DEF Cases!Spec

-----------------------------------------------------------------------------
(* EvidenceFile.  EvidenceKept is not inductive: the invariant adds what the      *)
(* process has in memory and how far the contents it writes have come.            *)

\* The steps of a write, and what the write is appended to.
FileWriting == {"write", "fsync", "rename", "sync"}
FileBase == IF kind = "chain" THEN entries ELSE <<>>

FileTyped ==
  /\ File!TypeOK /\ kind \in {"chain", "result"}
  /\ entries \in Seq(File!Entry) /\ pending \in Seq(File!Entry)
       /\ reported \in Seq(File!Entry)
  /\ file \in Seq(File!Entry) \cup {None} /\ earlier \subseteq Seq(File!Entry) \cup {None}

\* What the process has in memory, at each of its steps.
FileMemory ==
  /\ step \in {"start", "dead", "reserved"} => entries = <<>> /\ ~room
  /\ room => kind = "chain" /\ step = "idle"
       /\ File!Bytes(entries) <= MaxBytes - RecordReserve
  /\ kind = "chain" /\ step \notin {"start", "dead"} => entries = reported
  /\ reported # <<>> => File!Last(reported).id <= asked

\* What is being written, and how far it has come.
FilePending ==
  /\ step \in FileWriting =>
       /\ File!Verifies(pending)
       /\ \E x \in File!Entry : x.id = asked /\ pending = Append(FileBase, x)
  /\ step = "rename" => temporary = "synced"
  /\ step = "sync" => file = pending

FileIInv == FileTyped /\ FileMemory /\ FilePending /\ File!EvidenceKept

\* An entry that is appended is the last one, of what was there before it.
LEMMA FileAppend ==
  ASSUME NEW s \in Seq(File!Entry), NEW x \in File!Entry
  PROVE  /\ Append(s, x) \in Seq(File!Entry) /\ Append(s, x) # <<>>
         /\ File!Last(Append(s, x)) = x
         /\ File!IsPrefix(s, Append(s, x))
<1>1. /\ Append(s, x) \in Seq(File!Entry) /\ Append(s, x) # <<>>
      /\ Len(Append(s, x)) = Len(s) + 1 /\ Len(s) \in Nat
      /\ \A i \in 1 .. Len(s) : Append(s, x)[i] = s[i] /\ s[i] \in File!Entry
      /\ Append(s, x)[Len(s) + 1] = x
  BY AppendProperties, LenProperties, ElementOfSeq
<1>2. File!Last(Append(s, x)) = x
  BY <1>1 DEF File!Last
<1>3. SubSeq(s, 1, Len(s)) = s
  BY SubSeqFull
<1>4. SubSeq(Append(s, x), 1, Len(s)) = s
  <2>1. /\ SubSeq(Append(s, x), 1, Len(s)) \in Seq(File!Entry)
        /\ Len(SubSeq(Append(s, x), 1, Len(s))) = Len(s)
        /\ \A i \in 1 .. Len(s) : SubSeq(Append(s, x), 1, Len(s))[i] = Append(s, x)[i]
    <3>1. \A i \in 1 .. Len(s) : Append(s, x)[i] \in File!Entry
      BY <1>1
    <3>2. /\ SubSeq(Append(s, x), 1, Len(s)) \in Seq(File!Entry)
          /\ Len(SubSeq(Append(s, x), 1, Len(s))) = IF 1 <= Len(s) THEN Len(s) - 1 + 1
               ELSE 0
          /\ \A i \in 1 .. Len(s) - 1 + 1 : SubSeq(Append(s, x), 1, Len(s))[i]
               = Append(s, x)[1 + i - 1]
      BY <3>1, <1>1, SubSeqProperties
    <3> QED
      BY <3>2, <1>1
  <2> QED
    BY <2>1, <1>1, SeqEqual
<1> QED
  BY <1>1, <1>2, <1>3, <1>4 DEF File!IsPrefix

\* A chain continues itself.
LEMMA FilePrefix == \A s \in Seq(File!Entry) : File!IsPrefix(s, s)
  BY LenProperties DEF File!IsPrefix

\* The last of the entries is one.
LEMMA FileLast == ASSUME NEW s \in Seq(File!Entry), s # <<>>
    PROVE File!Last(s) \in File!Entry
<1>1. Len(s) \in 1 .. Len(s)
  BY LenProperties, EmptySeq
<1> QED
  BY <1>1, ElementOfSeq DEF File!Last

\* The size of a chain is a number.
LEMMA FileBytes == \A s \in Seq(File!Entry) : File!Bytes(s) \in Nat
  BY FileLast DEF File!Bytes, File!Entry

\* The invariant holds initially.
LEMMA FileInitial == File!Distinct /\ File!Init => FileIInv
<1> SUFFICES ASSUME File!Distinct, File!Init PROVE FileIInv
  OBVIOUS
<1>1. <<>> \in Seq(File!Entry)
  BY EmptySeq
<1>2. File!TypeOK
  <2>1. room \in BOOLEAN /\ refused \in BOOLEAN
    BY DEF File!Init
  <2> QED
    BY <2>1 DEF File!Init, File!TypeOK, File!Distinct
<1>3. FileTyped
  BY <1>1, <1>2 DEF File!Init, FileTyped
<1>4. FileMemory
  BY DEF File!Init, FileMemory
<1>5. FilePending /\ File!EvidenceKept
  BY <1>1 DEF File!Init, FilePending, FileWriting, File!EvidenceKept, File!Distinct
<1> QED
  BY <1>3, <1>4, <1>5 DEF FileIInv

\* A write that is asked for keeps the invariant.
LEMMA FileAsks == File!Distinct /\ FileIInv /\ File!Ask => FileIInv'
<1> SUFFICES ASSUME File!Distinct, FileIInv, File!Ask PROVE FileIInv'
  OBVIOUS
<1>1. PICK time \in 1 .. LastTime, size \in 1 .. RecordReserve :
       LET new == File!AppendEvidence(IF kind = "chain" THEN entries ELSE <<>>, asked',
             time, size)
           fits == kind = "result" \/ File!Bytes(new) <= MaxBytes
       IN
       /\ IF File!Verifies(new) /\ fits
          THEN pending' = new /\ step' = "write"
          ELSE UNCHANGED <<pending, step>>
       /\ refused' = (refused \/ (room /\ ~fits))
  BY DEF File!Ask
<1> DEFINE new == File!AppendEvidence(FileBase, asked', time, size)
           fits == kind = "result" \/ File!Bytes(new) <= MaxBytes
           x == [id |-> asked', sequence |-> Len(FileBase), at |-> time,
                 end |-> File!Bytes(FileBase) + size,
                 previous |-> IF FileBase = <<>> THEN 0 ELSE File!Last(FileBase).id]
<1>2. /\ IF File!Verifies(new) /\ fits
         THEN pending' = new /\ step' = "write"
         ELSE UNCHANGED <<pending, step>>
      /\ refused' = (refused \/ (room /\ ~fits))
  BY <1>1 DEF FileBase
<1>3. /\ step = "idle" /\ asked < MaxAppends /\ asked' = asked + 1 /\ room' = FALSE
      /\ UNCHANGED <<kind, entries, File!disk, reported>>
  BY DEF File!Ask
<1>4. FileBase \in Seq(File!Entry) /\ asked \in Nat /\ asked' \in Nat
  BY <1>3, EmptySeq DEF FileIInv, FileTyped, File!TypeOK, FileBase
<1>5. x \in File!Entry /\ new = Append(FileBase, x)
  <2>1. Len(FileBase) \in Nat /\ File!Bytes(FileBase) + size \in Nat /\ time \in Nat
    BY <1>4, FileBytes, LenProperties DEF File!Distinct
  <2>2. (IF FileBase = <<>> THEN 0 ELSE File!Last(FileBase).id) \in Nat
    BY <1>4, FileLast DEF File!Entry
  <2> QED
    BY <2>1, <2>2, <1>4 DEF File!Entry, File!AppendEvidence
<1>6. new \in Seq(File!Entry) /\ new # <<>> /\ File!Last(new) = x
  BY <1>4, <1>5, FileAppend
<1>7. room => fits
  <2>1. SUFFICES ASSUME room PROVE File!Bytes(new) <= MaxBytes
    OBVIOUS
  <2>2. File!Bytes(entries) <= MaxBytes - RecordReserve /\ FileBase = entries
    BY <2>1 DEF FileIInv, FileMemory, FileBase
  <2>3. File!Bytes(new) = File!Bytes(entries) + size
    BY <1>6, <2>2 DEF File!Bytes
  <2>4. File!Bytes(entries) \in Nat
    BY <2>2, <1>4, FileBytes
  <2> QED
    BY <2>2, <2>3, <2>4 DEF File!Distinct
<1>8. ~refused'
  BY <1>2, <1>7 DEF FileIInv, File!EvidenceKept
<1>9. FileTyped'
  <2>1. step' \in {"idle", "write"} /\ pending' \in Seq(File!Entry)
    BY <1>2, <1>3, <1>6 DEF FileIInv, FileTyped
  <2>2. asked' \in 0 .. MaxAppends
    BY <1>3, <1>4 DEF File!Distinct
  <2>3. room' \in BOOLEAN /\ refused' \in BOOLEAN
    BY <1>2, <1>3
  <2>4. temporary' = temporary /\ step' \in {"idle", "write"}
    BY <1>3, <2>1 DEF File!disk
  <2>5. File!TypeOK'
    BY <2>2, <2>3, <2>4 DEF FileIInv, FileTyped, File!TypeOK
  <2> QED
    BY <1>3, <2>1, <2>5 DEF FileIInv, FileTyped, File!disk
<1>10. FileMemory'
  <2>1. step' \in {"idle", "write"} /\ (reported # <<>> => File!Last(reported).id \in Int)
    BY <1>2, <1>3, FileLast DEF FileIInv, FileTyped, File!Entry
  <2> QED
    BY <2>1, <1>3, <1>4 DEF FileIInv, FileMemory
<1>11. FilePending'
  BY <1>2, <1>3, <1>5 DEF FilePending, FileBase, FileWriting
<1>12. File!EvidenceKept'
  BY <1>3, <1>8 DEF FileIInv, File!EvidenceKept, File!disk
<1> QED
  BY <1>9, <1>10, <1>11, <1>12 DEF FileIInv

\* The last step of a write keeps the invariant: what is reported is in the file.
LEMMA FileSynchronises == File!Distinct /\ FileIInv /\ File!Synchronise => FileIInv'
<1> SUFFICES ASSUME File!Distinct, FileIInv, File!Synchronise PROVE FileIInv'
  OBVIOUS
<1>1. CASE step = "reserved"
  <2>1. /\ earlier' = {} /\ step' = "idle"
        /\ UNCHANGED <<kind, entries, pending, room, temporary, file, reported, refused,
             asked>>
    BY <1>1 DEF File!Synchronise
  <2>2. FileTyped'
    BY <2>1 DEF FileIInv, FileTyped, File!TypeOK
  <2>3. FileMemory' /\ FilePending' /\ File!EvidenceKept'
    BY <1>1, <2>1 DEF FileIInv, FileMemory, FilePending, FileWriting, File!EvidenceKept
  <2> QED
    BY <2>2, <2>3 DEF FileIInv
<1>2. CASE step = "sync"
  <2>1. /\ earlier' = {} /\ step' = "idle" /\ entries' = pending /\ pending' = <<>>
        /\ reported' = IF kind = "chain" THEN Append(reported, File!Last(pending))
             ELSE pending
        /\ UNCHANGED <<kind, room, temporary, file, refused, asked>>
    BY <1>2 DEF File!Synchronise
  <2>2. PICK x \in File!Entry : x.id = asked /\ pending = Append(FileBase, x)
    BY <1>2 DEF FileIInv, FilePending, FileWriting
  <2>3. FileBase \in Seq(File!Entry) /\ asked \in Nat
    BY EmptySeq DEF FileIInv, FileTyped, File!TypeOK, FileBase
  <2>4. pending \in Seq(File!Entry) /\ pending # <<>> /\ File!Last(pending) = x
    BY <2>2, <2>3, FileAppend
  <2>5. reported' = pending
    BY <1>2, <2>1, <2>2, <2>4 DEF FileIInv, FileMemory, FileBase
  <2>6. FileTyped'
    BY <2>1, <2>4, <2>5, EmptySeq DEF FileIInv, FileTyped, File!TypeOK
  <2>7. FileMemory'
    <3>1. ~room' /\ step' = "idle" /\ entries' = reported'
      BY <1>2, <2>1, <2>5 DEF FileIInv, FileMemory
    <3>2. File!Last(reported').id <= asked'
      <4>1. File!Last(reported').id = asked /\ asked' = asked
        BY <2>1, <2>2, <2>4, <2>5
      <4> QED
        BY <4>1, <2>3
    <3> QED
      BY <3>1, <3>2 DEF FileMemory
  <2>8. FilePending'
    BY <2>1 DEF FilePending, FileWriting
  <2>9. File!EvidenceKept'
    <3>1. file' = pending /\ File!Verifies(pending) /\ ~refused'
      BY <1>2, <2>1 DEF FileIInv, FilePending, File!EvidenceKept, FileWriting
    <3>2. pending \notin {None, Torn, <<>>}
      BY <2>4 DEF File!Distinct
    <3>3. File!IsPrefix(pending, pending)
      BY <2>4, FilePrefix
    <3>4. File!Last(pending).id = asked
      BY <2>2, <2>4
    <3>5. File!Last(pending).id >= File!Last(pending).id
      BY <3>4, <2>3
    <3> QED
      BY <2>1, <2>5, <3>1, <3>2, <3>3, <3>5 DEF File!EvidenceKept
  <2> QED
    BY <2>6, <2>7, <2>8, <2>9 DEF FileIInv
<1> QED
  BY <1>1, <1>2 DEF File!Synchronise

\* The rename keeps the invariant: the temporary file was on disk.
LEMMA FileRenames == File!Distinct /\ FileIInv /\ File!Rename => FileIInv'
<1> SUFFICES ASSUME File!Distinct, FileIInv, File!Rename PROVE FileIInv'
  OBVIOUS
<1>1. /\ step = "rename" /\ step' = "sync" /\ temporary' = "none" /\ file' = pending
      /\ earlier' = earlier \cup {file}
      /\ UNCHANGED <<kind, entries, pending, room, reported, refused, asked>>
  BY DEF File!Rename, FileIInv, FilePending
<1>2. PICK x \in File!Entry : x.id = asked /\ pending = Append(FileBase, x)
  BY <1>1 DEF FileIInv, FilePending, FileWriting
<1>3. FileBase \in Seq(File!Entry)
  BY EmptySeq DEF FileIInv, FileTyped, FileBase
<1>4. /\ pending \in Seq(File!Entry) /\ pending # <<>> /\ File!Last(pending) = x
      /\ File!IsPrefix(FileBase, pending)
  BY <1>2, <1>3, FileAppend
<1>5. FileTyped' /\ FileMemory'
  BY <1>1 DEF FileIInv, FileTyped, File!TypeOK, FileMemory
<1>6. FilePending'
  BY <1>1 DEF FileIInv, FilePending, FileBase, FileWriting
<1>7. File!EvidenceKept'
  <2>1. pending \notin {None, Torn, <<>>} /\ File!Verifies(pending)
    BY <1>1, <1>4 DEF File!Distinct, FileIInv, FilePending, FileWriting
  <2>2. reported # <<>> => IF kind = "chain" THEN File!IsPrefix(reported, pending)
                       ELSE File!Last(pending).id >= File!Last(reported).id
    BY <1>1, <1>2, <1>4 DEF FileIInv, FileMemory, FileBase
  <2> QED
    BY <1>1, <2>1, <2>2 DEF FileIInv, File!EvidenceKept
<1> QED
  BY <1>5, <1>6, <1>7 DEF FileIInv

\* The invariant is inductive.
LEMMA FileInductive == ASSUME File!Distinct, FileIInv, [File!Next]_File!vars PROVE FileIInv'
<1> USE DEF FileIInv
<1>1. CASE File!ReserveOutput
  <2>1. CASE file = None
    <3>1. /\ file' = <<>> /\ earlier' = {None} /\ step' = "reserved" /\ step = "start"
          /\ UNCHANGED <<kind, entries, pending, room, temporary, reported, refused, asked>>
      BY <1>1, <2>1 DEF File!ReserveOutput
    <3>2. reported = <<>>
      BY <2>1 DEF File!EvidenceKept
    <3>3. FileTyped' /\ FileMemory' /\ FilePending'
      BY <3>1, <3>2, EmptySeq DEF FileTyped, File!TypeOK, FileMemory, FilePending,
          FileWriting
    <3>4. File!EvidenceKept'
      BY <3>1, <3>2, EmptySeq DEF File!EvidenceKept, File!Distinct
    <3> QED
      BY <3>3, <3>4
  <2>2. CASE file # None
    <3>1. /\ step' = "dead" /\ step = "start"
          /\ UNCHANGED <<kind, entries, pending, room, temporary, file, earlier,
               reported, refused, asked>>
      BY <1>1, <2>2 DEF File!ReserveOutput
    <3> QED
      BY <3>1 DEF FileTyped, File!TypeOK, FileMemory, FilePending, FileWriting,
          File!EvidenceKept
  <2> QED
    BY <2>1, <2>2
<1>2. CASE File!AssertWritable
  <2>1. /\ kind = "chain" /\ step = "idle"
             /\ room' = (File!Bytes(entries) <= MaxBytes - RecordReserve)
        /\ UNCHANGED <<kind, step, entries, pending, temporary, file, earlier, reported,
             refused, asked>>
    BY <1>2 DEF File!AssertWritable, File!disk
  <2>2. FileTyped' /\ FilePending' /\ File!EvidenceKept'
    BY <2>1 DEF FileTyped, File!TypeOK, FilePending, FileBase, File!EvidenceKept,
        FileWriting
  <2>3. FileMemory'
    BY <2>1 DEF FileMemory
  <2> QED
    BY <2>2, <2>3
<1>3. CASE File!Ask
  BY <1>3, FileAsks
<1>4. CASE File!WriteTemporary \/ File!SyncTemporary
  <2>1. /\ step \in FileWriting /\ step' \in FileWriting /\ step' \notin {"write", "sync"}
        /\ temporary' \in {"written", "synced"}
        /\ step' = "rename" => temporary' = "synced"
        /\ UNCHANGED <<kind, entries, pending, room, file, earlier, reported, refused, asked>>
    BY <1>4 DEF File!WriteTemporary, File!SyncTemporary, FileWriting
  <2>2. FileTyped' /\ File!EvidenceKept'
    BY <2>1 DEF FileTyped, File!TypeOK, FileWriting, File!EvidenceKept
  <2>3. FileMemory' /\ FilePending'
    BY <2>1 DEF FileMemory, FilePending, FileBase, FileWriting
  <2> QED
    BY <2>2, <2>3
<1>5. CASE File!Rename
  BY <1>5, FileRenames
<1>6. CASE File!Synchronise
  BY <1>6, FileSynchronises
<1>7. CASE File!Fails
  BY <1>7, EmptySeq DEF File!Fails, FileTyped, File!TypeOK, FileMemory, FilePending,
      FileWriting, File!EvidenceKept
<1>8. CASE File!Kill
  BY <1>8, EmptySeq DEF File!Kill, File!Forget, FileTyped, File!TypeOK, FileMemory,
      FilePending, FileWriting, File!EvidenceKept
<1>9. CASE File!PowerLoss
  BY <1>9, EmptySeq DEF File!PowerLoss, File!Forget, FileTyped, File!TypeOK, FileMemory,
      FilePending, FileWriting, File!EvidenceKept
<1>10. CASE File!Restart
  BY <1>10 DEF File!Restart, File!disk, FileTyped, File!TypeOK, FileMemory, FilePending,
      FileWriting, File!EvidenceKept
<1>11. CASE UNCHANGED File!vars
  BY <1>11 DEF File!vars, FileTyped, File!TypeOK, FileMemory, FilePending, FileBase,
      FileWriting, File!EvidenceKept
<1> QED
  BY <1>1, <1>2, <1>3, <1>4, <1>5, <1>6, <1>7, <1>8, <1>9, <1>10, <1>11 DEF File!Next

\* What the sink has reported as written is in the file, whatever fails, is killed or
\* loses power, and the file is never torn; and a write is not refused for want of
\* room after assertWritableBeforeDispatch found it.
THEOREM FileKept == ASSUME File!Distinct PROVE File!Spec => []File!EvidenceKept
<1>1. FileIInv /\ [File!Next]_File!vars => FileIInv'
  BY FileInductive
<1>2. File!Init => FileIInv
  BY FileInitial
<1>3. FileIInv => File!EvidenceKept
  BY DEF FileIInv
<1> QED
  BY <1>1, <1>2, <1>3, PTL DEF File!Spec

-----------------------------------------------------------------------------
(* EvidenceExport.  What is verified is a chain of hashes, so a verified export   *)
(* agrees with a chain the Cloud has had, record by record and backwards from its *)
(* last: were there a place where it does not, there would be a least distance    *)
(* from the end, and the record after that place names the hash of the one before *)
(* it.                                                                            *)

\* A set of numbers that is not empty has a least one.
LEMMA Least ==
  ASSUME NEW B \in SUBSET Nat, B # {}
  PROVE  \E m \in B : \A k \in B : m <= k
<1>1. IsWellFoundedOn(OpToRel(<, Nat), Nat)
  BY NatLessThanWellFounded
<1>2. PICK m \in B : \A k \in B : ~ (<<k, m>> \in OpToRel(<, Nat))
  BY <1>1, WFMin
<1>3. \A k \in B : ~ (k < m)
  BY <1>2 DEF OpToRel
<1> QED
  BY <1>3

\* A record of the Cloud, and one the client has fetched.
ExportRecord == [hash : Nat, previous : Nat \cup {None}, sequence : Nat,
  release : AnyRelease]
ExportFetched == [record : ExportRecord, included : BOOLEAN]

ExportTyped ==
  /\ Export!TypeOK
  /\ stored \in Nat /\ seen \subseteq Seq(ExportRecord)
  /\ records \in Seq(ExportFetched) /\ cursor \in Int /\ pages \in Nat

\* Every chain there has been is linked, and a hash stands for one record.
ExportLinked ==
  /\ \A c \in seen : \A i \in 1 .. Len(c) :
        /\ c[i].sequence = i - 1 /\ c[i].hash <= stored
        /\ c[i].previous = IF i = 1 THEN None ELSE c[i - 1].hash
  /\ \A c, d \in seen : \A i \in 1 .. Len(c), j \in 1 .. Len(d) :
        c[i].hash = d[j].hash => c[i] = d[j]

\* What a page says of the ends of its chain is compared from page to page.
ExportAnnounced(c) ==
  /\ first = IF c = <<>> THEN None ELSE 0
  /\ last = IF c = <<>> THEN None ELSE Len(c) - 1

ExportSourced ==
  /\ outcome \in {"exported", "verified"} => pages > 0
  /\ pages > 0 => \E c \in seen : ExportAnnounced(c)
  /\ pages = 0 => records = <<>>
  /\ \A n \in 1 .. Len(records) :
        \E c \in seen : ExportAnnounced(c) /\ \E i \in 1 .. Len(c) : records[n].record
          = c[i]

ExportIInv == ExportTyped /\ ExportLinked /\ ExportSourced /\ Export!ExportIsWhole

\* The invariant holds initially.
LEMMA ExportInitial == Export!Distinct /\ Export!Init => ExportIInv
<1> SUFFICES ASSUME Export!Distinct, Export!Init PROVE ExportIInv
  OBVIOUS
<1>a. PICK n \in {0, 3} : \E r \in [1 .. n -> AnyRelease] :
         /\ log = [i \in 1 .. n |-> [hash |-> i, previous |-> IF i = 1 THEN None ELSE i - 1,
                                       sequence |-> i - 1, release |-> r[i]]]
         /\ stored = n
  BY DEF Export!Init
<1>1. PICK r \in [1 .. n -> AnyRelease] :
         /\ log = [i \in 1 .. n |-> [hash |-> i, previous |-> IF i = 1 THEN None ELSE i - 1,
                                       sequence |-> i - 1, release |-> r[i]]]
         /\ stored = n
  BY <1>a
<1>2. n \in Nat /\ stored = n /\ stored \in 0 .. MaxStored
  BY <1>1 DEF Export!Distinct
<1>3. \A i \in 1 .. n : /\ log[i].hash = i /\ log[i].sequence = i - 1
                        /\ log[i].previous = IF i = 1 THEN None ELSE i - 1
                        /\ log[i] \in ExportRecord
  BY <1>1 DEF ExportRecord
<1>4. log \in Seq(ExportRecord) /\ Len(log) = n
  <2>1. log = [i \in 1 .. n |-> log[i]] /\ n \in Nat
    BY <1>1, <1>2
  <2>2. log \in [1 .. n -> ExportRecord]
    BY <2>1, <1>3
  <2> QED
    BY <2>1, <2>2, SeqDef, LenProperties
<1>5. seen = {log} /\ cursor = -1 /\ pages = 0 /\ records = <<>> /\ first = None
      /\ last = None /\ outcome = "fetching"
  BY DEF Export!Init
<1>6. ExportTyped
  BY <1>2, <1>4, <1>5, EmptySeq DEF ExportTyped, Export!TypeOK, Export!Distinct
<1>7. ExportLinked
  BY <1>2, <1>3, <1>4, <1>5 DEF ExportLinked
<1>8. ExportSourced /\ Export!ExportIsWhole
  BY <1>5, EmptySeq DEF ExportSourced, Export!ExportIsWhole
<1> QED
  BY <1>6, <1>7, <1>8 DEF ExportIInv

\* A record the Cloud stores meanwhile keeps the invariant.
LEMMA ExportGrows == Export!Distinct /\ ExportIInv /\ Export!Grow => ExportIInv'
<1> SUFFICES ASSUME Export!Distinct, ExportIInv, Export!Grow PROVE ExportIInv'
  OBVIOUS
<1>1. PICK r \in AnyRelease :
         log' = Append(log, [hash |-> stored + 1, previous |-> Export!HashBefore(log),
                                 sequence |-> Len(log), release |-> r])
  BY DEF Export!Grow
<1> DEFINE x == [hash |-> stored + 1, previous |-> Export!HashBefore(log),
                 sequence |-> Len(log), release |-> r]
<1>2. /\ outcome = "fetching" /\ stored < MaxStored /\ seen' = seen \cup {log'}
           /\ stored' = stored + 1
      /\ UNCHANGED <<releaseFilter, cursor, pages, records, first, last, outcome>>
  BY DEF Export!Grow, Export!client
<1>3. log \in seen /\ log \in Seq(ExportRecord) /\ Len(log) \in Nat /\ stored \in Nat
  BY LenProperties DEF ExportIInv, ExportTyped, Export!TypeOK
<1>4. Export!HashBefore(log) = IF Len(log) = 0 THEN None ELSE log[Len(log)].hash
  BY <1>3, EmptySeq DEF Export!HashBefore, Export!Last
<1>5. Export!HashBefore(log) \in Nat \cup {None}
  <2>1. CASE Len(log) # 0
    <3>1. log[Len(log)] \in ExportRecord
      BY <2>1, <1>3, ElementOfSeq
    <3> QED
      BY <2>1, <3>1, <1>4 DEF ExportRecord
  <2> QED
    BY <2>1, <1>4
<1>6. x \in ExportRecord
  BY <1>3, <1>5 DEF ExportRecord
<1>7. /\ log' \in Seq(ExportRecord) /\ Len(log') = Len(log) + 1
      /\ \A i \in 1 .. Len(log) : log'[i] = log[i]
      /\ log'[Len(log) + 1] = x
  BY <1>1, <1>3, <1>6, AppendProperties
<1>8. ExportTyped'
  BY <1>2, <1>3, <1>7 DEF ExportIInv, ExportTyped, Export!TypeOK, Export!Distinct
<1>9. ExportLinked'
  <2>1. ASSUME NEW c \in seen', NEW i \in 1 .. Len(c)
        PROVE  /\ c[i].sequence = i - 1 /\ c[i].hash <= stored + 1 /\ c[i].hash \in Nat
               /\ c[i].previous = IF i = 1 THEN None ELSE c[i - 1].hash
               /\ \/ c = log' /\ i = Len(log) + 1 /\ c[i] = x
                  \/ c[i].hash <= stored /\ \E d \in seen : \E j \in 1 .. Len(d) : c[i]
                       = d[j]
    <3>1. CASE c \in seen
      <4>1. c \in Seq(ExportRecord) /\ Len(c) \in Nat
        BY <3>1, LenProperties DEF ExportIInv, ExportTyped
      <4>a. c[i] \in ExportRecord
        BY <4>1, ElementOfSeq
      <4>2. c[i].hash \in Nat
        BY <4>a DEF ExportRecord
      <4>3. /\ c[i].sequence = i - 1 /\ c[i].hash <= stored
            /\ c[i].previous = IF i = 1 THEN None ELSE c[i - 1].hash
        BY <3>1 DEF ExportIInv, ExportLinked
      <4> QED
        BY <3>1, <4>2, <4>3, <1>3
    <3>2. CASE c = log' /\ i \in 1 .. Len(log)
      <4>1. c[i] = log[i] /\ (i # 1 => c[i - 1] = log[i - 1])
        BY <3>2, <1>3, <1>7
      <4>a. log[i] \in ExportRecord
        BY <3>2, <1>3, ElementOfSeq
      <4>2. log[i].hash \in Nat
        BY <4>a DEF ExportRecord
      <4>3. /\ log[i].sequence = i - 1 /\ log[i].hash <= stored
            /\ log[i].previous = IF i = 1 THEN None ELSE log[i - 1].hash
        BY <3>2, <1>3 DEF ExportIInv, ExportLinked
      <4> QED
        BY <3>2, <4>1, <4>2, <4>3, <1>3
    <3>3. CASE c = log' /\ i = Len(log) + 1
      <4>1. c[i] = x /\ (i # 1 => c[i - 1] = log[i - 1])
        BY <3>3, <1>3, <1>7
      <4> QED
        BY <3>3, <4>1, <1>3, <1>4
    <3> QED
      BY <3>1, <3>2, <3>3, <1>2, <1>3, <1>7
  <2>2. ASSUME NEW c \in seen', NEW d \in seen', NEW i \in 1 .. Len(c),
               NEW j \in 1 .. Len(d),
               c[i].hash = d[j].hash
        PROVE  c[i] = d[j]
    <3>1. CASE c[i] = x
      <4>1. d[j].hash > stored
        BY <3>1, <2>2, <1>3
      <4>2. d[j] = x
        BY <4>1, <2>1, <1>3
      <4> QED
        BY <3>1, <4>2
    <3>2. CASE d[j] = x
      <4>1. c[i].hash > stored
        BY <3>2, <2>2, <1>3
      <4>2. c[i] = x
        BY <4>1, <2>1, <1>3
      <4> QED
        BY <3>2, <4>2
    <3>3. CASE c[i] # x /\ d[j] # x
      <4>1. PICK a \in seen : \E k \in 1 .. Len(a) : c[i] = a[k]
        BY <3>3, <2>1
      <4>2. PICK b \in seen : \E k \in 1 .. Len(b) : d[j] = b[k]
        BY <3>3, <2>1
      <4>3. PICK k \in 1 .. Len(a) : c[i] = a[k]
        BY <4>1
      <4>4. PICK l \in 1 .. Len(b) : d[j] = b[l]
        BY <4>2
      <4>5. a[k].hash = b[l].hash
        BY <4>3, <4>4, <2>2
      <4>6. a[k] = b[l]
        BY <4>5 DEF ExportIInv, ExportLinked
      <4> QED
        BY <4>3, <4>4, <4>6
    <3> QED
      BY <3>1, <3>2, <3>3
  <2> QED
    BY <2>1, <2>2, <1>2 DEF ExportLinked
<1>10. ExportSourced'
  BY <1>2 DEF ExportIInv, ExportSourced, ExportAnnounced
<1>11. Export!ExportIsWhole'
  BY <1>2 DEF Export!ExportIsWhole
<1> QED
  BY <1>8, <1>9, <1>10, <1>11 DEF ExportIInv

\* A chain the Cloud restores keeps the invariant.
LEMMA ExportRestores == Export!Distinct /\ ExportIInv /\ Export!Restore => ExportIInv'
<1> SUFFICES ASSUME Export!Distinct, ExportIInv, Export!Restore PROVE ExportIInv'
  OBVIOUS
<1>1. /\ outcome = "fetching" /\ log # <<>> /\ log' = Export!Front(log)
           /\ seen' = seen \cup {log'}
      /\ UNCHANGED <<stored, releaseFilter, cursor, pages, records, first, last, outcome>>
  BY DEF Export!Restore, Export!client
<1>2. log \in seen /\ log \in Seq(ExportRecord) /\ Len(log) \in Nat \ {0} /\ stored \in Nat
  BY <1>1, LenProperties, EmptySeq DEF ExportIInv, ExportTyped, Export!TypeOK
<1>3. /\ log' \in Seq(ExportRecord) /\ Len(log') = Len(log) - 1
      /\ \A i \in 1 .. Len(log) - 1 : log'[i] = log[i]
  <2>1. \A i \in 1 .. Len(log) - 1 : log[i] \in ExportRecord
    BY <1>2, ElementOfSeq
  <2>2. /\ SubSeq(log, 1, Len(log) - 1) \in Seq(ExportRecord)
        /\ Len(SubSeq(log, 1, Len(log) - 1)) = IF 1 <= Len(log) - 1
             THEN (Len(log) - 1) - 1 + 1 ELSE 0
        /\ \A i \in 1 .. (Len(log) - 1) - 1 + 1 : SubSeq(log, 1, Len(log) - 1)[i]
             = log[1 + i - 1]
    BY <2>1, <1>2, SubSeqProperties
  <2>3. log' = SubSeq(log, 1, Len(log) - 1)
    BY <1>1 DEF Export!Front
  <2>4. Len(log') = Len(log) - 1
    <3>1. Len(log') = IF 1 <= Len(log) - 1 THEN Len(log) - 1 - 1 + 1 ELSE 0
      BY <2>2, <2>3
    <3>2. Len(log) \in Nat \ {0}
      BY <1>2
    <3>3. \A L \in Nat \ {0} : (IF 1 <= L - 1 THEN L - 1 - 1 + 1 ELSE 0) = L - 1
      OBVIOUS
    <3> QED
      BY <3>1, <3>2, <3>3
  <2>5. ASSUME NEW i \in 1 .. Len(log) - 1 PROVE log'[i] = log[i]
    <3>1. i \in 1 .. (Len(log) - 1) - 1 + 1 /\ 1 + i - 1 = i
      BY <1>2
    <3> QED
      BY <3>1, <2>2, <2>3
  <2> QED
    BY <2>2, <2>3, <2>4, <2>5
<1>4. ExportTyped'
  BY <1>1, <1>2, <1>3 DEF ExportIInv, ExportTyped, Export!TypeOK
<1>5. ExportLinked'
  <2>1. ASSUME NEW c \in seen', NEW i \in 1 .. Len(c)
        PROVE  \E d \in seen : /\ i \in 1 .. Len(d) /\ c[i] = d[i]
                               /\ i # 1 => c[i - 1] = d[i - 1]
    <3>1. CASE c \in seen
      BY <3>1
    <3>2. CASE c = log'
      <4>1. i \in 1 .. Len(log) /\ c[i] = log[i] /\ (i # 1 => c[i - 1] = log[i - 1])
        BY <3>2, <1>2, <1>3
      <4> QED
        BY <4>1, <1>2
    <3> QED
      BY <3>1, <3>2, <1>1
  <2>2. ASSUME NEW c \in seen', NEW i \in 1 .. Len(c)
        PROVE  /\ c[i].sequence = i - 1 /\ c[i].hash <= stored
               /\ c[i].previous = IF i = 1 THEN None ELSE c[i - 1].hash
    BY <2>1 DEF ExportIInv, ExportLinked
  <2>3. ASSUME NEW c \in seen', NEW d \in seen', NEW i \in 1 .. Len(c),
               NEW j \in 1 .. Len(d),
               c[i].hash = d[j].hash
        PROVE  c[i] = d[j]
    <3>1. PICK a \in seen : i \in 1 .. Len(a) /\ c[i] = a[i]
      BY <2>1
    <3>2. PICK b \in seen : j \in 1 .. Len(b) /\ d[j] = b[j]
      BY <2>1
    <3> QED
      BY <3>1, <3>2, <2>3 DEF ExportIInv, ExportLinked
  <2> QED
    BY <2>2, <2>3, <1>1 DEF ExportLinked
<1>6. ExportSourced' /\ Export!ExportIsWhole'
  BY <1>1 DEF ExportIInv, ExportSourced, ExportAnnounced, Export!ExportIsWhole
<1> QED
  BY <1>4, <1>5, <1>6 DEF ExportIInv

\* The records after the cursor are records of the chain.
\* What a page holds are records of the chain, after the cursor.
LEMMA ExportPage ==
  ASSUME NEW c \in Seq(ExportRecord), cursor \in Int, cursor + 1 \in Nat, PageSize \in Nat
  PROVE  /\ Export!AfterCursor(c) \in Seq(ExportRecord)
         /\ \A i \in 1 .. Len(Export!AfterCursor(c)) : \E j \in 1 .. Len(c) :
              Export!AfterCursor(c)[i] = c[j]
<1> DEFINE m == cursor + 2
           n == IF Len(c) < cursor + 1 + PageSize THEN Len(c) ELSE cursor + 1 + PageSize
<1>1. m \in Int /\ n \in Int /\ 1 <= m /\ n <= Len(c) /\ Len(c) \in Nat
  BY LenProperties
<1>2. \A i \in m .. n : c[i] \in ExportRecord
  BY <1>1, ElementOfSeq
<1>3. /\ SubSeq(c, m, n) \in Seq(ExportRecord)
      /\ Len(SubSeq(c, m, n)) = IF m <= n THEN n - m + 1 ELSE 0
      /\ \A i \in 1 .. n - m + 1 : SubSeq(c, m, n)[i] = c[m + i - 1]
  <2> HIDE DEF m, n
  <2> QED
    BY <1>1, <1>2, SubSeqProperties
<1>4. ASSUME NEW i \in 1 .. Len(SubSeq(c, m, n))
      PROVE  \E j \in 1 .. Len(c) : SubSeq(c, m, n)[i] = c[j]
  <2> HIDE DEF m, n
  <2>1. m + i - 1 \in 1 .. Len(c) /\ SubSeq(c, m, n)[i] = c[m + i - 1]
    BY <1>1, <1>3
  <2> QED
    BY <2>1
<1> QED
  BY <1>3, <1>4 DEF Export!AfterCursor

\* A page that is fetched keeps the invariant.
LEMMA ExportFetches == Export!Distinct /\ ExportIInv /\ Export!Fetch => ExportIInv'
<1> SUFFICES ASSUME Export!Distinct, ExportIInv, Export!Fetch PROVE ExportIInv'
  OBVIOUS
<1>1. outcome = "fetching" /\ pages < MaxPages /\ UNCHANGED <<log, seen, stored,
        releaseFilter>>
  BY DEF Export!Fetch
<1>2. ExportLinked'
  BY <1>1 DEF ExportIInv, ExportLinked
<1>3. CASE Export!Stop("failed")
  <2>1. outcome' = "failed" /\ UNCHANGED <<cursor, pages, records, first, last>>
    BY <1>3 DEF Export!Stop, Export!client
  <2>2. ExportTyped'
    BY <1>1, <2>1 DEF ExportIInv, ExportTyped, Export!TypeOK
  <2>3. ExportSourced' /\ Export!ExportIsWhole'
    BY <1>1, <2>1 DEF ExportIInv, ExportSourced, ExportAnnounced, Export!ExportIsWhole
  <2> QED
    BY <2>2, <2>3, <1>2 DEF ExportIInv
<1>4. ASSUME NEW page \in Export!Page,
             ~(pages > 0 /\ (page.first # first \/ page.last # last)),
             ~(Len(records) + Len(page.records) > MaxRecords),
             ~(page.next # None /\ page.next <= cursor),
             pages' = pages + 1, first' = page.first, last' = page.last,
             records' = records \o [n \in DOMAIN page.records |->
                 [record |-> page.records[n],
                  included |-> page.marked \/ releaseFilter \in {None,
                    page.records[n].release}]],
             IF page.next = None THEN outcome' = "exported" /\ UNCHANGED cursor
             ELSE cursor' = page.next /\ UNCHANGED outcome
      PROVE  ExportIInv'
  <2>1. PICK c \in seen, next \in {None, cursor, cursor + PageSize}, m \in BOOLEAN :
           page = [records |-> Export!AfterCursor(c),
                   first |-> IF c = <<>> THEN None ELSE 0,
                   last |-> IF c = <<>> THEN None ELSE Len(c) - 1,
                   next |-> next, marked |-> m]
    BY DEF Export!Page
  <2> DEFINE q == Export!AfterCursor(c)
             t == [n \in DOMAIN q |->
                     [record |-> q[n], included |-> m \/ releaseFilter \in {None,
                       q[n].release}]]
  <2>2. /\ cursor \in Int /\ cursor + 1 \in Nat /\ PageSize \in Nat /\ pages \in Nat
        /\ c \in Seq(ExportRecord) /\ records \in Seq(ExportFetched)
    BY DEF ExportIInv, ExportTyped, Export!TypeOK, Export!Distinct
  <2>3. /\ q \in Seq(ExportRecord)
        /\ \A i \in 1 .. Len(q) : \E j \in 1 .. Len(c) : q[i] = c[j]
    BY <2>2, ExportPage
  <2>4. DOMAIN q = 1 .. Len(q) /\ Len(q) \in Nat /\ Len(records) \in Nat
        /\ \A i \in 1 .. Len(q) : q[i] \in ExportRecord
    BY <2>2, <2>3, LenProperties, ElementOfSeq
  <2>5. t \in Seq(ExportFetched) /\ Len(t) = Len(q)
    <3>1. t \in [1 .. Len(q) -> ExportFetched]
      BY <2>4 DEF ExportFetched
    <3>2. t \in Seq(ExportFetched)
      BY <3>1, <2>4, SeqDef
    <3> QED
      BY <3>1, <3>2, <2>4, LenProperties
  <2>6. records' = records \o t
    BY <1>4, <2>1
  <2>7. /\ records' \in Seq(ExportFetched) /\ Len(records') = Len(records) + Len(q)
        /\ \A i \in 1 .. Len(records) : records'[i] = records[i]
        /\ \A i \in 1 .. Len(q) : records'[Len(records) + i].record = q[i]
    <3> HIDE DEF t, q
    <3>1. /\ records \o t \in Seq(ExportFetched)
          /\ Len(records \o t) = Len(records) + Len(t)
          /\ \A i \in 1 .. Len(records) + Len(t) :
                (records \o t)[i] = IF i <= Len(records) THEN records[i]
                  ELSE t[i - Len(records)]
      <4>1. records \in Seq(ExportFetched) /\ t \in Seq(ExportFetched)
        BY <2>2, <2>5
      <4> QED
        BY <4>1, ConcatProperties
    <3>2. \A i \in 1 .. Len(records) : records'[i] = records[i]
      BY <3>1, <2>4, <2>5, <2>6
    <3>3. \A i \in 1 .. Len(q) : records'[Len(records) + i] = t[i]
      BY <3>1, <2>4, <2>5, <2>6
    <3>4. \A i \in 1 .. Len(q) : t[i].record = q[i]
      BY <2>4 DEF t
    <3> QED
      BY <3>1, <3>2, <3>3, <3>4, <2>5, <2>6
  <2>8. ExportAnnounced(c)'
    BY <1>4, <2>1 DEF ExportAnnounced
  <2>9. pages > 0 => first' = first /\ last' = last
    BY <1>4
  <2>10. Len(records') <= MaxRecords
    <3>1. page.records = q
      BY <2>1
    <3>2. ~(Len(records) + Len(q) > MaxRecords)
      BY <3>1, <1>4
    <3> QED
      BY <3>2, <2>4, <2>7 DEF Export!Distinct
  <2>11. cursor' \in Int /\ cursor' + 1 \in Nat /\ outcome' \in {"fetching", "exported"}
    BY <1>1, <1>4, <2>1, <2>2
  <2>12. ExportTyped'
    BY <1>1, <1>4, <2>2, <2>7, <2>10, <2>11 DEF ExportIInv, ExportTyped, Export!TypeOK,
        Export!Distinct
  <2>13. ASSUME NEW n \in 1 .. Len(records')
         PROVE  \E d \in seen' : ExportAnnounced(d)' /\ \E i \in 1 .. Len(d) :
                  records'[n].record = d[i]
    <3>1. CASE n \in 1 .. Len(records)
      <4>1. pages > 0
        BY <3>1, <2>2, EmptySeq DEF ExportIInv, ExportSourced
      <4>2. PICK d \in seen : ExportAnnounced(d) /\ \E i \in 1 .. Len(d) :
              records[n].record = d[i]
        BY <3>1 DEF ExportIInv, ExportSourced
      <4>3. ExportAnnounced(d)'
        BY <4>1, <4>2, <2>9 DEF ExportAnnounced
      <4> QED
        BY <4>2, <4>3, <3>1, <2>7, <1>1
    <3>2. CASE n - Len(records) \in 1 .. Len(q)
      <4>1. records'[n].record = q[n - Len(records)]
        BY <3>2, <2>4, <2>7
      <4> QED
        BY <4>1, <3>2, <2>3, <2>8, <1>1
    <3> QED
      BY <3>1, <3>2, <2>4, <2>7
  <2>14. ExportSourced'
    <3>1. pages' > 0 /\ pages' # 0
      BY <2>2, <1>4
    <3>2. c \in seen' /\ ExportAnnounced(c)'
      BY <2>8, <1>1
    <3> QED
      BY <3>1, <3>2, <2>13 DEF ExportSourced
  <2>15. Export!ExportIsWhole'
    BY <2>11 DEF Export!ExportIsWhole
  <2> QED
    BY <1>2, <2>12, <2>14, <2>15 DEF ExportIInv
<1> QED
  BY <1>3, <1>4 DEF Export!Fetch

\* A collection that verifies is a chain: of the one its last record is from, link by
\* link from the end.
\* Records that verify are a chain the Cloud has had.
LEMMA ExportVerified == ASSUME Export!Distinct, ExportIInv, outcome = "exported",
    Export!ChainVerifies
                        PROVE  [n \in DOMAIN records |-> records[n].record] \in seen
<1>1. records \in Seq(ExportFetched) /\ Len(records) \in Nat
        /\ DOMAIN records = 1 .. Len(records)
  BY LenProperties DEF ExportIInv, ExportTyped
<1>2. CASE records = <<>>
  <2>1. pages > 0 /\ first = None /\ None \notin Int
    BY <1>2 DEF ExportIInv, ExportSourced, Export!ChainVerifies, Export!Distinct
  <2>2. PICK c \in seen : ExportAnnounced(c)
    BY <2>1 DEF ExportIInv, ExportSourced
  <2>3. c = <<>>
    BY <2>1, <2>2 DEF ExportAnnounced
  <2>4. [n \in DOMAIN records |-> records[n].record] = <<>>
    BY <1>2, EmptySeq
  <2> QED
    BY <2>2, <2>3, <2>4
<1>3. CASE records # <<>>
  <2> DEFINE m == Len(records)
             R(n) == records[n].record
  <2>1. /\ m \in 1 .. m /\ last = R(m).sequence
        /\ \A n \in 1 .. m : /\ R(n).sequence = n - 1
                             /\ n # 1 => R(n).previous = R(n - 1).hash
    BY <1>1, <1>3, EmptySeq DEF Export!ChainVerifies, Export!Last
  <2>2. PICK c \in seen : ExportAnnounced(c) /\ \E i \in 1 .. Len(c) : R(m) = c[i]
    BY <2>1 DEF ExportIInv, ExportSourced
  <2>3. c \in Seq(ExportRecord) /\ Len(c) \in Nat /\ DOMAIN c = 1 .. Len(c)
    BY <2>2, LenProperties DEF ExportIInv, ExportTyped
  <2>4. PICK i \in 1 .. Len(c) : R(m) = c[i]
    BY <2>2
  <2>5. i = m
    BY <2>1, <2>2, <2>3, <2>4 DEF ExportIInv, ExportLinked
  <2>6. Len(c) = m /\ R(m) = c[m]
    <3>1. c # <<>>
      BY <2>3, <2>4, EmptySeq
    <3>2. last = Len(c) - 1 /\ last = m - 1
      BY <3>1, <2>1, <2>2 DEF ExportAnnounced
    <3> QED
      BY <3>2, <2>3, <2>4, <2>5, <1>1
  <2>7. ASSUME NEW n \in 2 .. m, R(n) = c[n] PROVE R(n - 1) = c[n - 1]
    <3>1. n - 1 \in 1 .. m /\ n \in 1 .. Len(c) /\ n - 1 \in 1 .. Len(c) /\ n # 1
      BY <2>6, <1>1
    <3>2. R(n - 1).hash = c[n - 1].hash
      <4>1. R(n).previous = R(n - 1).hash
        BY <2>1, <3>1
      <4>2. c[n].previous = c[n - 1].hash
        BY <3>1, <2>2 DEF ExportIInv, ExportLinked
      <4> QED
        BY <4>1, <4>2, <2>7
    <3>3. PICK d \in seen : \E j \in 1 .. Len(d) : R(n - 1) = d[j]
      BY <3>1 DEF ExportIInv, ExportSourced
    <3> QED
      BY <3>1, <3>2, <3>3, <2>2 DEF ExportIInv, ExportLinked
  <2>8. ASSUME NEW n \in 1 .. m PROVE R(n) = c[n]
    <3> DEFINE B == {k \in 0 .. m - 1 : R(m - k) # c[m - k]}
    <3>1. SUFFICES B = {}
      <4>1. m - n \in 0 .. m - 1 /\ m - (m - n) = n
        BY <1>1
      <4> QED
        BY <3>1, <4>1
    <3>2. SUFFICES ASSUME B # {} PROVE FALSE
      OBVIOUS
    <3>3. PICK k \in B : \A j \in B : k <= j
      <4>1. B \in SUBSET Nat
        BY <1>1
      <4> HIDE DEF B
      <4> QED
        BY <4>1, <3>2, Least
    <3>4. k # 0 /\ k \in 0 .. m - 1
      BY <2>6, <3>3, <1>1
    <3>5. k - 1 \in 0 .. m - 1 /\ k - 1 \notin B
      <4>1. k - 1 \in 0 .. m - 1 /\ ~(k <= k - 1)
        BY <3>4, <1>1
      <4> HIDE DEF B
      <4> QED
        BY <4>1, <3>3
    <3>6. R(m - (k - 1)) = c[m - (k - 1)]
      BY <3>5
    <3>7. m - (k - 1) \in 2 .. m /\ m - (k - 1) - 1 = m - k
      BY <3>4, <1>1
    <3>8. R(m - k) = c[m - k]
      BY <2>7, <3>6, <3>7
    <3> QED
      BY <3>3, <3>8
  <2>9. [n \in DOMAIN records |-> R(n)] = c
    <3>1. c = [n \in 1 .. m |-> c[n]]
      BY <2>3, <2>6, LenProperties
    <3> QED
      BY <3>1, <2>8, <1>1
  <2> QED
    BY <2>2, <2>9
<1> QED
  BY <1>2, <1>3

\* The verification keeps the invariant.
LEMMA ExportVerifies == Export!Distinct /\ ExportIInv /\ Export!Verify => ExportIInv'
<1> SUFFICES ASSUME Export!Distinct, ExportIInv, Export!Verify PROVE ExportIInv'
  OBVIOUS
<1>1. /\ outcome = "exported" /\ outcome' = IF Export!ChainVerifies THEN "verified"
           ELSE "failed"
      /\ UNCHANGED <<log, seen, stored, releaseFilter, cursor, pages, records, first, last>>
  BY DEF Export!Verify, Export!client
<1>2. ExportTyped'
  BY <1>1 DEF ExportIInv, ExportTyped, Export!TypeOK
<1>3. ExportLinked' /\ ExportSourced'
  BY <1>1 DEF ExportIInv, ExportLinked, ExportSourced, ExportAnnounced
<1>4. Export!ExportIsWhole'
  <2> SUFFICES ASSUME Export!ChainVerifies
      PROVE /\ [n \in DOMAIN records |-> records[n].record] \in seen
            /\ releaseFilter # None =>
                 {n \in DOMAIN records : records[n].included} =
                    {n \in DOMAIN records : records[n].record.release = releaseFilter}
    BY <1>1 DEF Export!ExportIsWhole
  <2>1. [n \in DOMAIN records |-> records[n].record] \in seen
    BY <1>1, ExportVerified
  <2>2. ASSUME releaseFilter # None, NEW n \in DOMAIN records
        PROVE  records[n].included <=> records[n].record.release = releaseFilter
    <3>1. records # <<>>
      BY <2>2, EmptySeq
    <3> QED
      BY <3>1, <2>2 DEF Export!ChainVerifies
  <2> QED
    BY <2>1, <2>2
<1> QED
  BY <1>2, <1>3, <1>4 DEF ExportIInv

\* The invariant is inductive.
LEMMA ExportInductive == ASSUME Export!Distinct, ExportIInv, [Export!Next]_Export!vars
    PROVE ExportIInv'
<1>1. CASE Export!GiveUp
  <2>1. outcome' = "failed" /\ UNCHANGED <<log, seen, stored, releaseFilter, cursor,
          pages, records, first, last>>
    BY <1>1 DEF Export!GiveUp, Export!Stop, Export!client
  <2>2. ExportTyped'
    BY <2>1 DEF ExportIInv, ExportTyped, Export!TypeOK
  <2> QED
    BY <2>1, <2>2 DEF ExportIInv, ExportLinked, ExportSourced, ExportAnnounced,
        Export!ExportIsWhole
<1>2. CASE UNCHANGED Export!vars
  BY <1>2 DEF Export!vars, ExportIInv, ExportTyped, Export!TypeOK, ExportLinked,
      ExportSourced, ExportAnnounced, Export!ExportIsWhole
<1> QED
  BY <1>1, <1>2, ExportGrows, ExportRestores, ExportFetches, ExportVerifies DEF Export!Next

\* An export that verifies is the whole chain of one moment, though it was fetched
\* in pages while records came and went, for any sizes of pages and any releases.
THEOREM ExportWhole == ASSUME Export!Distinct PROVE Export!Spec => []Export!ExportIsWhole
<1>1. ExportIInv /\ [Export!Next]_Export!vars => ExportIInv'
  BY ExportInductive
<1>2. Export!Init => ExportIInv
  BY ExportInitial
<1>3. ExportIInv => Export!ExportIsWhole
  BY DEF ExportIInv
<1> QED
  BY <1>1, <1>2, <1>3, PTL DEF Export!Spec
===============================================================================
