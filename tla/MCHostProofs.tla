----------------------------- MODULE MCHostProofs -----------------------------
(***************************************************************************)
(* The properties of MCHost as theorems, for every value of the constants. *)
(*                                                                         *)
(* The theorems of a component are about its own module.  Here the proof   *)
(* modules are instantiated as MCHost instantiates the components; one     *)
(* lemma says that the component in MCHost has the same initial states and *)
(* steps, and that a behaviour of its part of MCHost satisfies its         *)
(* inductive invariant.                                                    *)
(***************************************************************************)
EXTENDS MCHost, TLAPS

Parts == INSTANCE HostPartProofs WITH
    now <- v1, minimum <- v2, object <- v3, consumed <- v4, prepared <- v5,
    evidence <- v6, call <- v7, moved <- v8, handed <- v9,
    MaxTime <- MaxClock,
    version <- v1, staged <- v2, rollback <- v3, registered <- v4,
    site <- v5, backup <- v6, saved <- v7, phase <- v8, at <- v9,
    undoing <- v10, hadPrevious <- v11, siteExisted <- v12, said <- v13,
    run <- v14, failed <- v15, before <- v16, MaxRuns <- MaxScripts,
    stage <- v1, source <- v2, digest <- v3, name <- v4, target <- v5,
    key <- v6, pairing <- v7, granted <- v8, credential <- v9, copy <- v10,
    releaseFile <- v11, evidenceFile <- v12, draft <- v13, held <- v14,
    ran <- v15, state <- v16, edits <- v17, Run <- SetupRun,
    clock <- v1, session <- v2, approved <- v3, revoked <- v4, runs <- v5,
    chain <- v6, extra <- v7, MaxCases <- MaxRuns,
    kind <- v1, step <- v2, entries <- v3, pending <- v4, room <- v5,
    temporary <- v6, file <- v7, earlier <- v8, reported <- v9, refused <- v10,
    asked <- v11, LastTime <- MaxTime,
    log <- v1, seen <- v2, stored <- v3, releaseFilter <- v4, cursor <- v5,
    pages <- v6, records <- v7, first <- v8, last <- v9, outcome <- v10

SessP == INSTANCE ValidationSessionProofs WITH
    pc <- v1, cmd <- v2, arg <- v3, lock <- v4, wrote <- v5, looked <- v6,
    moved <- v7, todo <- v8, draft <- v9, names <- v10, manifest <- v11,
    sums <- v12, unsigned <- v13, Started <- Commands

LockP == INSTANCE ValidationSessionProofs WITH
    pc <- v1, cmd <- v2, arg <- v3, lock <- v4, wrote <- v5, looked <- v6,
    moved <- v7, todo <- v8, draft <- v9, names <- v10, manifest <- v11,
    sums <- v12, unsigned <- v13, Started <- {"recover"}, Process <- Process \cup {OneMoreProcess},
    Case <- {}

RosbotP == INSTANCE HusarionGatewayProofs WITH
    mode <- v1, id <- v2, stage <- v3, attemptsBefore <- v4, answer <- v5,
    seen <- v6, attempts <- v7, confirmed <- v8, channel <- v9,
    pending <- v10, odometry <- v11, child <- v12, inbox <- v13,
    outbox <- v14, mux <- v15, published <- v16, Call <- Proposal

CrowdedP == INSTANCE HusarionGatewayProofs WITH
    mode <- v1, id <- v2, stage <- v3, attemptsBefore <- v4, answer <- v5,
    seen <- v6, attempts <- v7, confirmed <- v8, channel <- v9,
    pending <- v10, odometry <- v11, child <- v12, inbox <- v13,
    outbox <- v14, mux <- v15, published <- v16, Call <- Proposal,
    Capacity <- 1

-----------------------------------------------------------------------------
(* The edge boundary. *)

\* The component and the module of its proofs have the same steps.
LEMMA EdgeNext == Edge!Next => Parts!Edge!Next
  BY DEF
    Edge!Next, Parts!Edge!Next, Edge!Snapshot, Parts!Edge!Snapshot, Edge!Verifies,
    Parts!Edge!Verifies, Edge!Prepare, Parts!Edge!Prepare, Edge!Handed, Parts!Edge!Handed,
    Edge!Dispatch, Parts!Edge!Dispatch, Edge!Consume, Parts!Edge!Consume, Edge!AdapterFails,
    Parts!Edge!AdapterFails, Edge!ChangeObject, Parts!Edge!ChangeObject, Edge!Tick, Parts!Edge!Tick,
    Edge!RaiseEpoch, Parts!Edge!RaiseEpoch, Edge!Seen, Parts!Edge!Seen

EdgeInv == part = "edge" => Parts!EdgeIInv

LEMMA EdgeInit == Init => EdgeInv
<1> SUFFICES ASSUME Init, part = "edge" PROVE Parts!EdgeIInv
  BY DEF EdgeInv
<1>1. Parts!Edge!Bounds
  BY HostAssumption DEF Edge!Bounds, Parts!Edge!Bounds
<1>2. Parts!Edge!Init
  BY DEF Init, Edge!Init, Parts!Edge!Init
<1> QED
  BY <1>1, <1>2, Parts!EdgeInitTypeOK, Parts!EdgeInitCore DEF Parts!EdgeIInv

LEMMA EdgeStep == EdgeInv /\ [Next]_vars => EdgeInv'
<1> SUFFICES ASSUME EdgeInv, [Next]_vars, part' = "edge" PROVE Parts!EdgeIInv'
  BY DEF EdgeInv
<1>1. part = "edge"
  BY DEF Next, vars
<1>2. Parts!EdgeIInv
  BY <1>1 DEF EdgeInv
<1>3. Parts!Edge!Bounds
  BY HostAssumption DEF Edge!Bounds, Parts!Edge!Bounds
<1>4. [Parts!Edge!Next]_Parts!Edge!vars
  <2>1. CASE Edge!Next
    BY <2>1, EdgeNext
  <2>2. CASE UNCHANGED vars
    BY <2>2 DEF vars, Parts!Edge!vars
  <2> QED
    BY <1>1, <2>1, <2>2 DEF Next
<1>5. Parts!Edge!TypeOK' /\ Parts!EdgeCore'
  BY <1>2, <1>3, <1>4, Parts!EdgeNextTypeOK, Parts!EdgeNextCore DEF Parts!EdgeIInv
<1> QED
  BY <1>5 DEF Parts!EdgeIInv

\* snapshot.ts: the boundary moves once at most, the action it was authorised for,
\* under a snapshot that was valid at the hand-over.
THEOREM EdgeMovesOnce == Spec => []OneAuthorizedMove
<1>1. EdgeInv => OneAuthorizedMove
  <2> SUFFICES ASSUME EdgeInv, part = "edge" PROVE Edge!OneAuthorizedMove
    BY DEF OneAuthorizedMove
  <2>1. Parts!Edge!OneAuthorizedMove
    BY Parts!EdgeCoreSuffices DEF EdgeInv, Parts!EdgeIInv
  <2> QED
    BY <2>1 DEF Parts!Edge!OneAuthorizedMove, Edge!OneAuthorizedMove,
                Edge!Cardinality, Parts!Edge!Cardinality
<1> QED
  BY <1>1, EdgeInit, EdgeStep, PTL DEF Spec

-----------------------------------------------------------------------------
(* The installer. *)

\* The component and the module of its proofs have the same initial states and steps.
LEMMA ScriptSameInit == Script!Init => Parts!Script!Init
  BY DEF
    Script!Init, Parts!Script!Init, Script!Registration, Parts!Script!Registration,
    Script!Registrations, Parts!Script!Registrations, Script!Links, Parts!Script!Links,
    Script!Absent, Parts!Script!Absent, Script!Nothing, Parts!Script!Nothing,
    Script!Installation, Parts!Script!Installation

LEMMA ScriptNext == Script!Next => Parts!Script!Next
  BY DEF
    Script!Next, Parts!Script!Next, Script!Start, Parts!Script!Start, Script!Prepare,
    Parts!Script!Prepare, Script!Stage, Parts!Script!Stage, Script!Snapshot,
    Parts!Script!Snapshot, Script!SetAside, Parts!Script!SetAside, Script!Activate,
    Parts!Script!Activate, Script!Register, Parts!Script!Register, Script!Verify,
    Parts!Script!Verify, Script!Undo, Parts!Script!Undo, Script!Discard,
    Parts!Script!Discard, Script!PutBack, Parts!Script!PutBack, Script!Forget,
    Parts!Script!Forget, Script!Kill, Parts!Script!Kill, Script!RecoveryPaths,
    Parts!Script!RecoveryPaths, Script!UnfinishedRecovery,
    Parts!Script!UnfinishedRecovery, Script!Installation, Parts!Script!Installation,
    Script!Works, Parts!Script!Works, Script!Fails, Parts!Script!Fails, Script!GoTo,
    Parts!Script!GoTo, Script!Exit, Parts!Script!Exit, Script!FirstToUndo,
    Parts!Script!FirstToUndo, Script!UndoAll, Parts!Script!UndoAll, Script!Shrunk,
    Parts!Script!Shrunk, Script!Last, Parts!Script!Last, Script!Registrations,
    Parts!Script!Registrations, Script!Nothing, Parts!Script!Nothing,
    Script!Registration, Parts!Script!Registration, Script!Links, Parts!Script!Links,
    Script!Absent, Parts!Script!Absent, Script!Damaged, Parts!Script!Damaged,
    Script!Cardinality, Parts!Script!Cardinality, Script!IsFiniteSet,
    Parts!Script!IsFiniteSet, Script!trees, Parts!Script!trees, Script!copies,
    Parts!Script!copies, Script!script, Parts!Script!script

ScriptInv == part = "installer" => Parts!ScriptIInv

LEMMA ScriptBounds == Parts!Script!Bounds
  BY HostAssumption DEF Script!Bounds, Parts!Script!Bounds

LEMMA ScriptInvInit == Init => ScriptInv
  BY ScriptSameInit, ScriptBounds, Parts!ScriptInitial DEF Init, ScriptInv

LEMMA ScriptInvStep == ScriptInv /\ [Next]_vars => ScriptInv'
<1> SUFFICES ASSUME ScriptInv, [Next]_vars, part' = "installer" PROVE Parts!ScriptIInv'
  BY DEF ScriptInv
<1>1. part = "installer"
  BY DEF Next, vars
<1>2. Parts!ScriptIInv
  BY <1>1 DEF ScriptInv
<1>3. [Parts!Script!Next]_Parts!Script!vars
  <2>1. CASE Script!Next
    BY <2>1, ScriptNext
  <2>2. CASE UNCHANGED vars
    BY <2>2 DEF vars, Parts!Script!vars, Parts!Script!trees, Parts!Script!copies,
                Parts!Script!script
  <2> QED
    BY <1>1, <2>1, <2>2 DEF Next
<1> QED
  BY <1>2, <1>3, ScriptBounds, Parts!ScriptInductive

\* activate_install and rollback_install: the new version is installed, or what
\* was there before is in place or in the recovery paths.
THEOREM PreviousInHost == Spec => []PreviousRecoverable
<1>1. ScriptInv => PreviousRecoverable
  <2> SUFFICES ASSUME ScriptInv, part = "installer" PROVE Script!PreviousRecoverable
    BY DEF PreviousRecoverable
  <2>1. Parts!Script!PreviousRecoverable
    BY DEF ScriptInv, Parts!ScriptIInv
  <2> QED
    BY <2>1 DEF
      Script!PreviousRecoverable, Parts!Script!PreviousRecoverable, Script!Misjudged,
      Parts!Script!Misjudged, Script!Complete, Parts!Script!Complete, Script!Restorable,
      Parts!Script!Restorable, Script!Registration, Parts!Script!Registration,
      Script!Registrations, Parts!Script!Registrations, Script!Absent, Parts!Script!Absent
<1> QED
  BY <1>1, ScriptInvInit, ScriptInvStep, PTL DEF Spec

\* What install.sh says at its end is so.
THEOREM MessageInHost == Spec => []MessageTrue
<1>1. ScriptInv => MessageTrue
  <2> SUFFICES ASSUME ScriptInv, part = "installer" PROVE Script!MessageTrue
    BY DEF MessageTrue
  <2>1. Parts!Script!MessageTrue
    BY DEF ScriptInv, Parts!ScriptIInv
  <2> QED
    BY <2>1 DEF
      Script!MessageTrue, Parts!Script!MessageTrue, Script!Misjudged,
      Parts!Script!Misjudged, Script!Complete, Parts!Script!Complete, Script!Restorable,
      Parts!Script!Restorable, Script!RecoveryPaths, Parts!Script!RecoveryPaths,
      Script!Installation, Parts!Script!Installation, Script!Registration,
      Parts!Script!Registration, Script!Registrations, Parts!Script!Registrations,
      Script!Absent, Parts!Script!Absent
<1> QED
  BY <1>1, ScriptInvInit, ScriptInvStep, PTL DEF Spec

-----------------------------------------------------------------------------
(* The validation session. *)

\* The component and the module of its proofs have the same initial states and steps.
LEMMA SessInit == Sess!Init => SessP!Init
  BY DEF Sess!Init, SessP!Init, Sess!Settled, SessP!Settled

LEMMA SessNext == Sess!Next => SessP!Next
  BY DEF
    Sess!Next, SessP!Next, Sess!Start, SessP!Start, Sess!Look, SessP!Look, Sess!Claim,
    SessP!Claim, Sess!Compare, SessP!Compare, Sess!PutBack, SessP!PutBack,
    Sess!Acquire, SessP!Acquire, Sess!Sign, SessP!Sign, Sess!Release, SessP!Release,
    Sess!CompareOwn, SessP!CompareOwn, Sess!Work, SessP!Work, Sess!Open, SessP!Open,
    Sess!Rename, SessP!Rename, Sess!WriteFails, SessP!WriteFails, Sess!Kill,
    SessP!Kill, Sess!Running, SessP!Running, Sess!Working, SessP!Working, Sess!Bytes,
    SessP!Bytes, Sess!Gone, SessP!Gone, Sess!End, SessP!End, Sess!Go, SessP!Go,
    Sess!NextToStart, SessP!NextToStart, Sess!Described, SessP!Described,
    Sess!Verified, SessP!Verified, Sess!MayInit, SessP!MayInit, Sess!MayRecord,
    SessP!MayRecord, Sess!MayFinalize, SessP!MayFinalize, Sess!MayVerify,
    SessP!MayVerify, Sess!MayRecover, SessP!MayRecover, Sess!Accept, SessP!Accept,
    Sess!Answer, SessP!Answer, Sess!DoInit, SessP!DoInit, Sess!DoRecord,
    SessP!DoRecord, Sess!DoFinalize, SessP!DoFinalize, Sess!DoVerify, SessP!DoVerify,
    Sess!DoRecover, SessP!DoRecover, Sess!Refuse, SessP!Refuse, Sess!Placed,
    SessP!Placed, Sess!File, SessP!File, Sess!procVars, SessP!procVars, Sess!lockVars,
    SessP!lockVars, Sess!dirVars, SessP!dirVars

SessInv == part = "session" => SessP!IInv

LEMMA SessDistinct == SessP!Distinct
  BY HostAssumption DEF Sess!Distinct, SessP!Distinct, Sess!Command, SessP!Command

LEMMA SessInvInit == Init => SessInv
  BY SessInit, SessDistinct, SessP!IInit DEF Init, SessInv

LEMMA SessInvStep == SessInv /\ [Next]_vars => SessInv'
<1> SUFFICES ASSUME SessInv, [Next]_vars, part' = "session" PROVE SessP!IInv'
  BY DEF SessInv
<1>1. part = "session"
  BY DEF Next, vars
<1>2. SessP!IInv
  BY <1>1 DEF SessInv
<1>3. [SessP!Next]_SessP!vars
  <2>1. CASE Sess!Next
    BY <2>1, SessNext
  <2>2. CASE UNCHANGED vars
    BY <2>2 DEF vars, SessP!vars
  <2> QED
    BY <1>1, <2>1, <2>2 DEF Next
<1> QED
  BY <1>2, <1>3, SessDistinct, SessP!INext

\* What the invariant of the component says of the part.
LEMMA SessInvSuffices == SessInv /\ part = "session" => Sess!OneOwner /\ Sess!Recoverable
<1> SUFFICES ASSUME SessP!IInv PROVE Sess!OneOwner /\ Sess!Recoverable
  BY DEF SessInv
<1>1. SessP!OneOwner
  BY SessP!OwnedIsOneOwner DEF SessP!IInv
<1>2. SessP!Recoverable
  BY SessP!IInvIsRecoverable
<1>3. Sess!OneOwner
  BY <1>1 DEF Sess!OneOwner, SessP!OneOwner, Sess!Working, SessP!Working, Sess!Misled, SessP!Misled,
              Sess!Cardinality, SessP!Cardinality
<1>4. Sess!Recoverable
  BY <1>2 DEF Sess!Recoverable, SessP!Recoverable, Sess!Running, SessP!Running, Sess!Working,
              SessP!Working, Sess!MayRecover, SessP!MayRecover, Sess!Described, SessP!Described,
              Sess!Clearable, SessP!Clearable
<1> QED
  BY <1>3, <1>4

-----------------------------------------------------------------------------
(* Recoveries that race for the lock of a session. *)

\* The component and the module of its proofs have the same initial states and steps.
LEMMA LockInit == Lock!Init => LockP!Init
  BY DEF Lock!Init, LockP!Init, Lock!Settled, LockP!Settled

LEMMA LockNext == Lock!Next => LockP!Next
  BY DEF
    Lock!Next, LockP!Next, Lock!Start, LockP!Start, Lock!Look, LockP!Look, Lock!Claim,
    LockP!Claim, Lock!Compare, LockP!Compare, Lock!PutBack, LockP!PutBack,
    Lock!Acquire, LockP!Acquire, Lock!Sign, LockP!Sign, Lock!Release, LockP!Release,
    Lock!CompareOwn, LockP!CompareOwn, Lock!Work, LockP!Work, Lock!Open, LockP!Open,
    Lock!Rename, LockP!Rename, Lock!WriteFails, LockP!WriteFails, Lock!Kill,
    LockP!Kill, Lock!Running, LockP!Running, Lock!Working, LockP!Working, Lock!Bytes,
    LockP!Bytes, Lock!Gone, LockP!Gone, Lock!End, LockP!End, Lock!Go, LockP!Go,
    Lock!NextToStart, LockP!NextToStart, Lock!Described, LockP!Described,
    Lock!Verified, LockP!Verified, Lock!MayInit, LockP!MayInit, Lock!MayRecord,
    LockP!MayRecord, Lock!MayFinalize, LockP!MayFinalize, Lock!MayVerify,
    LockP!MayVerify, Lock!MayRecover, LockP!MayRecover, Lock!Accept, LockP!Accept,
    Lock!Answer, LockP!Answer, Lock!DoInit, LockP!DoInit, Lock!DoRecord,
    LockP!DoRecord, Lock!DoFinalize, LockP!DoFinalize, Lock!DoVerify, LockP!DoVerify,
    Lock!DoRecover, LockP!DoRecover, Lock!Refuse, LockP!Refuse, Lock!Placed,
    LockP!Placed, Lock!File, LockP!File, Lock!procVars, LockP!procVars, Lock!lockVars,
    LockP!lockVars, Lock!dirVars, LockP!dirVars

LockInv == part = "lock" => LockP!IInv

LEMMA LockDistinct == LockP!Distinct
  BY HostAssumption DEF Lock!Distinct, LockP!Distinct, Lock!Command, LockP!Command

LEMMA LockInvInit == Init => LockInv
  BY LockInit, LockDistinct, LockP!IInit DEF Init, LockInv

LEMMA LockInvStep == LockInv /\ [Next]_vars => LockInv'
<1> SUFFICES ASSUME LockInv, [Next]_vars, part' = "lock" PROVE LockP!IInv'
  BY DEF LockInv
<1>1. part = "lock"
  BY DEF Next, vars
<1>2. LockP!IInv
  BY <1>1 DEF LockInv
<1>3. [LockP!Next]_LockP!vars
  <2>1. CASE Lock!Next
    BY <2>1, LockNext
  <2>2. CASE UNCHANGED vars
    BY <2>2 DEF vars, LockP!vars
  <2> QED
    BY <1>1, <2>1, <2>2 DEF Next
<1> QED
  BY <1>2, <1>3, LockDistinct, LockP!INext

\* What the invariant of the component says of the part.
LEMMA LockInvSuffices == LockInv /\ part = "lock" => Lock!OneOwner /\ Lock!Recoverable
<1> SUFFICES ASSUME LockP!IInv PROVE Lock!OneOwner /\ Lock!Recoverable
  BY DEF LockInv
<1>1. LockP!OneOwner
  BY LockP!OwnedIsOneOwner DEF LockP!IInv
<1>2. LockP!Recoverable
  BY LockP!IInvIsRecoverable
<1>3. Lock!OneOwner
  BY <1>1 DEF Lock!OneOwner, LockP!OneOwner, Lock!Working, LockP!Working, Lock!Misled, LockP!Misled,
              Lock!Cardinality, LockP!Cardinality
<1>4. Lock!Recoverable
  BY <1>2 DEF Lock!Recoverable, LockP!Recoverable, Lock!Running, LockP!Running, Lock!Working,
              LockP!Working, Lock!MayRecover, LockP!MayRecover, Lock!Described, LockP!Described,
              Lock!Clearable, LockP!Clearable
<1> QED
  BY <1>3, <1>4

-----------------------------------------------------------------------------
(* Both instances of the session together. *)

\* withSessionLock and clearDeadSessionLock: two commands are inside the lock at
\* once only if a recovery took away another lock than it had judged.
THEOREM OneOwnerInHost == Spec => []OneOwner
<1>1. SessInv /\ LockInv => OneOwner
  BY SessInvSuffices, LockInvSuffices DEF OneOwner
<1> QED
  BY <1>1, SessInvInit, SessInvStep, LockInvInit, LockInvStep, PTL DEF Spec

\* writeProtected, writeManifest and recoverIncompleteSession: whatever was killed
\* or failed, what is left can be recovered.
THEOREM RecoverableInHost == Spec => []Recoverable
<1>1. SessInv /\ LockInv => Recoverable
  BY SessInvSuffices, LockInvSuffices DEF Recoverable
<1> QED
  BY <1>1, SessInvInit, SessInvStep, LockInvInit, LockInvStep, PTL DEF Spec

-----------------------------------------------------------------------------
(* The Husarion gateway. *)

\* The component and the module of its proofs have the same initial states and steps.
LEMMA RosbotInit == Rosbot!Init => RosbotP!Init
  BY DEF Rosbot!Init, RosbotP!Init

LEMMA RosbotNext == Rosbot!Next => RosbotP!Next
  BY DEF
    Rosbot!Next, RosbotP!Next, Rosbot!Prepare, RosbotP!Prepare, Rosbot!Run,
    RosbotP!Run, Rosbot!Begin, RosbotP!Begin, Rosbot!ReadFails, RosbotP!ReadFails,
    Rosbot!AskPath, RosbotP!AskPath, Rosbot!PathUnavailable, RosbotP!PathUnavailable,
    Rosbot!Block, RosbotP!Block, Rosbot!Allow, RosbotP!Allow, Rosbot!EvidenceFails,
    RosbotP!EvidenceFails, Rosbot!Execute, RosbotP!Execute, Rosbot!RecheckRefuses,
    RosbotP!RecheckRefuses, Rosbot!Dispatch, RosbotP!Dispatch, Rosbot!Confirm,
    RosbotP!Confirm, Rosbot!Record, RosbotP!Record, Rosbot!OutcomeLost,
    RosbotP!OutcomeLost, Rosbot!ChannelEnds, RosbotP!ChannelEnds, Rosbot!ChannelFails,
    RosbotP!ChannelFails, Rosbot!Receive, RosbotP!Receive, Rosbot!Settled,
    RosbotP!Settled, Rosbot!Observe, RosbotP!Observe, Rosbot!Serve, RosbotP!Serve,
    Rosbot!Die, RosbotP!Die, Rosbot!MuxChanges, RosbotP!MuxChanges, Rosbot!At,
    RosbotP!At, Rosbot!Goes, RosbotP!Goes, Rosbot!Answers, RosbotP!Answers,
    Rosbot!Rejected, RosbotP!Rejected, Rosbot!Send, RosbotP!Send, Rosbot!Duplicate,
    RosbotP!Duplicate, Rosbot!Fail, RosbotP!Fail, Rosbot!SignalPossible,
    RosbotP!SignalPossible, Rosbot!gateway, RosbotP!gateway, Rosbot!transport,
    RosbotP!transport, Rosbot!process, RosbotP!process, Rosbot!Cardinality,
    RosbotP!Cardinality

RosbotInv == part = "rosbot" => RosbotP!IInv

LEMMA RosbotBounds == RosbotP!Bounds
  BY HostAssumption DEF Rosbot!Bounds, RosbotP!Bounds, Rosbot!Answer, RosbotP!Answer,
                        Rosbot!IsFiniteSet, RosbotP!IsFiniteSet

LEMMA RosbotInvInit == Init => RosbotInv
  BY RosbotInit, RosbotBounds, RosbotP!InductiveStart DEF Init, RosbotInv

LEMMA RosbotInvStep == RosbotInv /\ [Next]_vars => RosbotInv'
<1> SUFFICES ASSUME RosbotInv, [Next]_vars, part' = "rosbot" PROVE RosbotP!IInv'
  BY DEF RosbotInv
<1>1. part = "rosbot"
  BY DEF Next, vars
<1>2. RosbotP!IInv
  BY <1>1 DEF RosbotInv
<1>3. [RosbotP!Next]_RosbotP!vars
  <2>1. CASE Rosbot!Next
    BY <2>1, RosbotNext
  <2>2. CASE UNCHANGED vars
    BY <2>2 DEF vars, RosbotP!vars, RosbotP!gateway, RosbotP!transport, RosbotP!process
  <2> QED
    BY <1>1, <2>1, <2>2 DEF Next
<1> QED
  BY <1>2, <1>3, RosbotBounds, RosbotP!InductiveStep, RosbotP!InductiveRest

\* What the invariant of the component says of the part.
LEMMA RosbotSuffices == RosbotInv /\ part = "rosbot" => Rosbot!SignalsAccounted
<1> SUFFICES ASSUME RosbotP!IInv PROVE Rosbot!SignalsAccounted
  BY DEF RosbotInv
<1>1. RosbotP!SignalsAccounted
  BY RosbotBounds, RosbotP!Accounted
<1> QED
  BY <1>1 DEF RosbotP!SignalsAccounted, Rosbot!SignalsAccounted, RosbotP!MayPublish,
              Rosbot!MayPublish, Rosbot!Cardinality, RosbotP!Cardinality

\* The same gateway, with room for one pending request.
LEMMA CrowdedInit == Crowded!Init => CrowdedP!Init
  BY DEF Crowded!Init, CrowdedP!Init

LEMMA CrowdedNext == Crowded!Next => CrowdedP!Next
  BY DEF
    Crowded!Next, CrowdedP!Next, Crowded!Prepare, CrowdedP!Prepare, Crowded!Run,
    CrowdedP!Run, Crowded!Begin, CrowdedP!Begin, Crowded!ReadFails, CrowdedP!ReadFails,
    Crowded!AskPath, CrowdedP!AskPath, Crowded!PathUnavailable, CrowdedP!PathUnavailable,
    Crowded!Block, CrowdedP!Block, Crowded!Allow, CrowdedP!Allow, Crowded!EvidenceFails,
    CrowdedP!EvidenceFails, Crowded!Execute, CrowdedP!Execute, Crowded!RecheckRefuses,
    CrowdedP!RecheckRefuses, Crowded!Dispatch, CrowdedP!Dispatch, Crowded!Confirm,
    CrowdedP!Confirm, Crowded!Record, CrowdedP!Record, Crowded!OutcomeLost,
    CrowdedP!OutcomeLost, Crowded!ChannelEnds, CrowdedP!ChannelEnds, Crowded!ChannelFails,
    CrowdedP!ChannelFails, Crowded!Receive, CrowdedP!Receive, Crowded!Settled,
    CrowdedP!Settled, Crowded!Observe, CrowdedP!Observe, Crowded!Serve, CrowdedP!Serve,
    Crowded!Die, CrowdedP!Die, Crowded!MuxChanges, CrowdedP!MuxChanges, Crowded!At,
    CrowdedP!At, Crowded!Goes, CrowdedP!Goes, Crowded!Answers, CrowdedP!Answers,
    Crowded!Rejected, CrowdedP!Rejected, Crowded!Send, CrowdedP!Send, Crowded!Duplicate,
    CrowdedP!Duplicate, Crowded!Fail, CrowdedP!Fail, Crowded!SignalPossible,
    CrowdedP!SignalPossible, Crowded!gateway, CrowdedP!gateway, Crowded!transport,
    CrowdedP!transport, Crowded!process, CrowdedP!process, Crowded!Cardinality,
    CrowdedP!Cardinality

CrowdedInv == part = "crowded" => CrowdedP!IInv

LEMMA CrowdedBounds == CrowdedP!Bounds
  BY HostAssumption DEF Crowded!Bounds, CrowdedP!Bounds, Crowded!Answer, CrowdedP!Answer,
                        Crowded!IsFiniteSet, CrowdedP!IsFiniteSet

LEMMA CrowdedInvInit == Init => CrowdedInv
  BY CrowdedInit, CrowdedBounds, CrowdedP!InductiveStart DEF Init, CrowdedInv

LEMMA CrowdedInvStep == CrowdedInv /\ [Next]_vars => CrowdedInv'
<1> SUFFICES ASSUME CrowdedInv, [Next]_vars, part' = "crowded" PROVE CrowdedP!IInv'
  BY DEF CrowdedInv
<1>1. part = "crowded"
  BY DEF Next, vars
<1>2. CrowdedP!IInv
  BY <1>1 DEF CrowdedInv
<1>3. [CrowdedP!Next]_CrowdedP!vars
  <2>1. CASE Crowded!Next
    BY <2>1, CrowdedNext
  <2>2. CASE UNCHANGED vars
    BY <2>2 DEF vars, CrowdedP!vars, CrowdedP!gateway, CrowdedP!transport, CrowdedP!process
  <2> QED
    BY <1>1, <2>1, <2>2 DEF Next
<1> QED
  BY <1>2, <1>3, CrowdedBounds, CrowdedP!InductiveStep, CrowdedP!InductiveRest

LEMMA CrowdedSuffices == CrowdedInv /\ part = "crowded" => Crowded!SignalsAccounted
<1> SUFFICES ASSUME CrowdedP!IInv PROVE Crowded!SignalsAccounted
  BY DEF CrowdedInv
<1>1. CrowdedP!SignalsAccounted
  BY CrowdedBounds, CrowdedP!Accounted
<1> QED
  BY <1>1 DEF CrowdedP!SignalsAccounted, Crowded!SignalsAccounted, CrowdedP!MayPublish,
              Crowded!MayPublish, Crowded!Cardinality, CrowdedP!Cardinality

\* handleProposal and execute of the gateway: what an answer says of the signal is
\* true and stays true, whatever is lost, late or refused between it and its child.
THEOREM SignalsInHost == Spec => []SignalsAccounted
<1>1. RosbotInv /\ CrowdedInv => SignalsAccounted
  BY RosbotSuffices, CrowdedSuffices DEF SignalsAccounted
<1> QED
  BY <1>1, RosbotInvInit, RosbotInvStep, CrowdedInvInit, CrowdedInvStep, PTL DEF Spec

-----------------------------------------------------------------------------
(* The set-up. *)

\* The component and the module of its proofs have the same initial states and steps.
LEMMA SetupSameInit == Setup!Init => Parts!Setup!Init
  BY DEF
    Setup!Init, Parts!Setup!Init, Setup!Name, Parts!Setup!Name

LEMMA SetupNext == Setup!Next => Parts!Setup!Next
  BY DEF
    Setup!files, Parts!Setup!files, Setup!local, Parts!Setup!local, Setup!cloud,
    Parts!Setup!cloud, Setup!Name, Parts!Setup!Name, Setup!Release,
    Parts!Setup!Release, Setup!Draft, Parts!Setup!Draft, Setup!Edited,
    Parts!Setup!Edited, Setup!Known, Parts!Setup!Known, Setup!NextCloud,
    Parts!Setup!NextCloud, Setup!Nameable, Parts!Setup!Nameable, Setup!At,
    Parts!Setup!At, Setup!Goes, Parts!Setup!Goes, Setup!NextToStart,
    Parts!Setup!NextToStart, Setup!Bind, Parts!Setup!Bind, Setup!Copy,
    Parts!Setup!Copy, Setup!CopyCutOff, Parts!Setup!CopyCutOff, Setup!WritesRelease,
    Parts!Setup!WritesRelease, Setup!Save, Parts!Setup!Save, Setup!Pair,
    Parts!Setup!Pair, Setup!ApprovePairing, Parts!Setup!ApprovePairing, Setup!Poll,
    Parts!Setup!Poll, Setup!PairElsewhere, Parts!Setup!PairElsewhere, Setup!ReadKey,
    Parts!Setup!ReadKey, Setup!CreateDraft, Parts!Setup!CreateDraft, Setup!Decide,
    Parts!Setup!Decide, Setup!Approved, Parts!Setup!Approved, Setup!Checked,
    Parts!Setup!Checked, Setup!CheckedBefore, Parts!Setup!CheckedBefore,
    Setup!CheckAgain, Parts!Setup!CheckAgain, Setup!Reserve, Parts!Setup!Reserve,
    Setup!Shadow, Parts!Setup!Shadow, Setup!Complete, Parts!Setup!Complete, Setup!Stop,
    Parts!Setup!Stop, Setup!EditSource, Parts!Setup!EditSource, Setup!EditCopy,
    Parts!Setup!EditCopy, Setup!Step, Parts!Setup!Step, Setup!Next, Parts!Setup!Next

SetupInv == part = "setup" => Parts!SetupIInv

LEMMA SetupDistinct == Parts!Setup!Distinct
  BY HostAssumption DEF
    Setup!Distinct, Parts!Setup!Distinct, Setup!Release, Parts!Setup!Release,
    Setup!Draft, Parts!Setup!Draft

LEMMA SetupInvInit == Init => SetupInv
  BY SetupSameInit, SetupDistinct, Parts!SetupInitial DEF Init, SetupInv

LEMMA SetupInvStep == SetupInv /\ [Next]_vars => SetupInv'
<1> SUFFICES ASSUME SetupInv, [Next]_vars, part' = "setup" PROVE Parts!SetupIInv'
  BY DEF SetupInv
<1>1. part = "setup"
  BY DEF Next, vars
<1>2. Parts!SetupIInv
  BY <1>1 DEF SetupInv
<1>3. [Parts!Setup!Next]_Parts!Setup!vars
  <2>1. CASE Setup!Next
    BY <2>1, SetupNext
  <2>2. CASE UNCHANGED vars
    BY <2>2 DEF vars, Parts!Setup!vars, Parts!Setup!local, Parts!Setup!cloud,
                Parts!Setup!files
  <2> QED
    BY <1>1, <2>1, <2>2 DEF Next
<1> QED
  BY <1>2, <1>3, SetupDistinct, Parts!SetupInductive

\* setup.ts: what a completed set-up says of its release, its artifact and its
\* Evidence is so.
THEOREM CompletedInHost == Spec => []CompletedIsTrue
<1>1. SetupInv => CompletedIsTrue
  <2> SUFFICES ASSUME SetupInv, part = "setup" PROVE Setup!CompletedIsTrue
    BY DEF CompletedIsTrue
  <2>1. Parts!Setup!CompletedIsTrue
    BY SetupDistinct, Parts!SetupSuffices DEF SetupInv
  <2> QED
    BY <2>1 DEF Setup!CompletedIsTrue, Parts!Setup!CompletedIsTrue
<1> QED
  BY <1>1, SetupInvInit, SetupInvStep, PTL DEF Spec

-----------------------------------------------------------------------------
(* The validation cases. *)

\* The component and the module of its proofs have the same initial states and steps.
LEMMA CasesSameInit == Cases!Init => Parts!Cases!Init
  BY DEF
    Cases!Init, Parts!Cases!Init

LEMMA CasesNext == Cases!Next => Parts!Cases!Next
  BY DEF
    Cases!Next, Parts!Cases!Next, Cases!RunSetup, Parts!Cases!RunSetup, Cases!RunCase,
    Parts!Cases!RunCase, Cases!RunFresh, Parts!Cases!RunFresh, Cases!RunAgain,
    Parts!Cases!RunAgain, Cases!Revoke, Parts!Cases!Revoke, Cases!NewSession,
    Parts!Cases!NewSession, Cases!Store, Parts!Cases!Store, Cases!Current,
    Parts!Cases!Current, Cases!Presented, Parts!Cases!Presented, Cases!Outcome,
    Parts!Cases!Outcome, Cases!Observed, Parts!Cases!Observed, Cases!ExitCode,
    Parts!Cases!ExitCode, Cases!Allowed, Parts!Cases!Allowed, Cases!ReasonOf,
    Parts!Cases!ReasonOf, Cases!CaseId, Parts!Cases!CaseId

CasesInv == part = "cases" => Parts!CaseIInv

\* The assumption is that of its proofs.
LEMMA CasesAssumed == Parts!Cases!Bounds
  BY HostAssumption DEF
    Cases!Bounds, Parts!Cases!Bounds

\* Its part of the behaviours of MCHost satisfies its invariant.
LEMMA CasesInvInit == Init => CasesInv
  BY CasesSameInit, CasesAssumed, Parts!CaseInitial DEF Init, CasesInv

LEMMA CasesInvStep == CasesInv /\ [Next]_vars => CasesInv'
<1> SUFFICES ASSUME CasesInv, [Next]_vars, part' = "cases" PROVE Parts!CaseIInv'
  BY DEF CasesInv
<1>1. part = "cases"
  BY DEF Next, vars
<1>2. Parts!CaseIInv
  BY <1>1 DEF CasesInv
<1>3. [Parts!Cases!Next]_Parts!Cases!vars
  <2>1. CASE Cases!Next
    BY <2>1, CasesNext
  <2>2. CASE UNCHANGED vars
    BY <2>2 DEF vars, Parts!Cases!vars
  <2> QED
    BY <1>1, <2>1, <2>2 DEF Next
<1> QED
  BY <1>2, <1>3, CasesAssumed, Parts!CaseInductive

\* finalize: the runs that a collection accepts as the five cases of its session came
\* about as the cases say.
THEOREM CollectedInHost == Spec => []CollectedIsTrue
<1>1. CasesInv => CollectedIsTrue
  <2> SUFFICES ASSUME CasesInv, part = "cases" PROVE Cases!CollectedIsTrue
    BY DEF CollectedIsTrue
  <2>1. Parts!Cases!CollectedIsTrue
    BY Parts!CaseSuffices DEF CasesInv
  <2> QED
    BY <2>1 DEF
      Cases!CollectedIsTrue, Parts!Cases!CollectedIsTrue, Cases!Candidates,
      Parts!Cases!Candidates, Cases!CrossBound, Parts!Cases!CrossBound, Cases!E,
      Parts!Cases!E, Cases!CaseHolds, Parts!Cases!CaseHolds, Cases!RunBound,
      Parts!Cases!RunBound, Cases!EvidenceDecisionOnly,
      Parts!Cases!EvidenceDecisionOnly, Cases!EvidenceBound,
      Parts!Cases!EvidenceBound, Cases!ApprovalBound, Parts!Cases!ApprovalBound,
      Cases!SetupBound, Parts!Cases!SetupBound, Cases!EvidenceOrdered,
      Parts!Cases!EvidenceOrdered, Cases!LifecycleBound, Parts!Cases!LifecycleBound,
      Cases!Piece, Parts!Cases!Piece, Cases!Within, Parts!Cases!Within,
      Cases!ReasonOf, Parts!Cases!ReasonOf, Cases!Allowed, Parts!Cases!Allowed,
      Cases!ExitCode, Parts!Cases!ExitCode, Cases!Current, Parts!Cases!Current,
      Cases!CaseId, Parts!Cases!CaseId
<1> QED
  BY <1>1, CasesInvInit, CasesInvStep, PTL DEF Spec

-----------------------------------------------------------------------------
(* The Evidence file. *)

\* The component and the module of its proofs have the same initial states and steps.
LEMMA FileSameInit == File!Init => Parts!File!Init
  BY DEF
    File!Init, Parts!File!Init, File!Entry, Parts!File!Entry

LEMMA FileNext == File!Next => Parts!File!Next
  BY DEF
    File!Next, Parts!File!Next, File!ReserveOutput, Parts!File!ReserveOutput,
    File!AssertWritable, Parts!File!AssertWritable, File!Ask, Parts!File!Ask,
    File!WriteTemporary, Parts!File!WriteTemporary, File!SyncTemporary,
    Parts!File!SyncTemporary, File!Rename, Parts!File!Rename, File!Synchronise,
    Parts!File!Synchronise, File!Fails, Parts!File!Fails, File!Forget,
    Parts!File!Forget, File!Kill, Parts!File!Kill, File!PowerLoss,
    Parts!File!PowerLoss, File!Restart, Parts!File!Restart, File!disk,
    Parts!File!disk, File!Bytes, Parts!File!Bytes, File!AppendEvidence,
    Parts!File!AppendEvidence, File!Verifies, Parts!File!Verifies, File!Last,
    Parts!File!Last

FileInv == part = "file" => Parts!FileIInv

\* The assumption is that of its proofs.
LEMMA FileAssumed == Parts!File!Distinct
  BY HostAssumption DEF
    File!Distinct, Parts!File!Distinct, File!Entry, Parts!File!Entry

\* Its part of the behaviours of MCHost satisfies its invariant.
LEMMA FileInvInit == Init => FileInv
  BY FileSameInit, FileAssumed, Parts!FileInitial DEF Init, FileInv

LEMMA FileInvStep == FileInv /\ [Next]_vars => FileInv'
<1> SUFFICES ASSUME FileInv, [Next]_vars, part' = "file" PROVE Parts!FileIInv'
  BY DEF FileInv
<1>1. part = "file"
  BY DEF Next, vars
<1>2. Parts!FileIInv
  BY <1>1 DEF FileInv
<1>3. [Parts!File!Next]_Parts!File!vars
  <2>1. CASE File!Next
    BY <2>1, FileNext
  <2>2. CASE UNCHANGED vars
    BY <2>2 DEF vars, Parts!File!vars, Parts!File!disk
  <2> QED
    BY <1>1, <2>1, <2>2 DEF Next
<1> QED
  BY <1>2, <1>3, FileAssumed, Parts!FileInductive

\* writeProtected and the sinks of ros2.ts: what was reported as written is in the
\* file, wherever the process failed, was killed or lost power.
THEOREM KeptInHost == Spec => []EvidenceKept
<1>1. FileInv => EvidenceKept
  <2> SUFFICES ASSUME FileInv, part = "file" PROVE File!EvidenceKept
    BY DEF EvidenceKept
  <2>1. Parts!File!EvidenceKept
    BY DEF FileInv, Parts!FileIInv
  <2> QED
    BY <2>1 DEF
      File!EvidenceKept, Parts!File!EvidenceKept, File!Verifies, Parts!File!Verifies,
      File!IsPrefix, Parts!File!IsPrefix, File!Last, Parts!File!Last
<1> QED
  BY <1>1, FileInvInit, FileInvStep, PTL DEF Spec

-----------------------------------------------------------------------------
(* The Evidence export. *)

\* The component and the module of its proofs have the same initial states and steps.
LEMMA ExportSameInit == Export!Init => Parts!Export!Init
  BY DEF
    Export!Init, Parts!Export!Init

LEMMA ExportNext == Export!Next => Parts!Export!Next
<1>1. \A c : Export!AfterCursor(c) = Parts!Export!AfterCursor(c)
  BY DEF Export!AfterCursor, Parts!Export!AfterCursor
<1>2. Export!Page = Parts!Export!Page
  BY <1>1 DEF Export!Page, Parts!Export!Page
<1>3. Export!Fetch => Parts!Export!Fetch
  BY <1>2 DEF Export!Fetch, Parts!Export!Fetch, Export!Stop, Parts!Export!Stop,
              Export!client, Parts!Export!client
<1>4. Export!Grow => Parts!Export!Grow
  BY DEF Export!Grow, Parts!Export!Grow, Export!HashBefore, Parts!Export!HashBefore,
         Export!Last, Parts!Export!Last, Export!client, Parts!Export!client
<1>5. Export!Restore => Parts!Export!Restore
  BY DEF Export!Restore, Parts!Export!Restore, Export!Front, Parts!Export!Front,
         Export!client, Parts!Export!client
<1>6. Export!Verify => Parts!Export!Verify
  <2>1. Export!ChainVerifies = Parts!Export!ChainVerifies
    BY DEF Export!ChainVerifies, Parts!Export!ChainVerifies, Export!Last,
           Parts!Export!Last
  <2> QED
    BY <2>1 DEF Export!Verify, Parts!Export!Verify, Export!client, Parts!Export!client
<1>7. Export!GiveUp => Parts!Export!GiveUp
  BY DEF Export!GiveUp, Parts!Export!GiveUp, Export!Stop, Parts!Export!Stop,
         Export!client, Parts!Export!client
<1> QED
  BY <1>3, <1>4, <1>5, <1>6, <1>7 DEF Export!Next, Parts!Export!Next

ExportInv == part = "export" => Parts!ExportIInv

\* The assumption is that of its proofs.
LEMMA ExportAssumed == Parts!Export!Distinct
  BY HostAssumption DEF
    Export!Distinct, Parts!Export!Distinct

\* Its part of the behaviours of MCHost satisfies its invariant.
LEMMA ExportInvInit == Init => ExportInv
  BY ExportSameInit, ExportAssumed, Parts!ExportInitial DEF Init, ExportInv

LEMMA ExportInvStep == ExportInv /\ [Next]_vars => ExportInv'
<1> SUFFICES ASSUME ExportInv, [Next]_vars, part' = "export" PROVE Parts!ExportIInv'
  BY DEF ExportInv
<1>1. part = "export"
  BY DEF Next, vars
<1>2. Parts!ExportIInv
  BY <1>1 DEF ExportInv
<1>3. [Parts!Export!Next]_Parts!Export!vars
  <2>1. CASE Export!Next
    BY <2>1, ExportNext
  <2>2. CASE UNCHANGED vars
    BY <2>2 DEF vars, Parts!Export!vars, Parts!Export!client
  <2> QED
    BY <1>1, <2>1, <2>2 DEF Next
<1> QED
  BY <1>2, <1>3, ExportAssumed, Parts!ExportInductive

\* fetchEvidence and its verification: an export that verifies is the chain of one
\* moment, and its filter marks all of the records it selects.
THEOREM WholeInHost == Spec => []ExportIsWhole
<1>1. ExportInv => ExportIsWhole
  <2> SUFFICES ASSUME ExportInv, part = "export" PROVE Export!ExportIsWhole
    BY DEF ExportIsWhole
  <2>1. Parts!Export!ExportIsWhole
    BY DEF ExportInv, Parts!ExportIInv
  <2> QED
    BY <2>1 DEF
      Export!ExportIsWhole, Parts!Export!ExportIsWhole
<1> QED
  BY <1>1, ExportInvInit, ExportInvStep, PTL DEF Spec

-----------------------------------------------------------------------------
(* The types of all parts. *)

\* A part keeps its types: its invariant says so.
LEMMA EdgeTypes == EdgeInv /\ part = "edge" => Edge!TypeOK
  BY DEF EdgeInv, Parts!EdgeIInv,
    Edge!TypeOK, Parts!Edge!TypeOK, Edge!Snapshot, Parts!Edge!Snapshot, Edge!Handed,
    Parts!Edge!Handed

LEMMA ScriptTypes == ScriptInv /\ part = "installer" => Script!TypeOK
  BY DEF ScriptInv, Parts!ScriptIInv,
    Script!TypeOK, Parts!Script!TypeOK, Script!Tree, Parts!Script!Tree, Script!Entry,
    Parts!Script!Entry, Script!Registration, Parts!Script!Registration,
    Script!Registrations, Parts!Script!Registrations, Script!Phases,
    Parts!Script!Phases, Script!Commands, Parts!Script!Commands, Script!Links,
    Parts!Script!Links, Script!Absent, Parts!Script!Absent, Script!Damaged,
    Parts!Script!Damaged, Script!Cardinality, Parts!Script!Cardinality,
    Script!IsFiniteSet, Parts!Script!IsFiniteSet

LEMMA SessTypes == SessInv /\ part = "session" => Sess!TypeOK
  BY DEF SessInv, SessP!IInv,
    Sess!TypeOK, SessP!TypeOK, Sess!Running, SessP!Running, Sess!Working,
    SessP!Working, Sess!Command, SessP!Command, Sess!File, SessP!File,
    Sess!Temporary, SessP!Temporary, Sess!Cases, SessP!Cases

LEMMA LockTypes == LockInv /\ part = "lock" => Lock!TypeOK
  BY DEF LockInv, LockP!IInv,
    Lock!TypeOK, LockP!TypeOK, Lock!Running, LockP!Running, Lock!Working,
    LockP!Working, Lock!Command, LockP!Command, Lock!File, LockP!File,
    Lock!Temporary, LockP!Temporary, Lock!Cases, LockP!Cases

LEMMA RosbotTypes == RosbotInv /\ part = "rosbot" => Rosbot!TypeOK
  BY DEF RosbotInv, RosbotP!IInv,
    Rosbot!TypeOK, RosbotP!TypeOK, Rosbot!Answer, RosbotP!Answer,
    Rosbot!Request, RosbotP!Request, Rosbot!Op, RosbotP!Op,
    Rosbot!Cardinality, RosbotP!Cardinality

LEMMA CrowdedTypes == CrowdedInv /\ part = "crowded" => Crowded!TypeOK
  BY DEF CrowdedInv, CrowdedP!IInv,
    Crowded!TypeOK, CrowdedP!TypeOK, Crowded!Answer, CrowdedP!Answer,
    Crowded!Request, CrowdedP!Request, Crowded!Op, CrowdedP!Op,
    Crowded!Cardinality, CrowdedP!Cardinality

LEMMA SetupTyped == SetupInv /\ part = "setup" => Setup!TypeOK
  BY DEF SetupInv, Parts!SetupIInv,
    Setup!TypeOK, Parts!Setup!TypeOK, Setup!Name, Parts!Setup!Name, Setup!Release,
    Parts!Setup!Release, Setup!Draft, Parts!Setup!Draft

LEMMA CasesTypes == CasesInv /\ part = "cases" => Cases!TypeOK
  BY Parts!CaseSuffices DEF CasesInv,
    Cases!TypeOK, Parts!Cases!TypeOK

LEMMA FileTypes == FileInv /\ part = "file" => File!TypeOK
  BY DEF FileInv, Parts!FileIInv, Parts!FileTyped,
    File!TypeOK, Parts!File!TypeOK

LEMMA ExportTypes == ExportInv /\ part = "export" => Export!TypeOK
  BY DEF ExportInv, Parts!ExportIInv, Parts!ExportTyped,
    Export!TypeOK, Parts!Export!TypeOK

\* The variables of every part keep their types.
THEOREM TypesInHost == Spec => []TypeOK
<1>1. /\ EdgeInv /\ ScriptInv /\ SessInv /\ LockInv /\ RosbotInv /\ CrowdedInv
      /\ SetupInv /\ CasesInv /\ FileInv /\ ExportInv
      => TypeOK
  BY EdgeTypes, ScriptTypes, SessTypes, LockTypes, RosbotTypes, CrowdedTypes, SetupTyped, CasesTypes,
     FileTypes, ExportTypes DEF TypeOK
<1> QED
  BY <1>1, EdgeInit, EdgeStep, ScriptInvInit, ScriptInvStep, SessInvInit, SessInvStep,
     LockInvInit, LockInvStep, RosbotInvInit, RosbotInvStep, CrowdedInvInit, CrowdedInvStep, SetupInvInit,
     SetupInvStep,
     CasesInvInit, CasesInvStep, FileInvInit, FileInvStep, ExportInvInit, ExportInvStep,
     PTL DEF Spec
==============================================================================
