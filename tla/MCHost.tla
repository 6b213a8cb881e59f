------------------------------- MODULE MCHost -------------------------------
(***************************************************************************)
(* The parts of the host that share no state while they run, checked by    *)
(* one run of TLC: a behaviour is one of a part, named by the variable     *)
(* `part`, and the variables of that part are the first of v1, v2, ...;    *)
(* the others hold None throughout.  A property of a part speaks of the    *)
(* behaviours of that part only.                                           *)
(***************************************************************************)
EXTENDS Integers, Sequences, FiniteSets

CONSTANTS
  None, Torn,
  MaxFailures, MaxScripts,
  Process, OneMoreProcess, Case,
  Skew, MaxRuns, MaxExtra,
  MaxBytes, RecordReserve, MaxAppends, MaxTime,
  PageSize, MaxPages, MaxRecords, AnyRelease, MaxStored,
  Action, Bound, Call, MaxClock, MaxEpoch, MaximumLifetime,
  Proposal, Id, Capacity,
  SetupRun, Content, Cloud, Named, MaxEdits

VARIABLES part, v1, v2, v3, v4, v5, v6, v7, v8, v9, v10, v11, v12, v13, v14,
  v15, v16, v17

Script == INSTANCE Installer WITH
    version <- v1, staged <- v2, rollback <- v3, registered <- v4,
    site <- v5, backup <- v6, saved <- v7, phase <- v8, at <- v9,
    undoing <- v10, hadPrevious <- v11, siteExisted <- v12, said <- v13,
    run <- v14, failed <- v15, before <- v16, MaxRuns <- MaxScripts

Commands == {"init", "record", "finalize", "verify", "recover"}

Sess == INSTANCE ValidationSession WITH
    pc <- v1, cmd <- v2, arg <- v3, lock <- v4, wrote <- v5, looked <- v6,
    moved <- v7, todo <- v8, draft <- v9, names <- v10, manifest <- v11,
    sums <- v12, unsigned <- v13, Started <- Commands

\* One command more, all of them recoveries: the race for the lock.
Lock == INSTANCE ValidationSession WITH
    pc <- v1, cmd <- v2, arg <- v3, lock <- v4, wrote <- v5, looked <- v6,
    moved <- v7, todo <- v8, draft <- v9, names <- v10, manifest <- v11,
    sums <- v12, unsigned <- v13, Started <- {"recover"}, Process <- Process \cup {OneMoreProcess},
    Case <- {}

Cases == INSTANCE ValidationCases WITH
    now <- v1, session <- v2, approved <- v3, revoked <- v4, runs <- v5,
    chain <- v6, extra <- v7

File == INSTANCE EvidenceFile WITH
    kind <- v1, step <- v2, entries <- v3, pending <- v4, room <- v5,
    temporary <- v6, file <- v7, before <- v8, said <- v9, refused <- v10,
    asked <- v11, Reserve <- RecordReserve

Export == INSTANCE EvidenceExport WITH
    chain <- v1, seen <- v2, stored <- v3, releaseFilter <- v4, cursor <- v5,
    pages <- v6, records <- v7, first <- v8, last <- v9, outcome <- v10,
    MaxAppends <- MaxStored, Release <- AnyRelease

Edge == INSTANCE EdgeBoundary WITH
    now <- v1, minimum <- v2, object <- v3, consumed <- v4, prepared <- v5,
    evidence <- v6, call <- v7, moved <- v8, handed <- v9,
    MaxTime <- MaxClock

Rosbot == INSTANCE HusarionGateway WITH
    mode <- v1, id <- v2, stage <- v3, attemptsBefore <- v4, answer <- v5,
    seen <- v6, attempts <- v7, confirmed <- v8, channel <- v9,
    pending <- v10, odometry <- v11, child <- v12, inbox <- v13,
    outbox <- v14, mux <- v15, published <- v16, Call <- Proposal

\* A second request finds the map of pending requests full.
Crowded == INSTANCE HusarionGateway WITH
    mode <- v1, id <- v2, stage <- v3, attemptsBefore <- v4, answer <- v5,
    seen <- v6, attempts <- v7, confirmed <- v8, channel <- v9,
    pending <- v10, odometry <- v11, child <- v12, inbox <- v13,
    outbox <- v14, mux <- v15, published <- v16, Call <- Proposal,
    Capacity <- 1

Setup == INSTANCE SetupCommand WITH
    stage <- v1, source <- v2, digest <- v3, name <- v4, target <- v5,
    key <- v6, pairing <- v7, granted <- v8, credential <- v9, copy <- v10,
    releaseFile <- v11, evidence <- v12, draft <- v13, held <- v14,
    ran <- v15, state <- v16, edits <- v17, Run <- SetupRun

\* What the theorems of MCHostProofs assume of the constants.
ASSUME HostAssumption ==
  /\ Edge!Bounds /\ Script!Bounds /\ Rosbot!Bounds /\ Crowded!Bounds
  /\ Cases!Bounds
  /\ Sess!Distinct /\ Lock!Distinct /\ Setup!Distinct
  /\ File!Distinct /\ Export!Distinct

from17 == <<v17>>
from14 == <<v14, v15, v16, from17>>
from12 == <<v12, v13, from14>>
from11 == <<v11, from12>>
from10 == <<v10, from11>>
from8 == <<v8, v9, from10>>

Unused17 == v17 = None
Unused14 == v14 = None /\ v15 = None /\ v16 = None /\ Unused17
Unused12 == v12 = None /\ v13 = None /\ Unused14
Unused11 == v11 = None /\ Unused12
Unused10 == v10 = None /\ Unused11
Unused8 == v8 = None /\ v9 = None /\ Unused10

Init ==
  \/ part = "installer" /\ Script!Init /\ Unused17
  \/ part = "session" /\ Sess!Init /\ Unused14
  \/ part = "lock" /\ Lock!Init /\ Unused14
  \/ part = "cases" /\ Cases!Init /\ Unused8
  \/ part = "file" /\ File!Init /\ Unused12
  \/ part = "export" /\ Export!Init /\ Unused11
  \/ part = "edge" /\ Edge!Init /\ Unused10
  \/ part = "rosbot" /\ Rosbot!Init /\ Unused17
  \/ part = "crowded" /\ Crowded!Init /\ Unused17
  \/ part = "setup" /\ Setup!Init

Next ==
  /\ UNCHANGED part
  /\
     \/ part = "installer" /\ Script!Next /\ UNCHANGED from17
     \/ part = "session" /\ Sess!Next /\ UNCHANGED from14
     \/ part = "lock" /\ Lock!Next /\ UNCHANGED from14
     \/ part = "cases" /\ Cases!Next /\ UNCHANGED from8
     \/ part = "file" /\ File!Next /\ UNCHANGED from12
     \/ part = "export" /\ Export!Next /\ UNCHANGED from11
     \/ part = "edge" /\ Edge!Next /\ UNCHANGED from10
     \/ part = "rosbot" /\ Rosbot!Next /\ UNCHANGED from17
     \/ part = "crowded" /\ Crowded!Next /\ UNCHANGED from17
     \/ part = "setup" /\ Setup!Next

vars == <<part, v1, v2, v3, v4, v5, v6, v7, v8, v9, v10, v11, v12, v13, v14,
          v15, v16, v17>>

Spec == Init /\ [][Next]_vars

\* Every part's variables stay in their types.
TypeOK ==
  /\ part = "installer" => Script!TypeOK
  /\ part = "session" => Sess!TypeOK
  /\ part = "lock" => Lock!TypeOK
  /\ part = "cases" => Cases!TypeOK
  /\ part = "file" => File!TypeOK
  /\ part = "export" => Export!TypeOK
  /\ part = "edge" => Edge!TypeOK
  /\ part = "rosbot" => Rosbot!TypeOK
  /\ part = "crowded" => Crowded!TypeOK
  /\ part = "setup" => Setup!TypeOK

\* The installer (install.sh): the previous runtime is in its place or in the
\* recovery paths, or the new one is installed, wherever the script stops.
PreviousRecoverable == part = "installer" => Script!PreviousRecoverable

\* The installer: what it prints at its end is so.
MessageTrue == part = "installer" => Script!MessageTrue

\* The validation session (validate-external-ros2.ts): two commands own its lock
\* at once only after a recovery that took away another lock than it had judged.
OneOwner ==
  /\ part = "session" => Sess!OneOwner
  /\ part = "lock" => Lock!OneOwner

\* The validation session: what killed or failing commands leave can be recovered,
\* and the lock they leave is taken away, unless it was never written.
Recoverable ==
  /\ part = "session" => Sess!Recoverable
  /\ part = "lock" => Lock!Recoverable

\* The validation cases: an accepted collection tells one story of its session.
CollectedIsTrue == part = "cases" => Cases!CollectedIsTrue

\* The Evidence file (ros2.ts): what was reported as written is kept, and a record
\* is not refused for want of room that was just found.
EvidenceKept == part = "file" => File!EvidenceKept

\* The Evidence export (client.ts): one that verifies is the chain of one moment.
ExportIsWhole == part = "export" => Export!ExportIsWhole

\* The edge boundary (snapshot.ts): one move at most, of the authorised action,
\* under a snapshot that was valid at the hand-over.
OneAuthorizedMove == part = "edge" => Edge!OneAuthorizedMove

\* The ROSbot gateway: a denied hardware signal was none, a confirmed one was one,
\* also when requests are refused at the capacity.
SignalsAccounted ==
  /\ part = "rosbot" => Rosbot!SignalsAccounted
  /\ part = "crowded" => Crowded!SignalsAccounted

\* The set-up: setup.json stands for an approval and a Shadow of its artifact.
CompletedIsTrue == part = "setup" => Setup!CompletedIsTrue
=============================================================================
