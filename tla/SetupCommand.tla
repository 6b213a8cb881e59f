---------------------------- MODULE SetupCommand ----------------------------
(***************************************************************************)
(* `rlsok setup` (apps/cli/setup.ts) and the pairing it starts             *)
(* (apps/cli/pair.ts, packages/cloud-client/credentials.ts) on one host:   *)
(* several runs of the command, an operator who edits the artifact or      *)
(* pairs the host with another Cloud beside them, and the administrator    *)
(* who approves pairings and releases in Cloud.                            *)
(*                                                                         *)
(* The files a run leaves are shared: the protected copy of an artifact,   *)
(* named by its digest; the release and the Evidence, named by the         *)
(* release; the credential and setup.json, of which there is one.  The     *)
(* credential is replaced by a rename; the others are rewritten in place,  *)
(* so a kill can leave one torn.                                           *)
(*                                                                         *)
(* Abstractions.  An artifact is its content, and a digest is the content  *)
(* it was computed from.  The discovery and the bindings derived from it   *)
(* are the same for every run.  A run that meets an error, a time limit,   *)
(* a revocation or a signal ends where it stands: Stop.                    *)
(***************************************************************************)
EXTENDS Integers, FiniteSets

CONSTANTS
  Run,        \* runs of the command
  Content,    \* contents of the artifact
  Cloud,      \* Cloud endpoints
  Named,      \* a release id given with --release-name; other ids are random
  MaxEdits,   \* bound on the operator's edits
  Torn,       \* a file whose writing was cut off
  None        \* absent

VARIABLES
  stage,       \* [Run -> where the run stands]
  source,      \* the operator's artifact file
  digest,      \* [Run -> artifactSha256]
  name,        \* [Run -> releaseId]
  target,      \* [Run -> the --cloud it was given]
  key,         \* [Run -> the Cloud of activeCredentials]
  pairing,     \* [Run -> the pairing it started, as Cloud knows it]
  granted,     \* the Clouds whose administrator approved a pairing of this host
  credential,  \* cloud-credentials.json: the Cloud it is for
  copy,        \* [Content -> artifacts/<digest>]
  releaseFile, \* [Name -> releases/<release>.yaml]
  evidence,    \* [Name -> evidence/<release>.json: the release it is about, or
               \*  Torn as long as it reports no allowed Shadow]
  draft,       \* [Cloud \X Name -> the release in Cloud]
  held,        \* [Run -> what the copy held when it was checked again]
  ran,         \* [Run -> the release its Shadow has read]
  state,       \* setup.json: the run that wrote it
  edits        \* edits and out-of-band pairings so far

files == <<copy, releaseFile, evidence, state>>
local == <<digest, name, target, key, held, ran>>
cloud == <<pairing, granted, draft>>
vars == <<stage, source, local, cloud, credential, files, edits>>

Name == Run \cup {Named}

\* A release as its content hash tells it: with the model, the status and, once
\* it is approved, whose approval it carries.
Release == [status: {"tested"}, model: Content, by: {None}]
      \cup [status: {"approved"}, model: Content, by: Cloud]
Draft == [state: {"draft", "approved", "revoked"}, model: Content]

\* What the theorems assume of the constants: there is an artifact, an id given
\* with --release-name is no random one, and what is absent or torn is no file.
Distinct ==
  /\ Content # {} /\ MaxEdits \in Nat
  /\ None \notin Run \cup Content \cup Cloud \cup Release \cup Draft
                 \cup {Torn, "pending", "approved"}
  /\ Torn \notin Run \cup Content \cup Release
  /\ Named \notin Run

Init ==
  /\ stage = [r \in Run |-> "idle"]
  /\ source = CHOOSE c \in Content : TRUE
  /\ digest = [r \in Run |-> None] /\ name = [r \in Run |-> None]
  /\ target = [r \in Run |-> None] /\ key = [r \in Run |-> None]
  /\ held = [r \in Run |-> None] /\ ran = [r \in Run |-> None]
  /\ pairing = [r \in Run |-> None]
  /\ granted = {} /\ credential = None
  /\ copy = [c \in Content |-> None]
  /\ releaseFile = [n \in Name |-> None]
  /\ evidence = [n \in Name |-> None]
  /\ draft = [p \in Cloud \X Name |-> None]
  /\ state = None
  /\ edits = 0

\* Of the operator beside the runs.
Edited == edits < MaxEdits /\ edits' = edits + 1

\* Clouds that nobody has named yet are alike: any of them may be the next.
Known == granted \cup {target[r] : r \in Run}
NextCloud == CHOOSE c \in Cloud \ Known : TRUE
Nameable == IF Cloud \subseteq Known THEN Cloud ELSE (Cloud \cap Known) \cup {NextCloud}

At(r, s) == stage[r] = s
Goes(r, s) == stage' = [stage EXCEPT ![r] = s]

(***************************************************************************)
(* [2/6] the artifact and the release                                      *)
(***************************************************************************)

\* Runs that have not started are alike: any of them may be the next.
NextToStart == CHOOSE q \in Run : At(q, "idle")

Bind(r, n, c) ==
  /\ At(r, "idle") /\ r = NextToStart
  /\ n \in {r, Named} /\ c \in Nameable
  /\ digest' = [digest EXCEPT ![r] = source]
  /\ name' = [name EXCEPT ![r] = n]
  /\ target' = [target EXCEPT ![r] = c]
  /\ Goes(r, "bound")
  /\ UNCHANGED <<source, key, held, ran, cloud, credential, files, edits>>

\* The copy is made from what the file holds now, unless there is one of that name.
Copy(r) ==
  /\ At(r, "bound")
  /\ \/ copy[digest[r]] # None /\ UNCHANGED copy
     \/ /\ copy[digest[r]] = None
        /\ copy' = [copy EXCEPT ![digest[r]] = source]
  /\ Goes(r, "copied")
  /\ UNCHANGED <<source, local, cloud, credential, releaseFile, evidence, state, edits>>

CopyCutOff(r) ==
  /\ At(r, "bound") /\ copy[digest[r]] = None
  /\ copy' = [copy EXCEPT ![digest[r]] = Torn]
  /\ Goes(r, "ended")
  /\ UNCHANGED <<source, local, cloud, credential, releaseFile, evidence, state, edits>>

\* writeProtected of the release file, which a kill can cut off.
WritesRelease(r, content, next) ==
  /\ \/ /\ releaseFile' = [releaseFile EXCEPT ![name[r]] = content]
        /\ Goes(r, next)
     \/ /\ releaseFile' = [releaseFile EXCEPT ![name[r]] = Torn]
        /\ Goes(r, "ended")
  /\ UNCHANGED <<copy, evidence, state>>

Save(r) ==
  /\ At(r, "copied")
  /\ copy[digest[r]] = digest[r]
  /\ WritesRelease(r, [status |-> "tested", model |-> digest[r], by |-> None], "saved")
  /\ UNCHANGED <<source, local, cloud, credential, edits>>

(***************************************************************************)
(* [3/6] the credential                                                    *)
(***************************************************************************)

\* A stored credential for the same Cloud is used; otherwise a pairing starts.
Pair(r) ==
  /\ At(r, "saved")
  /\ IF credential = target[r]
     THEN Goes(r, "paired") /\ UNCHANGED pairing
     ELSE /\ pairing' = [pairing EXCEPT ![r] = "pending"]
          /\ Goes(r, "pairing")
  /\ UNCHANGED <<source, local, granted, draft, credential, files, edits>>

\* The administrator approves it, also when nobody polls any more.
ApprovePairing(r) ==
  /\ pairing[r] = "pending"
  /\ pairing' = [pairing EXCEPT ![r] = "approved"]
  /\ granted' = granted \cup {target[r]}
  /\ UNCHANGED <<stage, source, local, draft, credential, files, edits>>

Poll(r) ==
  /\ At(r, "pairing")
  /\ pairing[r] = "approved"
  /\ credential' = target[r]
  /\ Goes(r, "paired")
  /\ UNCHANGED <<source, local, cloud, files, edits>>

\* `rlsok pair --replace` in another terminal, carried through.
PairElsewhere(c) ==
  /\ Edited
  /\ credential # c /\ c \in Nameable
  /\ credential' = c
  /\ granted' = granted \cup {c}
  /\ UNCHANGED <<stage, source, local, pairing, draft, files>>

\* The credential is read again after the pairing, whichever Cloud it is for by now.
ReadKey(r) ==
  /\ At(r, "paired")
  /\ credential # None
  /\ key' = [key EXCEPT ![r] = credential]
  /\ Goes(r, "keyed")
  /\ UNCHANGED <<source, digest, name, target, held, ran, cloud, credential, files, edits>>

(***************************************************************************)
(* [4/6] the draft and its approval                                        *)
(***************************************************************************)

\* Cloud takes one draft per release id; its answer may be lost.
CreateDraft(r) ==
  LET p == <<key[r], name[r]>> IN
  /\ At(r, "keyed")
  /\ draft[p] = None
  /\ draft' = [draft EXCEPT ![p] = [state |-> "draft", model |-> digest[r]]]
  /\ Goes(r, "waiting") \/ Goes(r, "ended")
  /\ UNCHANGED <<source, local, pairing, granted, credential, files, edits>>

Decide(p, verdict) ==
  /\ draft[p] # None
  /\ \/ draft[p].state = "draft"
     \/ draft[p].state = "approved" /\ verdict = "revoked"
  /\ draft' = [draft EXCEPT ![p].state = verdict]
  /\ UNCHANGED <<stage, source, local, pairing, granted, credential, files, edits>>

\* waitForApproval sees the approval and replaces the release file by Cloud's spec.
Approved(r) ==
  LET d == draft[<<key[r], name[r]>>] IN
  /\ At(r, "waiting")
  /\ d.state = "approved"
  /\ WritesRelease(r, [status |-> "approved", model |-> d.model, by |-> key[r]], "approved")
  /\ UNCHANGED <<source, local, cloud, credential, edits>>

(***************************************************************************)
(* [5/6] Shadow                                                            *)
(***************************************************************************)

Checked(r) ==
  /\ held' = [held EXCEPT ![r] = copy[digest[r]]]
  /\ Goes(r, "checked")
  /\ UNCHANGED <<source, digest, name, target, key, ran, cloud, credential, files, edits>>

\* Were the copy trusted after the wait because it was checked before it.
CheckedBefore(r) == At(r, "approved") /\ Checked(r)

\* The protected copy is hashed again: approval can take a day.
CheckAgain(r) ==
  /\ At(r, "approved")
  /\ copy[digest[r]] = draft[<<key[r], name[r]>>].model
  /\ Checked(r)

\* runRos2Command reads the release file and takes the Evidence path, which must
\* be free: two runs of one release id cannot both have it.
Reserve(r) ==
  /\ At(r, "checked")
  /\ releaseFile[name[r]] \in Release
  /\ evidence[name[r]] = None
  /\ ran' = [ran EXCEPT ![r] = releaseFile[name[r]]]
  /\ evidence' = [evidence EXCEPT ![name[r]] = Torn]
  /\ Goes(r, "reserved")
  /\ UNCHANGED <<source, digest, name, target, key, held, cloud, credential,
                 copy, releaseFile, state, edits>>

\* The workflow asks the Cloud of the credential stored by now for the release,
\* which must be approved there with the very content of the file; any other
\* outcome leaves Evidence of no allowed Shadow.
Shadow(r) ==
  LET d == draft[<<credential, name[r]>>] IN
  /\ At(r, "reserved")
  /\ d # None
  /\ d.state = "approved"
  /\ ran[r] = [status |-> "approved", model |-> d.model, by |-> credential]
  /\ evidence' = [evidence EXCEPT ![name[r]] = ran[r]]
  /\ Goes(r, "observed")
  /\ UNCHANGED <<source, local, cloud, credential, copy, releaseFile, state, edits>>

(***************************************************************************)
(* [6/6] setup.json                                                        *)
(***************************************************************************)

Complete(r) ==
  /\ At(r, "observed")
  /\ evidence[name[r]] \notin {None, Torn}
  /\ state' = r \/ state' = Torn
  /\ Goes(r, "ended")
  /\ UNCHANGED <<source, local, cloud, credential, copy, releaseFile, evidence, edits>>

\* An error, a time limit, a revocation, a network failure or a signal.
Stop(r) ==
  /\ stage[r] \notin {"idle", "ended"}
  /\ Goes(r, "ended")
  /\ UNCHANGED <<source, local, cloud, credential, files, edits>>

\* The operator replaces the artifact, or writes over (or removes) the copy.
EditSource(c) ==
  /\ Edited
  /\ source' = c
  /\ UNCHANGED <<stage, local, cloud, credential, files>>

EditCopy(c, content) ==
  /\ Edited
  /\ copy[c] # None
  /\ copy' = [copy EXCEPT ![c] = content]
  /\ UNCHANGED <<stage, source, local, cloud, credential, releaseFile, evidence, state>>

Step(r) ==
  \/ \E n \in Name, c \in Cloud : Bind(r, n, c)
  \/ Copy(r) \/ CopyCutOff(r) \/ Save(r)
  \/ Pair(r) \/ Poll(r) \/ ReadKey(r)
  \/ CreateDraft(r) \/ Approved(r) \/ CheckAgain(r)
  \/ Reserve(r) \/ Shadow(r) \/ Complete(r) \/ Stop(r)

Next ==
  \/ \E r \in Run : Step(r) \/ ApprovePairing(r)
  \/ \E c \in Cloud : PairElsewhere(c)
  \/ \E p \in Cloud \X Name, v \in {"approved", "revoked"} : Decide(p, v)
  \/ \E c \in Content : EditSource(c)
  \/ \E c \in Content, x \in Content \cup {None} : EditCopy(c, x)

Spec == Init /\ [][Next]_vars

TypeOK ==
  /\ stage \in [Run -> {"idle", "bound", "copied", "saved", "pairing", "paired", "keyed",
                        "waiting", "approved", "checked", "reserved", "observed", "ended"}]
  /\ source \in Content
  /\ digest \in [Run -> Content \cup {None}]
  /\ name \in [Run -> Name \cup {None}]
  /\ target \in [Run -> Cloud \cup {None}] /\ key \in [Run -> Cloud \cup {None}]
  /\ pairing \in [Run -> {"pending", "approved", None}]
  /\ granted \subseteq Cloud /\ credential \in Cloud \cup {None}
  /\ copy \in [Content -> Content \cup {Torn, None}]
  /\ \A n \in Name : releaseFile[n] \in Release \cup {Torn, None}
  /\ \A n \in Name : evidence[n] \in Release \cup {Torn, None}
  /\ \A p \in Cloud \X Name : draft[p] \in Draft \cup {None}
  /\ held \in [Run -> Content \cup {Torn, None}]
  /\ \A r \in Run : ran[r] \in Release \cup {None}
  /\ state \in Run \cup {Torn, None}
  /\ edits \in 0 .. MaxEdits

\* What setup.json stands for, whatever was killed, edited, replaced or re-run on
\* the way to it: the Cloud the run spoke to approved its release, for the very
\* artifact whose digest it names; the protected copy held that artifact after the
\* approval; the Evidence it names is of the run's own Shadow, of an approved
\* release, and when that approval is the one the run waited for (always so under
\* a release id of its own) the Shadow was of that artifact.  The credential on
\* the host is one an administrator approved.
CompletedIsTrue ==
  /\ \A r \in Run : state = r =>
       LET d == draft[<<key[r], name[r]>>] IN
       /\ d # None
       /\ d.state \in {"approved", "revoked"}
       /\ d.model = digest[r]
       /\ held[r] = digest[r]
       /\ evidence[name[r]] = ran[r]
       /\ ran[r].status = "approved"
       /\ ran[r].by = key[r] => ran[r].model = digest[r]
       /\ name[r] # Named => ran[r].by = key[r]
  /\ credential # None => credential \in granted
=============================================================================
