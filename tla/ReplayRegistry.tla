--------------------------- MODULE ReplayRegistry ---------------------------
(***************************************************************************)
(* FileProposalReplayRegistry: crash-persistent proposal claims shared by  *)
(* processes that hold no lock.  A directory holds one metadata file with  *)
(* the capacity and at most one file per slot of an open-addressed table.  *)
(* A file is published by hard-linking a complete staging file into its    *)
(* place, which fails if the place is taken, and is durable only after the *)
(* directory was synchronised.  Nothing published is ever deleted.         *)
(*                                                                         *)
(* Abstractions.  A staging file is private to its process and complete    *)
(* before the link, so it is no state of the model.  The name of the       *)
(* registry directory itself is synchronised by every claim before         *)
(* anything is published in it: the directory always exists.  A link that  *)
(* finds its name taken and the read of the file that took it are one step *)
(* (a published file changes only by damage, see Tear).                    *)
(***************************************************************************)
EXTENDS Integers, FiniteSets

CONSTANTS
    Process,        \* the OS processes that share the directory
    Identity,       \* proposal identities
    NoIdentity,     \* an empty slot, or the argument of a checkReady() call
    MaxClaims,      \* MaxClaims[p]: the maximumClaims p was configured with
    Digest,         \* Digest[i]: the identity hash, as a number
    NoMetadata,     \* the metadata file is absent
    TornMetadata,   \* the metadata file is damaged
    MaxFaults,      \* bound: damage, failed I/O and power losses in a behaviour
    MaxCrashes      \* bound: killed processes in a behaviour

ASSUME ConstantsAssumption ==
    /\ NoIdentity \notin Identity
    /\ MaxClaims \in [Process -> Nat \ {0}]
    /\ Digest \in [Identity -> Nat]
    /\ NoMetadata \notin Nat
    /\ TornMetadata \notin Nat
    /\ NoMetadata # TornMetadata
    /\ MaxFaults \in Nat
    /\ MaxCrashes \in Nat

SlotsOf(capacity) == 0 .. (capacity - 1)
Slot == UNION {SlotsOf(MaxClaims[p]) : p \in Process}

VARIABLES
    meta,       \* .registry: the recorded capacity, NoMetadata or TornMetadata
    slots,      \* slots[s]: the identity in slot file s, or NoIdentity
    torn,       \* the slots whose file no longer parses
    durable,    \* the slots whose directory entry survives a loss of power
    metaDurable,
    pc,         \* pc[p]: where process p is in claim() or checkReady()
    id,         \* id[p]: the identity p is (or was last) claiming
    must,       \* must[p]: the slot files present when p opened the directory
    occ,        \* occ[p]: the slots p knows to hold another identity
    mine,       \* mine[p]: the slots p published and has not yet answered for
    reply,      \* reply[p]: the last answer p got
    grants,     \* history: how often each identity was answered "claimed"
    faults, crashes

disk == <<meta, slots, torn, durable, metaDurable>>
locals == <<id, must, occ, mine>>
bounds == <<faults, crashes>>
vars == <<disk, pc, locals, reply, grants, bounds>>

Labels == {"idle", "prepare", "metadata", "empty", "createMetadata",
           "syncMetadata", "confirmMetadata", "support", "open", "scan",
           "probe", "sync", "verify"}
Answers == {"none", "claimed", "duplicate", "capacity_exceeded",
            "unavailable", "ready"}

TypeOK ==
    /\ meta \in Nat \cup {NoMetadata, TornMetadata}
    /\ slots \in [Slot -> Identity \cup {NoIdentity}]
    /\ torn \subseteq Slot
    /\ durable \subseteq Slot
    /\ metaDurable \in BOOLEAN
    /\ pc \in [Process -> Labels]
    /\ id \in [Process -> Identity \cup {NoIdentity}]
    /\ must \in [Process -> SUBSET Slot]
    /\ occ \in [Process -> SUBSET Slot]
    /\ mine \in [Process -> SUBSET Slot]
    /\ reply \in [Process -> Answers]
    /\ grants \in [Identity -> Nat]
    /\ faults \in Nat
    /\ crashes \in Nat

Init ==
    /\ meta = NoMetadata
    /\ slots = [s \in Slot |-> NoIdentity]
    /\ torn = {}
    /\ durable = {}
    /\ metaDurable = FALSE
    /\ pc = [p \in Process |-> "idle"]
    /\ id = [p \in Process |-> NoIdentity]
    /\ must = [p \in Process |-> {}]
    /\ occ = [p \in Process |-> {}]
    /\ mine = [p \in Process |-> {}]
    /\ reply = [p \in Process |-> "none"]
    /\ grants = [i \in Identity |-> 0]
    /\ faults = 0
    /\ crashes = 0

Published == {s \in Slot : slots[s] # NoIdentity}

-----------------------------------------------------------------------------
(* How a step ends: go on at a label, or return an answer. *)

Goto(p, label) ==
    /\ pc' = [pc EXCEPT ![p] = label]
    /\ UNCHANGED <<reply, grants>>

Answer(p, answer) ==
    /\ pc' = [pc EXCEPT ![p] = "idle"]
    /\ reply' = [reply EXCEPT ![p] = answer]
    /\ must' = [must EXCEPT ![p] = {}]
    /\ occ' = [occ EXCEPT ![p] = {}]
    /\ mine' = [mine EXCEPT ![p] = {}]
    /\ UNCHANGED id

\* fsync of the directory makes every entry present at that moment durable.
SynchronizeDirectory ==
    /\ durable' = Published
    /\ metaDurable' = (meta # NoMetadata)
    /\ UNCHANGED <<meta, slots, torn>>

-----------------------------------------------------------------------------
(* The two operations start alike. *)

\* claim(i) is called; checkReady() is the call with NoIdentity.
Call(p, i) ==
    /\ pc[p] = "idle"
    /\ id' = [id EXCEPT ![p] = i]
    /\ pc' = [pc EXCEPT ![p] = "prepare"]
    /\ reply' = [reply EXCEPT ![p] = "none"]
    /\ UNCHANGED <<disk, must, occ, mine, grants, bounds>>

\* prepareDirectory ends by synchronising the registry directory.
PrepareDirectory(p) ==
    /\ pc[p] = "prepare"
    /\ SynchronizeDirectory
    /\ Goto(p, "metadata")
    /\ UNCHANGED <<locals, bounds>>

\* The metadata is good: checkReady() probes the file system, claim() scans.
Proceed(p) ==
    /\ Goto(p, IF id[p] = NoIdentity THEN "support" ELSE "open")
    /\ UNCHANGED locals

InspectMetadata(p) ==
    /\ pc[p] = "metadata"
    /\ \/ meta = MaxClaims[p] /\ Proceed(p)
       \/ meta = NoMetadata /\ Goto(p, "empty") /\ UNCHANGED locals
       \/ /\ meta \notin {MaxClaims[p], NoMetadata}
          /\ Answer(p, "unavailable")
          /\ UNCHANGED grants
    /\ UNCHANGED <<disk, bounds>>

\* Fault: no second look at the metadata.
ContainsOnlyStagingNoSecondLook(p) ==
    /\ pc[p] = "empty"
    /\ IF meta = NoMetadata /\ Published = {}
       THEN Goto(p, "createMetadata") /\ UNCHANGED locals
       ELSE Answer(p, "unavailable") /\ UNCHANGED grants
    /\ UNCHANGED <<disk, bounds>>

\* A registry that holds slots but no metadata is never adopted; but another
\* process may just have created both, so the metadata is looked at again.
ContainsOnlyStaging(p) ==
    /\ pc[p] = "empty"
    /\ IF meta = NoMetadata /\ Published = {}
       THEN Goto(p, "createMetadata")
       ELSE Goto(p, "confirmMetadata")
    /\ UNCHANGED <<disk, locals, bounds>>

PublishMetadata(p) ==
    /\ pc[p] = "createMetadata"
    /\ \/ /\ meta = NoMetadata
          /\ meta' = MaxClaims[p]
          /\ Goto(p, "syncMetadata")
       \/ /\ meta # NoMetadata
          /\ Goto(p, "confirmMetadata")
          /\ UNCHANGED meta
    /\ UNCHANGED <<slots, torn, durable, metaDurable, locals, bounds>>

SyncMetadata(p) ==
    /\ pc[p] = "syncMetadata"
    /\ SynchronizeDirectory
    /\ Goto(p, "confirmMetadata")
    /\ UNCHANGED <<locals, bounds>>

\* Fault: metadata that another process created is taken on trust.
ConfirmMetadataBlindly(p) ==
    /\ pc[p] = "confirmMetadata"
    /\ Proceed(p)
    /\ UNCHANGED <<disk, bounds>>

ConfirmMetadata(p) ==
    /\ pc[p] = "confirmMetadata"
    /\ \/ meta = MaxClaims[p] /\ Proceed(p)
       \/ /\ meta # MaxClaims[p]
          /\ Answer(p, "unavailable")
          /\ UNCHANGED grants
    /\ UNCHANGED <<disk, bounds>>

\* publicationSupported succeeds; its failure is an IOFailure at this label.
PublicationSupported(p) ==
    /\ pc[p] = "support"
    /\ Goto(p, "open")
    /\ UNCHANGED <<disk, locals, bounds>>

-----------------------------------------------------------------------------
(* The scan: readdir returns every entry that was there when the directory *)
(* was opened, and may or may not return those that appear meanwhile.      *)

OpenDirectory(p) ==
    /\ pc[p] = "open"
    /\ must' = [must EXCEPT ![p] = Published]
    /\ Goto(p, "scan")
    /\ UNCHANGED <<disk, id, occ, mine, bounds>>

\* Fault: the stored identity is not compared.
HoldsClaimNever(p, s) == FALSE

\* Two claims are the same proposal: their identity hashes agree.
HoldsClaim(p, s) == slots[s] = id[p]

\* Slot s holds another claim: remember it and go on.
NoteOccupied(p, s) ==
    /\ occ' = [occ EXCEPT ![p] = @ \cup {s}]
    /\ UNCHANGED <<pc, reply, grants, id, must, mine>>

ScanEntry(p, s) ==
    /\ pc[p] = "scan"
    /\ s \in Published \ occ[p]
    /\ \/ /\ s \in torn \/ s \notin SlotsOf(MaxClaims[p])
          /\ Answer(p, "unavailable")
          /\ UNCHANGED grants
       \/ /\ s \notin torn /\ s \in SlotsOf(MaxClaims[p])
          /\ HoldsClaim(p, s)
          /\ Answer(p, "duplicate")
          /\ UNCHANGED grants
       \/ /\ s \notin torn /\ s \in SlotsOf(MaxClaims[p])
          /\ ~HoldsClaim(p, s)
          /\ NoteOccupied(p, s)
    /\ UNCHANGED <<disk, bounds>>

\* Fault: the last slot is never used.
TableFullEarly(p) == Cardinality(occ[p]) >= MaxClaims[p] - 1

\* occupied.size >= maximumClaims: no free slot was seen.
TableFull(p) == Cardinality(occ[p]) >= MaxClaims[p]

ScanEnd(p) ==
    /\ pc[p] = "scan"
    /\ must[p] \subseteq occ[p]
    /\ \/ /\ TableFull(p)
          /\ Answer(p, "capacity_exceeded")
          /\ UNCHANGED grants
       \/ /\ ~TableFull(p) /\ id[p] = NoIdentity
          /\ Answer(p, "ready")
          /\ UNCHANGED grants
       \/ /\ ~TableFull(p) /\ id[p] # NoIdentity
          /\ Goto(p, "probe")
          /\ UNCHANGED locals
    /\ UNCHANGED <<disk, bounds>>

-----------------------------------------------------------------------------
(* The probe: the slots from the identity's starting slot on, cyclically,  *)
(* skipping those known to hold another identity.                          *)

StartingSlot(i, capacity) == Digest[i] % capacity

\* How many probes separate slot s from i's starting slot.
Distance(i, s, capacity) ==
    LET start == StartingSlot(i, capacity)
    IN  IF s >= start THEN s - start ELSE s - start + capacity

\* Fault: probing starts anywhere.
IsNextProbeAnywhere(p, s) == s \in SlotsOf(MaxClaims[p]) \ occ[p]

IsNextProbe(p, s) ==
    /\ s \in SlotsOf(MaxClaims[p]) \ occ[p]
    /\ \A t \in SlotsOf(MaxClaims[p]) \ occ[p] :
          Distance(id[p], s, MaxClaims[p]) <= Distance(id[p], t, MaxClaims[p])

\* The hard link of the complete staging file into slot s: atomic, and never
\* replacing.  A taken slot is read to see whose claim took it.
PublishSlot(p, s) ==
    /\ pc[p] = "probe"
    /\ IsNextProbe(p, s)
    /\ \/ /\ slots[s] = NoIdentity
          /\ slots' = [slots EXCEPT ![s] = id[p]]
          /\ mine' = [mine EXCEPT ![p] = {s}]
          /\ Goto(p, "sync")
          /\ UNCHANGED <<id, must, occ>>
       \/ /\ slots[s] # NoIdentity /\ s \in torn
          /\ Answer(p, "unavailable")
          /\ UNCHANGED <<slots, grants>>
       \/ /\ slots[s] # NoIdentity /\ s \notin torn /\ HoldsClaim(p, s)
          /\ Answer(p, "duplicate")
          /\ UNCHANGED <<slots, grants>>
       \/ /\ slots[s] # NoIdentity /\ s \notin torn /\ ~HoldsClaim(p, s)
          /\ NoteOccupied(p, s)
          /\ UNCHANGED slots
    /\ UNCHANGED <<meta, torn, durable, metaDurable, bounds>>

\* The loop ran through all slots.
ProbesExhausted(p) ==
    /\ pc[p] = "probe"
    /\ SlotsOf(MaxClaims[p]) \subseteq occ[p]
    /\ Answer(p, "capacity_exceeded")
    /\ UNCHANGED <<disk, grants, bounds>>

\* Fault: the directory entry is not synchronised before the answer.
SyncSlotSkipped(p) ==
    /\ pc[p] = "sync"
    /\ Goto(p, "verify")
    /\ UNCHANGED <<disk, locals, bounds>>

SyncSlot(p) ==
    /\ pc[p] = "sync"
    /\ SynchronizeDirectory
    /\ Goto(p, "verify")
    /\ UNCHANGED <<locals, bounds>>

\* Fault: the result of the publication is returned as it is.
VerifySlotSkipped(p) ==
    /\ pc[p] = "verify"
    /\ Answer(p, "published")
    /\ grants' = [grants EXCEPT ![id[p]] = @ + 1]
    /\ UNCHANGED <<disk, bounds>>

\* The published slot is read back; only an intact one is a claim.
VerifySlot(p) ==
    /\ pc[p] = "verify"
    /\ \/ /\ mine[p] \cap torn # {}
          /\ Answer(p, "unavailable")
          /\ UNCHANGED grants
       \/ /\ mine[p] \cap torn = {}
          /\ Answer(p, "claimed")
          /\ grants' = [grants EXCEPT ![id[p]] = @ + 1]
    /\ UNCHANGED <<disk, bounds>>

-----------------------------------------------------------------------------
(* What goes wrong. *)

\* Any system call of an operation throws or fails: the operation answers
\* "unavailable", whatever it has already published.
IOFailure(p) ==
    /\ pc[p] # "idle"
    /\ faults < MaxFaults
    /\ faults' = faults + 1
    /\ Answer(p, "unavailable")
    /\ UNCHANGED <<disk, grants, crashes>>

\* Process p is killed and started again.
Crash(p) ==
    /\ pc[p] # "idle"
    /\ crashes < MaxCrashes
    /\ crashes' = crashes + 1
    /\ Answer(p, "none")
    /\ UNCHANGED <<disk, grants, faults>>

\* Power is lost: every process dies, and of the entries not yet
\* synchronised any subset survives.
PowerLoss ==
    /\ faults < MaxFaults
    /\ faults' = faults + 1
    /\ \E kept \in SUBSET (Published \ durable), keepMeta \in BOOLEAN :
          /\ slots' = [s \in Slot |-> IF s \in durable \cup kept
                                      THEN slots[s] ELSE NoIdentity]
          /\ durable' = durable \cup kept
          /\ torn' = torn \cap (durable \cup kept)
          /\ meta' = IF metaDurable \/ keepMeta THEN meta ELSE NoMetadata
          /\ metaDurable' = (metaDurable \/ (keepMeta /\ meta # NoMetadata))
    /\ pc' = [p \in Process |-> "idle"]
    /\ id' = [p \in Process |-> NoIdentity]
    /\ must' = [p \in Process |-> {}]
    /\ occ' = [p \in Process |-> {}]
    /\ mine' = [p \in Process |-> {}]
    /\ reply' = [p \in Process |-> "none"]
    /\ UNCHANGED <<grants, crashes>>

\* A published file is damaged in place ("later-torn/corrupt slot").
Tear(s) ==
    /\ faults < MaxFaults
    /\ faults' = faults + 1
    /\ s \in Published \ torn
    /\ torn' = torn \cup {s}
    /\ UNCHANGED <<meta, slots, durable, metaDurable, pc, locals, reply, grants, crashes>>

TearMetadata ==
    /\ faults < MaxFaults
    /\ faults' = faults + 1
    /\ meta \in Nat
    /\ meta' = TornMetadata
    /\ UNCHANGED <<slots, torn, durable, metaDurable, pc, locals, reply, grants, crashes>>

-----------------------------------------------------------------------------

Step(p) ==
    \/ PrepareDirectory(p)
    \/ InspectMetadata(p)
    \/ ContainsOnlyStaging(p)
    \/ PublishMetadata(p)
    \/ SyncMetadata(p)
    \/ ConfirmMetadata(p)
    \/ PublicationSupported(p)
    \/ OpenDirectory(p)
    \/ \E s \in Slot : ScanEntry(p, s)
    \/ ScanEnd(p)
    \/ \E s \in Slot : PublishSlot(p, s)
    \/ ProbesExhausted(p)
    \/ SyncSlot(p)
    \/ VerifySlot(p)

Environment ==
    \/ \E p \in Process : IOFailure(p) \/ Crash(p)
    \/ PowerLoss
    \/ \E s \in Slot : Tear(s)
    \/ TearMetadata

Next ==
    \/ \E p \in Process, i \in Identity \cup {NoIdentity} : Call(p, i)
    \/ \E p \in Process : Step(p)
    \/ Environment

Spec == Init /\ [][Next]_vars

-----------------------------------------------------------------------------
(* Correctness. *)

\* No identity is ever answered "claimed" twice, by any processes, whatever
\* crashes, failures, damage or losses of power come between.
AtMostOneGrant == \A i \in Identity : grants[i] <= 1

\* No two slots hold the same identity: two processes that claim one identity
\* at once meet at the same slot, however stale their scans of the table.
OneSlotPerIdentity ==
    \A s, t \in Published : slots[s] = slots[t] => s = t

\* A claim the caller was told of survives a loss of power.
GrantedDurable ==
    \A i \in Identity : grants[i] > 0 => \E s \in durable : slots[s] = i

\* "duplicate" is answered only where a slot holds the identity, and
\* "capacity_exceeded" only where no slot is left.
RefusalsJustified ==
    \A p \in Process :
       /\ reply[p] = "duplicate" => \E s \in Slot : slots[s] = id[p]
       /\ reply[p] = "capacity_exceeded" => SlotsOf(MaxClaims[p]) \subseteq Published

\* Without damage, failed I/O or loss of power, no race of processes, killed
\* ones included, makes the registry "unavailable" to a process configured
\* with the capacity the registry was created with.
UnavailableNeedsCause ==
    \A p \in Process :
       reply[p] = "unavailable" => faults > 0 \/ meta # MaxClaims[p]

\* Every slot in use lies inside the table the metadata describes, also where
\* processes configured with different capacities race to create it.
OneTableSize ==
    meta \in Nat => Published \subseteq SlotsOf(meta)

-----------------------------------------------------------------------------
(* Why it is correct: an inductive invariant. *)

PastMetadata(p) == pc[p] \in {"support", "open", "scan", "probe", "sync", "verify"}

\* Whoever passed the metadata agrees on the size of the table.
CapacityAgreed ==
    \A p \in Process : PastMetadata(p) =>
       /\ meta \in {MaxClaims[p], TornMetadata}
       /\ \A q \in Process : PastMetadata(q) => MaxClaims[p] = MaxClaims[q]

\* What a process remembers of the table is still true.
MemoryTrue ==
    \A p \in Process :
       /\ occ[p] \subseteq Published
       /\ must[p] \subseteq Published
       /\ \A s \in occ[p] : slots[s] # id[p]
       /\ pc[p] = "probe" => id[p] \in Identity /\ must[p] \subseteq occ[p]
       /\ pc[p] \notin {"scan", "probe", "sync", "verify"} => occ[p] = {}

\* Every slot that a probe for i would reach before s is in use.
NoGapBefore(i, s, capacity) ==
    /\ s \in SlotsOf(capacity)
    /\ \A t \in SlotsOf(capacity) :
          Distance(i, t, capacity) < Distance(i, s, capacity) => t \in Published

\* A claim for p's identity is either one p's scan must come across, or one
\* p's probing must run into.
ClaimsReachable ==
    \A p \in Process : pc[p] \in {"scan", "probe"} =>
       \A s \in Published : slots[s] = id[p] =>
          s \in must[p] \/ NoGapBefore(id[p], s, MaxClaims[p])

\* A slot just published is its publisher's alone.
MineTrue ==
    /\ \A p \in Process :
          /\ mine[p] # {} <=> pc[p] \in {"sync", "verify"}
          /\ \A s, t \in mine[p] : s = t
          /\ \A s \in mine[p] : slots[s] = id[p] /\ id[p] \in Identity
          /\ pc[p] = "verify" => mine[p] \subseteq durable
    /\ \A p, q \in Process : p # q => mine[p] \cap mine[q] = {}

\* A grant used up its slot: nobody can be granted it again.
GrantsSpent ==
    \A i \in Identity :
       /\ grants[i] <= 1
       /\ grants[i] > 0 =>
             \E s \in durable : slots[s] = i /\ \A p \in Process : s \notin mine[p]

\* Every slot in use lies inside the table as the metadata describes it, as
\* every process past the metadata knows it, and as one that is about to
\* create the metadata will describe it.
SlotsInTable ==
    /\ OneTableSize
    /\ \A p \in Process :
          /\ PastMetadata(p) => Published \subseteq SlotsOf(MaxClaims[p])
          /\ pc[p] = "createMetadata" /\ meta = NoMetadata => Published = {}

\* A refusal names the slot, or the slots, it was made for: as only a loss of
\* power frees a slot, it stays justified until the next call.
RefusalsRemain ==
    \A p \in Process :
       /\ reply[p] = "duplicate" => \E s \in Published : slots[s] = id[p]
       /\ reply[p] = "capacity_exceeded" => SlotsOf(MaxClaims[p]) \subseteq Published

\* Where nothing was damaged, failed or lost power, slots imply metadata, and
\* "unavailable" was answered for the metadata of another capacity.
CleanHistory ==
    faults = 0 =>
       /\ torn = {}
       /\ Published # {} => meta # NoMetadata
       /\ \A p \in Process :
             /\ pc[p] \in {"syncMetadata", "confirmMetadata"} => meta # NoMetadata
             /\ reply[p] = "unavailable" => meta \notin {MaxClaims[p], NoMetadata}

\* The inductive invariant: each part holds of every reachable state of the
\* registry, and together they survive every step of claim() and checkReady().
IInv ==
    /\ TypeOK
    /\ durable \subseteq Published
    /\ CapacityAgreed
    /\ MemoryTrue
    /\ ClaimsReachable
    /\ MineTrue
    /\ OneSlotPerIdentity
    /\ GrantsSpent
    /\ SlotsInTable
    /\ RefusalsRemain
    /\ CleanHistory

-----------------------------------------------------------------------------
(* The registry implements the promise of ReplayClaims. *)

Promise == INSTANCE ReplayClaims WITH
    grants <- grants,
    asking <- [p \in Process |-> IF pc[p] = "idle" THEN NoIdentity ELSE id[p]]

ImplementsReplayClaims == Promise!Spec
=============================================================================
