------------------------ MODULE ReplayRegistryProofs ------------------------
(* Proofs about ReplayRegistry, for any processes, identities, capacities,  *)
(* digests and number of faults.                                           *)
EXTENDS ReplayRegistry, FiniteSetTheorems, TLAPS

-----------------------------------------------------------------------------
(* The probing order. *)

\* A starting slot is a slot of the table.
LEMMA StartingSlotInTable ==
    ASSUME NEW i \in Identity, NEW c \in Nat \ {0}
    PROVE  StartingSlot(i, c) \in SlotsOf(c)
BY ConstantsAssumption DEF StartingSlot, SlotsOf

\* No two slots are the same number of probes away.
LEMMA DistanceInjective ==
    ASSUME NEW i \in Identity, NEW c \in Nat \ {0},
           NEW s \in SlotsOf(c), NEW t \in SlotsOf(c),
           Distance(i, s, c) = Distance(i, t, c)
    PROVE  s = t
<1> DEFINE start == StartingSlot(i, c)
<1>1. start \in 0 .. (c - 1)
  BY StartingSlotInTable DEF SlotsOf
<1> HIDE DEF start
<1>2. (IF s >= start THEN s - start ELSE s - start + c)
        = (IF t >= start THEN t - start ELSE t - start + c)
  BY DEF Distance, start
<1>4. s \in Int /\ s >= 0 /\ s < c /\ t \in Int /\ t >= 0 /\ t < c /\ c \in Int
  BY DEF SlotsOf
<1>5. start \in Int /\ start >= 0 /\ start < c
  BY <1>1, <1>4
<1>6. CASE s >= start /\ t >= start
  BY <1>2, <1>4, <1>5, <1>6
<1>7. CASE s >= start /\ ~(t >= start)
  BY <1>2, <1>4, <1>5, <1>7
<1>8. CASE ~(s >= start) /\ t >= start
  BY <1>2, <1>4, <1>5, <1>8
<1>9. CASE ~(s >= start) /\ ~(t >= start)
  BY <1>2, <1>4, <1>5, <1>9
<1> QED
  BY <1>6, <1>7, <1>8, <1>9

\* A distance is an integer, so that distances are linearly ordered.
LEMMA DistanceType ==
    ASSUME NEW i \in Identity, NEW c \in Nat \ {0}, NEW s \in SlotsOf(c)
    PROVE  Distance(i, s, c) \in Int
BY StartingSlotInTable DEF Distance, SlotsOf

-----------------------------------------------------------------------------
(* Types. *)

\* The slots of each process's table are slots of the model.
LEMMA SlotInSlots ==
    ASSUME NEW p \in Process
    PROVE  SlotsOf(MaxClaims[p]) \subseteq Slot
BY DEF Slot

\* The registry starts well typed.
LEMMA InitTypes == Init => TypeOK
<1> SUFFICES ASSUME Init PROVE TypeOK
  OBVIOUS
<1>1. grants \in [Identity -> Nat] /\ faults \in Nat /\ crashes \in Nat
  BY DEF Init
<1>2. pc \in [Process -> Labels] /\ reply \in [Process -> Answers]
  BY DEF Init, Labels, Answers
<1> QED
  BY <1>1, <1>2 DEF Init, TypeOK

\* Every step of every process, and every fault, keeps the types.
LEMMA TypeStep == TypeOK /\ [Next]_vars => TypeOK'
<1> SUFFICES ASSUME TypeOK, [Next]_vars PROVE TypeOK'
  OBVIOUS
<1> USE ConstantsAssumption DEF TypeOK, Labels, Answers, Published
<1>1. ASSUME NEW p \in Process, NEW i \in Identity \cup {NoIdentity}, Call(p, i)
      PROVE  TypeOK'
  BY <1>1 DEF Call, disk, bounds
<1>2. ASSUME NEW p \in Process, PrepareDirectory(p)
      PROVE  TypeOK'
  BY <1>2 DEF PrepareDirectory, SynchronizeDirectory, Goto, locals, bounds
<1>3. ASSUME NEW p \in Process, InspectMetadata(p)
      PROVE  TypeOK'
  BY <1>3 DEF InspectMetadata, Proceed, Goto, Answer, disk, locals, bounds
<1>4. ASSUME NEW p \in Process, ContainsOnlyStaging(p)
      PROVE  TypeOK'
  BY <1>4 DEF ContainsOnlyStaging, Goto, disk, locals, bounds
<1>5. ASSUME NEW p \in Process, PublishMetadata(p)
      PROVE  TypeOK'
  BY <1>5 DEF PublishMetadata, Goto, locals, bounds
<1>6. ASSUME NEW p \in Process, SyncMetadata(p)
      PROVE  TypeOK'
  BY <1>6 DEF SyncMetadata, SynchronizeDirectory, Goto, locals, bounds
<1>7. ASSUME NEW p \in Process, ConfirmMetadata(p)
      PROVE  TypeOK'
  BY <1>7 DEF ConfirmMetadata, Proceed, Goto, Answer, disk, locals, bounds
<1>8. ASSUME NEW p \in Process, PublicationSupported(p)
      PROVE  TypeOK'
  BY <1>8 DEF PublicationSupported, Goto, disk, locals, bounds
<1>9. ASSUME NEW p \in Process, OpenDirectory(p)
      PROVE  TypeOK'
  BY <1>9 DEF OpenDirectory, Goto, disk, bounds
<1>10. ASSUME NEW p \in Process, NEW s \in Slot, ScanEntry(p, s)
       PROVE  TypeOK'
  BY <1>10 DEF ScanEntry, NoteOccupied, Answer, disk, bounds
<1>11. ASSUME NEW p \in Process, ScanEnd(p)
       PROVE  TypeOK'
  BY <1>11 DEF ScanEnd, Goto, Answer, disk, locals, bounds
<1>12. ASSUME NEW p \in Process, NEW s \in Slot, PublishSlot(p, s)
       PROVE  TypeOK'
  BY <1>12 DEF PublishSlot, NoteOccupied, Goto, Answer, bounds
<1>13. ASSUME NEW p \in Process, ProbesExhausted(p)
       PROVE  TypeOK'
  BY <1>13 DEF ProbesExhausted, Answer, disk, bounds
<1>14. ASSUME NEW p \in Process, SyncSlot(p)
       PROVE  TypeOK'
  BY <1>14 DEF SyncSlot, SynchronizeDirectory, Goto, locals, bounds
<1>15. ASSUME NEW p \in Process, VerifySlot(p)
       PROVE  TypeOK'
  BY <1>15 DEF VerifySlot, Answer, disk, bounds
<1>16. ASSUME NEW p \in Process, IOFailure(p)
       PROVE  TypeOK'
  BY <1>16 DEF IOFailure, Answer, disk
<1>17. ASSUME NEW p \in Process, Crash(p)
       PROVE  TypeOK'
  BY <1>17 DEF Crash, Answer, disk
<1>18. CASE PowerLoss
  <2>1. slots' \in [Slot -> Identity \cup {NoIdentity}]
    BY <1>18 DEF PowerLoss
  <2>2. /\ meta' \in Nat \cup {NoMetadata, TornMetadata}
        /\ torn' \subseteq Slot /\ durable' \subseteq Slot
        /\ metaDurable' \in BOOLEAN
    BY <1>18 DEF PowerLoss
  <2>3. /\ pc' \in [Process -> Labels]
        /\ id' \in [Process -> Identity \cup {NoIdentity}]
        /\ must' \in [Process -> SUBSET Slot]
        /\ occ' \in [Process -> SUBSET Slot]
        /\ mine' \in [Process -> SUBSET Slot]
        /\ reply' \in [Process -> Answers]
        /\ grants' = grants /\ faults' \in Nat /\ crashes' = crashes
    BY <1>18 DEF PowerLoss
  <2> QED
    BY <2>1, <2>2, <2>3
<1>19. ASSUME NEW s \in Slot, Tear(s)
       PROVE  TypeOK'
  BY <1>19 DEF Tear, locals
<1>20. CASE TearMetadata
  BY <1>20 DEF TearMetadata, locals
<1>21. CASE UNCHANGED vars
  BY <1>21 DEF vars, disk, locals, bounds
<1> QED
  BY <1>1, <1>2, <1>3, <1>4, <1>5, <1>6, <1>7, <1>8, <1>9, <1>10, <1>11,
     <1>12, <1>13, <1>14, <1>15, <1>16, <1>17, <1>18, <1>19, <1>20, <1>21
  DEF Next, Step, Environment

\* The variables of the registry keep their types in every behaviour, for any
\* number of processes, capacities and faults.
THEOREM TypeCorrect == Spec => []TypeOK
BY InitTypes, TypeStep, PTL DEF Spec

-----------------------------------------------------------------------------
(* The inductive invariant.  First the parts that say which claims are      *)
(* granted; those about the other answers use them and follow below.       *)

\* The parts of IInv about granted claims.
Core ==
    /\ durable \subseteq Published
    /\ CapacityAgreed
    /\ MemoryTrue
    /\ ClaimsReachable
    /\ MineTrue
    /\ OneSlotPerIdentity
    /\ GrantsSpent

\* An empty registry grants nothing and knows nothing.
LEMMA InitCore == Init => Core
<1> SUFFICES ASSUME Init PROVE Core
  OBVIOUS
<1>1. Published = {} /\ durable = {}
  BY DEF Init, Published
<1>2. CapacityAgreed /\ MemoryTrue
  BY <1>1 DEF Init, CapacityAgreed, PastMetadata, MemoryTrue
<1>3. ClaimsReachable /\ MineTrue
  BY <1>1 DEF Init, ClaimsReachable, MineTrue
<1>4. OneSlotPerIdentity /\ GrantsSpent
  BY <1>1 DEF Init, OneSlotPerIdentity, GrantsSpent
<1> QED
  BY <1>1, <1>2, <1>3, <1>4 DEF Core

\* Any answer but "claimed" leaves the table alone and forgets the scan.
LEMMA AnswerKeepsCore ==
    ASSUME NEW p \in Process, NEW answer
    PROVE  TypeOK /\ Core /\ Answer(p, answer)
             /\ UNCHANGED <<meta, slots, durable, grants>> => Core'
<1> SUFFICES ASSUME TypeOK, Core, Answer(p, answer),
                    UNCHANGED <<meta, slots, durable, grants>>
             PROVE  Core'
  OBVIOUS
<1> USE DEF Core, TypeOK, Answer
<1>1. Published' = Published
  BY DEF Published
<1>2. \A q \in Process : /\ pc'[q] = IF q = p THEN "idle" ELSE pc[q]
                         /\ must'[q] = IF q = p THEN {} ELSE must[q]
                         /\ occ'[q] = IF q = p THEN {} ELSE occ[q]
                         /\ mine'[q] = IF q = p THEN {} ELSE mine[q]
                         /\ id'[q] = id[q]
  OBVIOUS
<1>3. CapacityAgreed'
  BY <1>2 DEF CapacityAgreed, PastMetadata
<1>4. MemoryTrue'
  BY <1>1, <1>2 DEF MemoryTrue
<1>5. ClaimsReachable'
  BY <1>1, <1>2 DEF ClaimsReachable, NoGapBefore
<1>6. MineTrue'
  BY <1>2 DEF MineTrue
<1>7. OneSlotPerIdentity'
  BY <1>1 DEF OneSlotPerIdentity
<1>8. GrantsSpent'
  BY <1>2 DEF GrantsSpent
<1> QED
  BY <1>1, <1>3, <1>4, <1>5, <1>6, <1>7, <1>8

\* The labels before the scan.
Quiet == {"idle", "prepare", "metadata", "empty", "createMetadata",
          "syncMetadata", "confirmMetadata", "support", "open"}

\* A step between labels before the scan keeps what is known of the table,
\* provided the capacity is still agreed upon and nothing durable is lost.
LEMMA QuietMoveKeepsCore ==
    ASSUME NEW p \in Process, NEW label \in Quiet
    PROVE  /\ TypeOK /\ Core
           /\ pc[p] \in Quiet
           /\ pc' = [pc EXCEPT ![p] = label]
           /\ \E i : id' = [id EXCEPT ![p] = i]
           /\ UNCHANGED <<slots, must, occ, mine, grants>>
           /\ durable \subseteq durable' /\ durable' \subseteq Published
           /\ CapacityAgreed'
           => Core'
<1> SUFFICES ASSUME TypeOK, Core, pc[p] \in Quiet,
                    pc' = [pc EXCEPT ![p] = label],
                    \E i : id' = [id EXCEPT ![p] = i],
                    UNCHANGED <<slots, must, occ, mine, grants>>,
                    durable \subseteq durable', durable' \subseteq Published,
                    CapacityAgreed'
             PROVE  Core'
  OBVIOUS
<1> USE DEF Core, TypeOK
<1>1. Published' = Published
  BY DEF Published
<1>2. /\ \A q \in Process \ {p} : pc'[q] = pc[q] /\ id'[q] = id[q]
      /\ pc'[p] = label
  OBVIOUS
<1>3. pc[p] \notin {"scan", "probe", "sync", "verify"}
      /\ label \notin {"scan", "probe", "sync", "verify"}
  BY DEF Quiet
<1>4. occ[p] = {} /\ mine[p] = {}
  BY <1>3 DEF MemoryTrue, MineTrue
<1>5. MemoryTrue'
  BY <1>1, <1>2, <1>3, <1>4 DEF MemoryTrue
<1>6. ClaimsReachable'
  BY <1>1, <1>2, <1>3 DEF ClaimsReachable, NoGapBefore
<1>7. MineTrue'
  BY <1>2, <1>3, <1>4 DEF MineTrue
<1>8. OneSlotPerIdentity'
  BY <1>1 DEF OneSlotPerIdentity
<1>9. GrantsSpent'
  BY DEF GrantsSpent
<1> QED
  BY <1>1, <1>5, <1>6, <1>7, <1>8, <1>9

-----------------------------------------------------------------------------
(* The steps before the scan. *)

\* Whoever finds its own capacity recorded agrees with all who did before.
LEMMA PassingKeepsCapacity ==
    ASSUME NEW p \in Process, NEW label, TypeOK, CapacityAgreed,
           meta = MaxClaims[p], meta' = meta, Goto(p, label)
    PROVE  CapacityAgreed'
<1>1. meta # TornMetadata
  BY ConstantsAssumption
<1>2. \A q \in Process : PastMetadata(q) => MaxClaims[q] = meta
  BY <1>1 DEF CapacityAgreed
<1>3. \A q \in Process : q # p => pc'[q] = pc[q]
  BY DEF Goto, TypeOK
<1>4. \A q \in Process : PastMetadata(q)' => MaxClaims[q] = meta
  BY <1>2, <1>3 DEF PastMetadata
<1> QED
  BY <1>4 DEF CapacityAgreed

\* The steps up to the scan read and create the metadata, and grant nothing.
LEMMA PrepareSteps ==
    ASSUME NEW p \in Process, TypeOK, Core,
           \/ \E i \in Identity \cup {NoIdentity} : Call(p, i)
           \/ PrepareDirectory(p)
           \/ InspectMetadata(p)
           \/ ContainsOnlyStaging(p)
           \/ PublishMetadata(p)
           \/ SyncMetadata(p)
           \/ ConfirmMetadata(p)
           \/ PublicationSupported(p)
    PROVE  Core'
<1> DEFINE Moves(label) ==
      /\ pc[p] \in Quiet
      /\ pc' = [pc EXCEPT ![p] = label]
      /\ \E i : id' = [id EXCEPT ![p] = i]
      /\ UNCHANGED <<slots, must, occ, mine, grants>>
      /\ durable \subseteq durable' /\ durable' \subseteq Published
      /\ CapacityAgreed'
<1>0. id = [id EXCEPT ![p] = id[p]]
  BY DEF TypeOK
<1>1. ASSUME NEW i \in Identity \cup {NoIdentity}, Call(p, i)
      PROVE  Core'
  <2>1. Moves("prepare")
    BY <1>1 DEF Call, Quiet, Core, TypeOK, CapacityAgreed, PastMetadata, disk
  <2> QED
    BY <2>1, QuietMoveKeepsCore DEF Quiet
<1>2. CASE PrepareDirectory(p)
  <2>1. Moves("metadata")
    BY <1>0, <1>2 DEF PrepareDirectory, SynchronizeDirectory, Goto, Quiet, Core,
                      TypeOK, CapacityAgreed, PastMetadata, locals
  <2> QED
    BY <2>1, QuietMoveKeepsCore DEF Quiet
<1>3. CASE InspectMetadata(p)
  <2>1. CASE meta = MaxClaims[p] /\ Proceed(p) /\ UNCHANGED disk
    <3>1. PICK label \in {"support", "open"} : Goto(p, label)
      BY <2>1 DEF Proceed
    <3>2. CapacityAgreed'
      BY <2>1, <3>1, PassingKeepsCapacity DEF Core, disk
    <3>3. Moves(label)
      BY <1>0, <1>3, <2>1, <3>1, <3>2
      DEF InspectMetadata, Proceed, Goto, Quiet, Core, disk, locals
    <3> QED
      BY <3>3, QuietMoveKeepsCore DEF Quiet
  <2>2. CASE meta = NoMetadata /\ Goto(p, "empty") /\ UNCHANGED <<locals, disk>>
    <3>1. Moves("empty")
      BY <1>0, <1>3, <2>2 DEF InspectMetadata, Goto, Quiet, Core, TypeOK,
                              CapacityAgreed, PastMetadata, locals, disk
    <3> QED
      BY <3>1, QuietMoveKeepsCore DEF Quiet
  <2>3. CASE Answer(p, "unavailable") /\ UNCHANGED <<grants, disk>>
    BY <2>3, AnswerKeepsCore DEF disk
  <2> QED
    BY <1>3, <2>1, <2>2, <2>3 DEF InspectMetadata
<1>4. CASE ContainsOnlyStaging(p)
  <2>1. PICK label \in {"createMetadata", "confirmMetadata"} : Goto(p, label)
    BY <1>4 DEF ContainsOnlyStaging
  <2>2. Moves(label)
    BY <1>0, <1>4, <2>1 DEF ContainsOnlyStaging, Goto, Quiet, Core, TypeOK,
                            CapacityAgreed, PastMetadata, locals, disk
  <2> QED
    BY <2>2, QuietMoveKeepsCore DEF Quiet
<1>5. CASE PublishMetadata(p)
  <2>1. PICK label \in {"syncMetadata", "confirmMetadata"} : Goto(p, label)
    BY <1>5 DEF PublishMetadata
  <2>5. \A q \in Process : PastMetadata(q)' => PastMetadata(q)
    BY <2>1 DEF Goto, TypeOK, PastMetadata
  <2>6. \A q \in Process : PastMetadata(q) => meta # NoMetadata
    BY ConstantsAssumption DEF Core, CapacityAgreed
  <2>2. \A q \in Process : PastMetadata(q)' => PastMetadata(q) /\ meta' = meta
    BY <1>5, <2>5, <2>6 DEF PublishMetadata
  <2>3. CapacityAgreed'
    BY <2>2 DEF Core, CapacityAgreed
  <2>4. Moves(label)
    BY <1>0, <1>5, <2>1, <2>3 DEF PublishMetadata, Goto, Quiet, Core, locals
  <2> QED
    BY <2>4, QuietMoveKeepsCore DEF Quiet
<1>6. CASE SyncMetadata(p)
  <2>1. Moves("confirmMetadata")
    BY <1>0, <1>6 DEF SyncMetadata, SynchronizeDirectory, Goto, Quiet, Core,
                      TypeOK, CapacityAgreed, PastMetadata, locals
  <2> QED
    BY <2>1, QuietMoveKeepsCore DEF Quiet
<1>7. CASE ConfirmMetadata(p)
  <2>1. CASE meta = MaxClaims[p] /\ Proceed(p) /\ UNCHANGED disk
    <3>1. PICK label \in {"support", "open"} : Goto(p, label)
      BY <2>1 DEF Proceed
    <3>2. CapacityAgreed'
      BY <2>1, <3>1, PassingKeepsCapacity DEF Core, disk
    <3>3. Moves(label)
      BY <1>0, <1>7, <2>1, <3>1, <3>2
      DEF ConfirmMetadata, Proceed, Goto, Quiet, Core, disk, locals
    <3> QED
      BY <3>3, QuietMoveKeepsCore DEF Quiet
  <2>2. CASE Answer(p, "unavailable") /\ UNCHANGED <<grants, disk>>
    BY <2>2, AnswerKeepsCore DEF disk
  <2> QED
    BY <1>7, <2>1, <2>2 DEF ConfirmMetadata
<1>8. CASE PublicationSupported(p)
  <2>1. Moves("open")
    BY <1>0, <1>8 DEF PublicationSupported, Goto, Quiet, Core, TypeOK,
                      CapacityAgreed, PastMetadata, locals, disk
  <2> QED
    BY <2>1, QuietMoveKeepsCore DEF Quiet
<1> QED
  BY <1>1, <1>2, <1>3, <1>4, <1>5, <1>6, <1>7, <1>8

-----------------------------------------------------------------------------
(* The scan. *)

\* Opening the directory notes every claim the scan will have to meet.
LEMMA OpenDirectoryStep ==
    ASSUME NEW p \in Process, TypeOK, Core, OpenDirectory(p)
    PROVE  Core'
<1> USE DEF Core, TypeOK, OpenDirectory, Goto
<1>1. Published' = Published /\ slots' = slots /\ durable' = durable
  BY DEF Published, disk
<1>2. \A q \in Process : /\ pc'[q] = IF q = p THEN "scan" ELSE pc[q]
                         /\ must'[q] = IF q = p THEN Published ELSE must[q]
  BY DEF Published
<1>3. CapacityAgreed'
  BY <1>2 DEF CapacityAgreed, PastMetadata, disk
<1>4. MemoryTrue'
  BY <1>1, <1>2 DEF MemoryTrue
<1>5. ClaimsReachable'
  BY <1>1, <1>2 DEF ClaimsReachable, NoGapBefore
<1>6. MineTrue'
  BY <1>1, <1>2 DEF MineTrue
<1>7. OneSlotPerIdentity' /\ GrantsSpent'
  BY <1>1 DEF OneSlotPerIdentity, GrantsSpent
<1> QED
  BY <1>1, <1>3, <1>4, <1>5, <1>6, <1>7

\* Remembering that a slot is taken by another identity is remembering a fact.
LEMMA NoteOccupiedKeepsCore ==
    ASSUME NEW p \in Process, NEW s \in Published, TypeOK, Core,
           pc[p] \in {"scan", "probe"}, slots[s] # id[p],
           NoteOccupied(p, s), UNCHANGED <<meta, slots, durable>>
    PROVE  Core'
<1> USE DEF Core, TypeOK, NoteOccupied
<1>1. Published' = Published
  BY DEF Published
<1>2. \A q \in Process : occ'[q] = IF q = p THEN occ[q] \cup {s} ELSE occ[q]
  OBVIOUS
<1>3. CapacityAgreed'
  BY DEF CapacityAgreed, PastMetadata
<1>4. MemoryTrue'
  BY <1>1, <1>2 DEF MemoryTrue
<1>5. ClaimsReachable'
  BY <1>1 DEF ClaimsReachable, NoGapBefore
<1>6. MineTrue' /\ GrantsSpent' /\ OneSlotPerIdentity'
  BY <1>1 DEF MineTrue, OneSlotPerIdentity, GrantsSpent
<1> QED
  BY <1>1, <1>3, <1>4, <1>5, <1>6

\* An entry met by the scan ends the call or is noted as taken.
LEMMA ScanEntryStep ==
    ASSUME NEW p \in Process, NEW s \in Slot, TypeOK, Core, ScanEntry(p, s)
    PROVE  Core'
<1>1. CASE \E answer \in Answers : Answer(p, answer) /\ UNCHANGED <<grants, disk>>
  BY <1>1, AnswerKeepsCore DEF disk
<1>2. CASE ~HoldsClaim(p, s) /\ NoteOccupied(p, s)
  BY <1>2, NoteOccupiedKeepsCore DEF ScanEntry, HoldsClaim, disk
<1> QED
  BY <1>1, <1>2 DEF ScanEntry, Answers

\* A scan that ends has met every entry that was there when it began, so a
\* claim it did not meet lies where probing will run into it.
LEMMA ScanEndStep ==
    ASSUME NEW p \in Process, TypeOK, Core, ScanEnd(p)
    PROVE  Core'
<1>1. CASE \E answer \in Answers : Answer(p, answer) /\ UNCHANGED <<grants, disk>>
  BY <1>1, AnswerKeepsCore DEF disk
<1>2. CASE id[p] # NoIdentity /\ Goto(p, "probe") /\ UNCHANGED <<locals, disk>>
  <2> USE <1>2 DEF Core, TypeOK, Goto, disk, locals
  <2>1. Published' = Published
    BY DEF Published
  <2>2. \A q \in Process : pc'[q] = IF q = p THEN "probe" ELSE pc[q]
    OBVIOUS
  <2>3. pc[p] = "scan" /\ must[p] \subseteq occ[p] /\ id[p] \in Identity
    BY DEF ScanEnd
  <2>4. CapacityAgreed'
    BY <2>2, <2>3 DEF CapacityAgreed, PastMetadata
  <2>5. MemoryTrue'
    BY <2>1, <2>2, <2>3 DEF MemoryTrue
  <2>6. ClaimsReachable'
    BY <2>1, <2>2, <2>3 DEF ClaimsReachable, NoGapBefore
  <2>7. MineTrue' /\ GrantsSpent' /\ OneSlotPerIdentity'
    BY <2>1, <2>2, <2>3 DEF MineTrue, OneSlotPerIdentity, GrantsSpent
  <2> QED
    BY <2>1, <2>4, <2>5, <2>6, <2>7
<1> QED
  BY <1>1, <1>2 DEF ScanEnd, Answers

-----------------------------------------------------------------------------
(* The probe. *)

\* A prober's identity is in no slot the prober would still skip to: if it is
\* anywhere, no slot before it is free.
LEMMA ProbedIdentityHasNoGap ==
    ASSUME NEW p \in Process, TypeOK, Core, pc[p] = "probe",
           NEW t \in Published, slots[t] = id[p]
    PROVE  NoGapBefore(id[p], t, MaxClaims[p])
<1>1. t \notin occ[p] /\ must[p] \subseteq occ[p]
  BY DEF Core, MemoryTrue
<1> QED
  BY <1>1 DEF Core, ClaimsReachable

\* The next slot to probe, if free, has no gap before it.
LEMMA NextProbeHasNoGap ==
    ASSUME NEW p \in Process, NEW s \in Slot, TypeOK, Core,
           pc[p] = "probe", IsNextProbe(p, s)
    PROVE  NoGapBefore(id[p], s, MaxClaims[p])
<1> DEFINE c == MaxClaims[p]
<1>1. id[p] \in Identity /\ occ[p] \subseteq Published
  BY DEF Core, MemoryTrue
<1>2. c \in Nat \ {0}
  BY ConstantsAssumption
<1>3. s \in SlotsOf(c)
  BY DEF IsNextProbe
<1>4. ASSUME NEW t \in SlotsOf(c), Distance(id[p], t, c) < Distance(id[p], s, c)
      PROVE  t \in Published
  <2>1. Distance(id[p], t, c) \in Int /\ Distance(id[p], s, c) \in Int
    BY <1>1, <1>2, <1>3, DistanceType
  <2>2. ~(Distance(id[p], s, c) <= Distance(id[p], t, c))
    BY <1>4, <2>1
  <2> QED
    BY <1>1, <2>2 DEF IsNextProbe
<1> QED
  BY <1>3, <1>4 DEF NoGapBefore

\* The heart of the matter: a prober that finds its slot free is the first to
\* publish its identity.
LEMMA FreeProbeIsFirst ==
    ASSUME NEW p \in Process, NEW s \in Slot, TypeOK, Core,
           pc[p] = "probe", IsNextProbe(p, s), slots[s] = NoIdentity
    PROVE  \A t \in Published : slots[t] # id[p]
<1> DEFINE c == MaxClaims[p]
<1> SUFFICES ASSUME NEW t \in Published, slots[t] = id[p] PROVE FALSE
  OBVIOUS
<1>1. id[p] \in Identity /\ t \notin occ[p]
  BY DEF Core, MemoryTrue
<1>2. NoGapBefore(id[p], t, c)
  BY ProbedIdentityHasNoGap
<1>3. c \in Nat \ {0} /\ s \in SlotsOf(c) /\ t \in SlotsOf(c)
  BY <1>2, ConstantsAssumption DEF IsNextProbe, NoGapBefore
<1>4. Distance(id[p], s, c) <= Distance(id[p], t, c)
  BY <1>1, <1>3 DEF IsNextProbe
<1>5. s \notin Published /\ s # t
  BY DEF Published
<1>6. ~(Distance(id[p], s, c) < Distance(id[p], t, c))
  BY <1>2, <1>3, <1>5 DEF NoGapBefore
<1>7. Distance(id[p], s, c) \in Int /\ Distance(id[p], t, c) \in Int
  BY <1>1, <1>3, DistanceType
<1>8. Distance(id[p], s, c) = Distance(id[p], t, c)
  BY <1>4, <1>6, <1>7
<1> QED
  BY <1>1, <1>3, <1>5, <1>8, DistanceInjective

\* Publishing: the link of p's claim into the free slot s.
LEMMA LinkKeepsCore ==
    ASSUME NEW p \in Process, NEW s \in Slot, TypeOK, Core,
           pc[p] = "probe", IsNextProbe(p, s), slots[s] = NoIdentity,
           slots' = [slots EXCEPT ![s] = id[p]],
           mine' = [mine EXCEPT ![p] = {s}],
           Goto(p, "sync"), UNCHANGED <<id, must, occ, meta, durable>>
    PROVE  Core'
<1> USE DEF TypeOK, Goto
<1>1. id[p] \in Identity /\ id[p] # NoIdentity
  BY ConstantsAssumption DEF Core, MemoryTrue
<1>2. Published' = Published \cup {s} /\ s \notin Published
  BY <1>1 DEF Published
<1>3. \A t \in Slot : slots'[t] = IF t = s THEN id[p] ELSE slots[t]
  OBVIOUS
<1>4. \A q \in Process : /\ pc'[q] = IF q = p THEN "sync" ELSE pc[q]
                         /\ mine'[q] = IF q = p THEN {s} ELSE mine[q]
  OBVIOUS
<1>5. \A q \in Process : s \notin mine[q]
  BY ConstantsAssumption DEF Core, MineTrue
<1>6. CapacityAgreed /\ PastMetadata(p)
  BY DEF Core, PastMetadata
<1>7. CapacityAgreed'
  BY <1>4, <1>6 DEF CapacityAgreed, PastMetadata
<1>8. MemoryTrue'
  BY <1>2, <1>3, <1>4 DEF Core, MemoryTrue
<1>9. ClaimsReachable'
  <2> SUFFICES ASSUME NEW q \in Process, (pc[q] \in {"scan", "probe"})',
                      NEW t \in Published', (slots[t] = id[q])'
               PROVE  (t \in must[q] \/ NoGapBefore(id[q], t, MaxClaims[q]))'
    BY DEF ClaimsReachable
  <2>1. q # p /\ pc[q] \in {"scan", "probe"} /\ PastMetadata(q)
    BY <1>4 DEF PastMetadata
  <2>2. CASE t = s
    <3>1. id[q] = id[p] /\ MaxClaims[q] = MaxClaims[p]
      BY <1>3, <1>6, <2>1, <2>2 DEF CapacityAgreed
    <3>2. NoGapBefore(id[p], s, MaxClaims[p])
      BY NextProbeHasNoGap
    <3> QED
      BY <1>2, <2>2, <3>1, <3>2 DEF NoGapBefore
  <2>3. CASE t # s
    <3>1. t \in Published /\ slots[t] = id[q]
      BY <1>2, <1>3, <2>3
    <3>2. t \in must[q] \/ NoGapBefore(id[q], t, MaxClaims[q])
      BY <2>1, <3>1 DEF Core, ClaimsReachable
    <3> QED
      BY <1>2, <3>2 DEF NoGapBefore
  <2> QED
    BY <2>2, <2>3
<1>10. MineTrue'
  <2>1. \A q \in Process : q # p => mine[q] \cap {s} = {} /\ mine[p] = {}
    BY <1>5 DEF Core, MineTrue
  <2> QED
    BY <1>1, <1>3, <1>4, <1>5, <2>1 DEF Core, MineTrue
<1>11. OneSlotPerIdentity'
  <2>1. \A t \in Published : slots[t] # id[p]
    BY FreeProbeIsFirst
  <2> QED
    BY <1>2, <1>3, <2>1 DEF Core, OneSlotPerIdentity
<1>12. GrantsSpent'
  BY <1>2, <1>3, <1>4 DEF Core, GrantsSpent
<1> QED
  BY <1>2, <1>7, <1>8, <1>9, <1>10, <1>11, <1>12 DEF Core

\* A probe publishes its claim, ends the call, or notes a slot as taken.
LEMMA PublishSlotStep ==
    ASSUME NEW p \in Process, NEW s \in Slot, TypeOK, Core, PublishSlot(p, s)
    PROVE  Core'
<1>1. CASE slots[s] = NoIdentity /\ slots' = [slots EXCEPT ![s] = id[p]]
             /\ mine' = [mine EXCEPT ![p] = {s}] /\ Goto(p, "sync")
             /\ UNCHANGED <<id, must, occ>>
  BY <1>1, LinkKeepsCore DEF PublishSlot
<1>2. CASE \E answer \in Answers : Answer(p, answer) /\ UNCHANGED <<slots, grants>>
  BY <1>2, AnswerKeepsCore DEF PublishSlot
<1>3. CASE slots[s] # NoIdentity /\ ~HoldsClaim(p, s) /\ NoteOccupied(p, s)
             /\ UNCHANGED slots
  <2>1. s \in Published /\ slots[s] # id[p]
    BY <1>3 DEF Published, HoldsClaim
  <2> QED
    BY <1>3, <2>1, NoteOccupiedKeepsCore DEF PublishSlot
<1> QED
  BY <1>1, <1>2, <1>3 DEF PublishSlot, Answers

\* Synchronising makes p's slot durable before p answers.
LEMMA SyncSlotStep ==
    ASSUME NEW p \in Process, TypeOK, Core, SyncSlot(p)
    PROVE  Core'
<1> USE DEF Core, TypeOK, SyncSlot, SynchronizeDirectory, Goto, locals
<1>1. Published' = Published /\ durable' = Published
  BY DEF Published
<1>2. \A q \in Process : pc'[q] = IF q = p THEN "verify" ELSE pc[q]
  OBVIOUS
<1>3. \A q \in Process : mine[q] \subseteq Published
  BY ConstantsAssumption DEF MineTrue, Published
<1>4. CapacityAgreed'
  BY <1>2 DEF CapacityAgreed, PastMetadata
<1>5. MemoryTrue'
  BY <1>1, <1>2 DEF MemoryTrue
<1>6. ClaimsReachable'
  BY <1>1, <1>2 DEF ClaimsReachable, NoGapBefore
<1>7. MineTrue'
  BY <1>1, <1>2, <1>3 DEF MineTrue
<1>8. OneSlotPerIdentity' /\ GrantsSpent'
  BY <1>1 DEF OneSlotPerIdentity, GrantsSpent
<1> QED
  BY <1>1, <1>4, <1>5, <1>6, <1>7, <1>8

\* An identity granted before has spent its only slot, and that slot is not
\* the one p is about to answer for.
LEMMA VerifySlotStep ==
    ASSUME NEW p \in Process, TypeOK, Core, VerifySlot(p)
    PROVE  Core'
<1>1. CASE Answer(p, "unavailable") /\ UNCHANGED <<grants, disk>>
  BY <1>1, AnswerKeepsCore DEF disk
<1>2. CASE Answer(p, "claimed") /\ UNCHANGED disk
             /\ grants' = [grants EXCEPT ![id[p]] = @ + 1]
  <2> USE <1>2 DEF Core, TypeOK, Answer, disk
  <2>1. Published' = Published
    BY DEF Published
  <2>2. \A q \in Process : /\ pc'[q] = IF q = p THEN "idle" ELSE pc[q]
                           /\ must'[q] = IF q = p THEN {} ELSE must[q]
                           /\ occ'[q] = IF q = p THEN {} ELSE occ[q]
                           /\ mine'[q] = IF q = p THEN {} ELSE mine[q]
                           /\ id'[q] = id[q]
    OBVIOUS
  <2>3. pc[p] = "verify"
    BY DEF VerifySlot
  <2>4. PICK s \in mine[p] : s \in durable /\ slots[s] = id[p] /\ id[p] \in Identity
    BY <2>3 DEF MineTrue
  <2>5. \A q \in Process : q # p => s \notin mine[q]
    BY <2>4 DEF MineTrue
  <2>6. grants[id[p]] = 0
    <3>1. SUFFICES ASSUME grants[id[p]] > 0 PROVE FALSE
      BY <2>4
    <3>2. PICK t \in durable : slots[t] = id[p] /\ t \notin mine[p]
      BY <2>4, <3>1 DEF GrantsSpent
    <3>3. s = t
      BY <2>4, <3>2 DEF OneSlotPerIdentity
    <3> QED
      BY <2>4, <3>2, <3>3
  <2>7. CapacityAgreed'
    BY <2>2 DEF CapacityAgreed, PastMetadata
  <2>8. MemoryTrue'
    BY <2>1, <2>2 DEF MemoryTrue
  <2>9. ClaimsReachable'
    BY <2>1, <2>2 DEF ClaimsReachable, NoGapBefore
  <2>10. MineTrue' /\ OneSlotPerIdentity'
    BY <2>1, <2>2 DEF MineTrue, OneSlotPerIdentity
  <2>11. GrantsSpent'
    <3> SUFFICES ASSUME NEW i \in Identity
                 PROVE  /\ grants'[i] <= 1
                        /\ grants'[i] > 0 => \E t \in durable : slots[t] = i
                             /\ \A q \in Process : t \notin mine'[q]
      BY DEF GrantsSpent
    <3>1. CASE i = id[p]
      <4>1. grants'[i] = 1
        BY <2>4, <2>6, <3>1
      <4>2. \A q \in Process : s \notin mine'[q]
        BY <2>2, <2>5
      <4> QED
        BY <2>4, <3>1, <4>1, <4>2
    <3>2. CASE i # id[p]
      <4>1. grants'[i] = grants[i]
        BY <2>4, <3>2
      <4> QED
        BY <2>2, <4>1 DEF GrantsSpent
    <3> QED
      BY <3>1, <3>2
  <2> QED
    BY <2>1, <2>7, <2>8, <2>9, <2>10, <2>11
<1> QED
  BY <1>1, <1>2 DEF VerifySlot

-----------------------------------------------------------------------------
(* What goes wrong. *)

\* A loss of power takes slots nobody was told of, and every memory with them.
LEMMA PowerLossStep == ASSUME TypeOK, Core, PowerLoss PROVE Core'
<1> USE DEF Core, TypeOK
<1>1. PICK kept \in SUBSET (Published \ durable) :
         /\ slots' = [s \in Slot |-> IF s \in durable \cup kept
                                     THEN slots[s] ELSE NoIdentity]
         /\ durable' = durable \cup kept
  BY DEF PowerLoss
<1>2. Published' = durable \cup kept /\ \A s \in Published' : slots'[s] = slots[s]
  BY <1>1 DEF Published
<1>3. Published' \subseteq Published /\ durable \subseteq Published'
  BY <1>1, <1>2
<1>4. \A p \in Process : /\ pc'[p] = "idle" /\ must'[p] = {} /\ occ'[p] = {}
                         /\ mine'[p] = {}
  BY DEF PowerLoss
<1>5. CapacityAgreed' /\ MemoryTrue' /\ ClaimsReachable' /\ MineTrue'
  BY <1>4 DEF CapacityAgreed, PastMetadata, MemoryTrue, ClaimsReachable, MineTrue
<1>6. OneSlotPerIdentity'
  BY <1>2, <1>3 DEF OneSlotPerIdentity
<1>7. GrantsSpent'
  BY <1>1, <1>2, <1>3, <1>4 DEF GrantsSpent, PowerLoss
<1> QED
  BY <1>1, <1>2, <1>5, <1>6, <1>7

\* Damage in place frees no slot.
LEMMA DamageStep ==
    ASSUME TypeOK, Core, TearMetadata \/ \E s \in Slot : Tear(s)
    PROVE  Core'
<1> USE DEF Core, TypeOK
<1>1. UNCHANGED <<slots, durable, pc, id, must, occ, mine, grants>>
      /\ meta' \in {meta, TornMetadata}
  BY DEF Tear, TearMetadata, locals
<1>2. Published' = Published
  BY <1>1 DEF Published
<1>3. CapacityAgreed'
  BY <1>1 DEF CapacityAgreed, PastMetadata
<1>4. MemoryTrue' /\ ClaimsReachable'
  BY <1>1, <1>2 DEF MemoryTrue, ClaimsReachable, NoGapBefore
<1>5. MineTrue' /\ OneSlotPerIdentity' /\ GrantsSpent'
  BY <1>1, <1>2 DEF MineTrue, OneSlotPerIdentity, GrantsSpent
<1> QED
  BY <1>1, <1>2, <1>3, <1>4, <1>5

-----------------------------------------------------------------------------
(* Every step keeps the parts about granted claims. *)

\* Every step keeps the parts about granted claims.
LEMMA CoreStep == TypeOK /\ Core /\ [Next]_vars => Core'
<1> SUFFICES ASSUME TypeOK, Core, [Next]_vars PROVE Core'
  OBVIOUS
<1>1. ASSUME NEW p \in Process, NEW i \in Identity \cup {NoIdentity}, Call(p, i)
      PROVE  Core'
  BY <1>1, PrepareSteps
<1>2. ASSUME NEW p \in Process, Step(p)
      PROVE  Core'
  <2>1. CASE ProbesExhausted(p)
    BY <2>1, AnswerKeepsCore DEF ProbesExhausted, disk
  <2> QED
    BY <1>2, <2>1, PrepareSteps, OpenDirectoryStep, ScanEntryStep, ScanEndStep,
       PublishSlotStep, SyncSlotStep, VerifySlotStep DEF Step
<1>3. CASE Environment
  <2>1. ASSUME NEW p \in Process, IOFailure(p) PROVE Core'
    BY <2>1, AnswerKeepsCore DEF IOFailure, disk
  <2>2. ASSUME NEW p \in Process, Crash(p) PROVE Core'
    BY <2>2, AnswerKeepsCore DEF Crash, disk
  <2> QED
    BY <1>3, <2>1, <2>2, PowerLossStep, DamageStep DEF Environment
<1>4. CASE UNCHANGED vars
  <2>1. UNCHANGED <<meta, slots, durable, pc, id, must, occ, mine, grants>>
    BY <1>4 DEF vars, disk, locals
  <2> QED
    BY <2>1 DEF Core, Published, CapacityAgreed, PastMetadata, MemoryTrue,
                ClaimsReachable, NoGapBefore, MineTrue, OneSlotPerIdentity,
                GrantsSpent
<1> QED
  BY <1>1, <1>2, <1>3, <1>4 DEF Next

-----------------------------------------------------------------------------
(* The answers.  The invariant so far says which claims are granted; why    *)
(* the other answers are true takes the three last parts of IInv, which use *)
(* the agreement on the capacity and the truth of what is remembered.      *)

\* The parts of IInv about the other answers.
Reasons == SlotsInTable /\ RefusalsRemain /\ CleanHistory

\* Every step but a loss of power.
PowerStays ==
    \/ \E p \in Process, i \in Identity \cup {NoIdentity} : Call(p, i)
    \/ \E p \in Process : Step(p)
    \/ \E p \in Process : IOFailure(p) \/ Crash(p)
    \/ \E s \in Slot : Tear(s)
    \/ TearMetadata
    \/ UNCHANGED vars

\* Only a publication, the creation of the metadata and damage write to the
\* disk; a slot in use keeps its identity, and damage is counted.
DiskEffect ==
    /\ \/ UNCHANGED slots
       \/ \E p \in Process, s \in Slot :
             /\ pc[p] = "probe" /\ s \in SlotsOf(MaxClaims[p])
             /\ slots[s] = NoIdentity /\ slots' = [slots EXCEPT ![s] = id[p]]
             /\ UNCHANGED meta
    /\ \/ UNCHANGED meta
       \/ meta = NoMetadata /\ \E p \in Process : pc[p] = "createMetadata"
                                                  /\ meta' = MaxClaims[p]
       \/ meta' = TornMetadata /\ faults' > 0
    /\ torn' = torn \/ faults' > 0
    /\ faults' >= faults

\* Every step but a loss of power has these effects on the disk.
LEMMA Disk ==
    ASSUME TypeOK, PowerStays
    PROVE  DiskEffect
<1>0. faults \in Nat /\ faults <= faults + 1 /\ faults + 1 > 0 /\ faults <= faults
  BY DEF TypeOK
<1> DEFINE Reads == UNCHANGED <<slots, meta, torn, faults>>
<1>1. Reads => DiskEffect
  BY <1>0 DEF DiskEffect
<1>2. ASSUME NEW p \in Process, NEW i \in Identity \cup {NoIdentity}, Call(p, i)
      PROVE  DiskEffect
  BY <1>1, <1>2 DEF Call, disk, bounds
<1>3. ASSUME NEW p \in Process, Step(p)
      PROVE  DiskEffect
  <2>1. CASE PrepareDirectory(p) \/ SyncMetadata(p) \/ SyncSlot(p)
    BY <1>1, <2>1
    DEF PrepareDirectory, SyncMetadata, SyncSlot, SynchronizeDirectory, bounds
  <2>2. CASE InspectMetadata(p) \/ ContainsOnlyStaging(p) \/ ConfirmMetadata(p)
               \/ PublicationSupported(p) \/ OpenDirectory(p) \/ ScanEnd(p)
               \/ ProbesExhausted(p) \/ VerifySlot(p)
               \/ \E s \in Slot : ScanEntry(p, s)
    BY <1>1, <2>2
    DEF InspectMetadata, ContainsOnlyStaging, ConfirmMetadata, PublicationSupported,
        OpenDirectory, ScanEnd, ProbesExhausted, VerifySlot, ScanEntry, disk, bounds
  <2>3. CASE PublishMetadata(p)
    BY <1>0, <2>3 DEF PublishMetadata, DiskEffect, bounds
  <2>4. ASSUME NEW s \in Slot, PublishSlot(p, s)
        PROVE  DiskEffect
    BY <1>0, <2>4 DEF PublishSlot, IsNextProbe, DiskEffect, bounds
  <2> QED
    BY <1>3, <2>1, <2>2, <2>3, <2>4 DEF Step
<1>4. ASSUME NEW p \in Process, IOFailure(p) \/ Crash(p)
      PROVE  DiskEffect
  BY <1>0, <1>4 DEF IOFailure, Crash, disk, DiskEffect
<1>5. CASE TearMetadata \/ \E s \in Slot : Tear(s)
  BY <1>0, <1>5 DEF TearMetadata, Tear, DiskEffect
<1>6. CASE UNCHANGED vars
  BY <1>1, <1>6 DEF vars, disk, bounds
<1> QED
  BY <1>2, <1>3, <1>4, <1>5, <1>6 DEF PowerStays

\* What is in use stays in use and keeps its identity; what is new was
\* published by a process past the metadata, inside its table.
LEMMA TableGrows ==
    ASSUME TypeOK, Core, PowerStays
    PROVE  /\ Published \subseteq Published'
           /\ \A s \in Published : slots'[s] = slots[s]
           /\ \A s \in Published' \ Published : \E p \in Process :
                 pc[p] = "probe" /\ s \in SlotsOf(MaxClaims[p]) /\ UNCHANGED meta
<1>1. DiskEffect
  BY Disk
<1>2. CASE UNCHANGED slots
  BY <1>2 DEF Published
<1>3. ASSUME NEW p \in Process, NEW s \in Slot,
             pc[p] = "probe", s \in SlotsOf(MaxClaims[p]),
             slots[s] = NoIdentity, slots' = [slots EXCEPT ![s] = id[p]],
             UNCHANGED meta
      PROVE  /\ Published \subseteq Published'
             /\ \A t \in Published : slots'[t] = slots[t]
             /\ \A t \in Published' \ Published : t = s
  <2>1. id[p] \in Identity /\ id[p] # NoIdentity
    BY <1>3, ConstantsAssumption DEF Core, MemoryTrue
  <2> QED
    BY <1>3, <2>1 DEF Published, TypeOK
<1> QED
  BY <1>1, <1>2, <1>3 DEF DiskEffect

\* Where the labels lead: past the metadata only by finding the capacity of
\* the process recorded, to its creation only from an empty registry.
FlowEffect ==
    \A q \in Process :
       /\ PastMetadata(q)' => PastMetadata(q) \/ (meta = MaxClaims[q] /\ UNCHANGED disk)
       /\ pc'[q] = "createMetadata" =>
             pc[q] = "createMetadata" \/ (Published = {} /\ UNCHANGED disk)
       /\ pc'[q] \in {"syncMetadata", "confirmMetadata"} =>
             \/ pc[q] \in {"syncMetadata", "confirmMetadata"}
             \/ meta' # NoMetadata
             \/ Published # {} /\ UNCHANGED disk

\* Every step but a loss of power follows these labels.
LEMMA Flow ==
    ASSUME TypeOK, PowerStays
    PROVE  FlowEffect
<1> USE DEF FlowEffect, PastMetadata
<1>0. pc \in [Process -> Labels]
  BY DEF TypeOK
<1>1. ASSUME NEW p \in Process, NEW i \in Identity \cup {NoIdentity}, Call(p, i)
      PROVE  FlowEffect
  BY <1>0, <1>1 DEF Call
<1>2. ASSUME NEW p \in Process, Step(p)
      PROVE  FlowEffect
  <2>1. CASE PrepareDirectory(p) \/ SyncMetadata(p) \/ SyncSlot(p)
    BY <1>0, <2>1
    DEF PrepareDirectory, SyncMetadata, SyncSlot, SynchronizeDirectory, Goto
  <2>2. CASE InspectMetadata(p)
    BY <1>0, <2>2 DEF InspectMetadata, Proceed, Goto, Answer
  <2>3. CASE ContainsOnlyStaging(p)
    BY <1>0, <2>3 DEF ContainsOnlyStaging, Goto, disk
  <2>4. CASE ConfirmMetadata(p)
    BY <1>0, <2>4 DEF ConfirmMetadata, Proceed, Goto, Answer
  <2>5. CASE PublicationSupported(p) \/ OpenDirectory(p) \/ ScanEnd(p)
               \/ ProbesExhausted(p) \/ VerifySlot(p)
    BY <1>0, <2>5
    DEF PublicationSupported, OpenDirectory, ScanEnd, ProbesExhausted, VerifySlot,
        Goto, Answer
  <2>6. CASE PublishMetadata(p)
    BY <1>0, <2>6, ConstantsAssumption DEF PublishMetadata, Goto
  <2>7. ASSUME NEW s \in Slot, ScanEntry(p, s) \/ PublishSlot(p, s)
        PROVE  FlowEffect
    BY <1>0, <2>7 DEF ScanEntry, PublishSlot, NoteOccupied, Goto, Answer
  <2> QED
    BY <1>2, <2>1, <2>2, <2>3, <2>4, <2>5, <2>6, <2>7 DEF Step
<1>3. ASSUME NEW p \in Process, IOFailure(p) \/ Crash(p)
      PROVE  FlowEffect
  BY <1>0, <1>3 DEF IOFailure, Crash, Answer
<1>4. CASE TearMetadata \/ \E s \in Slot : Tear(s)
  BY <1>4 DEF TearMetadata, Tear
<1>5. CASE UNCHANGED vars
  BY <1>5 DEF vars
<1> QED
  BY <1>1, <1>2, <1>3, <1>4, <1>5 DEF PowerStays

\* What an answer says when it is given, by the process that gives it.
ReplyEffect ==
    \A q \in Process :
       \/ reply'[q] = reply[q] /\ id'[q] = id[q]
       \/ reply'[q] \in {"none", "claimed", "ready"}
       \/ /\ reply'[q] = "duplicate" /\ id'[q] = id[q]
          /\ \E s \in Published : slots[s] = id[q]
       \/ /\ reply'[q] = "capacity_exceeded"
          /\ \/ SlotsOf(MaxClaims[q]) \subseteq occ[q]
             \/ PastMetadata(q) /\ TableFull(q)
       \/ /\ reply'[q] = "unavailable"
          /\ \/ faults' > 0
             \/ torn # {}
             \/ PastMetadata(q) /\ ~(Published \subseteq SlotsOf(MaxClaims[q]))
             \/ UNCHANGED disk /\ meta \notin {MaxClaims[q], NoMetadata}
             \/ UNCHANGED disk /\ meta # MaxClaims[q] /\ pc[q] = "confirmMetadata"

\* Every step but a loss of power gives only such answers.
LEMMA Replies ==
    ASSUME TypeOK, PowerStays
    PROVE  ReplyEffect
<1> USE DEF ReplyEffect, PastMetadata
<1>0. reply \in [Process -> Answers] /\ id \in [Process -> Identity \cup {NoIdentity}]
  BY DEF TypeOK
<1>1. ASSUME NEW p \in Process, NEW i \in Identity \cup {NoIdentity}, Call(p, i)
      PROVE  ReplyEffect
  BY <1>0, <1>1 DEF Call
<1>2. ASSUME NEW p \in Process, Step(p)
      PROVE  ReplyEffect
  <2>1. CASE PrepareDirectory(p) \/ SyncMetadata(p) \/ SyncSlot(p) \/ PublishMetadata(p)
               \/ ContainsOnlyStaging(p) \/ PublicationSupported(p) \/ OpenDirectory(p)
    BY <2>1
    DEF PrepareDirectory, SyncMetadata, SyncSlot, PublishMetadata, ContainsOnlyStaging,
        PublicationSupported, OpenDirectory, Goto, locals
  <2>2. CASE InspectMetadata(p)
    BY <1>0, <2>2 DEF InspectMetadata, Proceed, Goto, Answer, locals
  <2>3. CASE ConfirmMetadata(p)
    BY <1>0, <2>3 DEF ConfirmMetadata, Proceed, Goto, Answer, locals
  <2>4. CASE ScanEnd(p)
    BY <1>0, <2>4 DEF ScanEnd, Goto, Answer, locals
  <2>5. CASE ProbesExhausted(p)
    BY <1>0, <2>5 DEF ProbesExhausted, Answer
  <2>6. CASE VerifySlot(p)
    BY <1>0, <2>6 DEF VerifySlot, Answer
  <2>7. ASSUME NEW s \in Slot, ScanEntry(p, s)
        PROVE  ReplyEffect
    BY <1>0, <2>7 DEF ScanEntry, HoldsClaim, NoteOccupied, Answer
  <2>8. ASSUME NEW s \in Slot, PublishSlot(p, s)
        PROVE  ReplyEffect
    BY <1>0, <2>8 DEF PublishSlot, HoldsClaim, NoteOccupied, Goto, Answer, Published
  <2> QED
    BY <1>2, <2>1, <2>2, <2>3, <2>4, <2>5, <2>6, <2>7, <2>8 DEF Step
<1>3. ASSUME NEW p \in Process, Crash(p)
      PROVE  ReplyEffect
  BY <1>0, <1>3 DEF Crash, Answer
<1>4. ASSUME NEW p \in Process, IOFailure(p)
      PROVE  ReplyEffect
  <2>1. faults' > 0
    BY <1>4 DEF IOFailure, TypeOK
  <2> QED
    BY <1>0, <1>4, <2>1 DEF IOFailure, Answer
<1>5. CASE TearMetadata \/ \E s \in Slot : Tear(s)
  BY <1>5 DEF TearMetadata, Tear, locals
<1>6. CASE UNCHANGED vars
  BY <1>6 DEF vars, locals
<1> QED
  BY <1>1, <1>2, <1>3, <1>4, <1>5, <1>6 DEF PowerStays

\* The size of a table.
LEMMA TableSize ==
    ASSUME NEW c \in Nat \ {0}
    PROVE  IsFiniteSet(SlotsOf(c)) /\ Cardinality(SlotsOf(c)) = c
<1>1. 0 \in Int /\ c - 1 \in Int /\ ~(0 > c - 1) /\ (c - 1) - 0 + 1 = c
  OBVIOUS
<1> QED
  BY <1>1, FS_Interval DEF SlotsOf

\* A process that counts as many slots as its table has knows all of them.
LEMMA FullTable ==
    ASSUME NEW p \in Process, NEW known \in SUBSET SlotsOf(MaxClaims[p]),
           Cardinality(known) >= MaxClaims[p]
    PROVE  known = SlotsOf(MaxClaims[p])
<1>1. MaxClaims[p] \in Nat \ {0}
  BY ConstantsAssumption
<1>2. /\ IsFiniteSet(SlotsOf(MaxClaims[p]))
      /\ Cardinality(SlotsOf(MaxClaims[p])) = MaxClaims[p]
  BY <1>1, TableSize
<1>3. /\ IsFiniteSet(known)
      /\ Cardinality(known) <= MaxClaims[p]
      /\ MaxClaims[p] = Cardinality(known) => SlotsOf(MaxClaims[p]) = known
  BY <1>2, FS_Subset
<1>4. Cardinality(known) \in Nat
  BY <1>3, FS_CardinalityType
<1>5. Cardinality(known) = MaxClaims[p]
  BY <1>1, <1>3, <1>4
<1> QED
  BY <1>3, <1>5

-----------------------------------------------------------------------------
(* The three parts are kept. *)

\* A process that publishes is past the metadata: nobody disagrees with it.
LEMMA SlotsInTableStep ==
    ASSUME TypeOK, Core, SlotsInTable, PowerStays
    PROVE  SlotsInTable'
<1>1. /\ Published \subseteq Published'
      /\ \A s \in Published' \ Published : \E p \in Process :
            PastMetadata(p) /\ s \in SlotsOf(MaxClaims[p]) /\ UNCHANGED meta
  BY TableGrows DEF PastMetadata
<1>2. FlowEffect
  BY Flow
<1>3. \/ UNCHANGED meta
      \/ meta = NoMetadata /\ \E p \in Process : pc[p] = "createMetadata"
                                                 /\ meta' = MaxClaims[p]
      \/ meta' = TornMetadata
  BY Disk DEF DiskEffect
<1>4. \A p \in Process : PastMetadata(p) =>
         /\ meta \in {MaxClaims[p], TornMetadata}
         /\ \A q \in Process : PastMetadata(q) => MaxClaims[p] = MaxClaims[q]
  BY DEF Core, CapacityAgreed
<1>5. /\ \A p \in Process : MaxClaims[p] \in Nat
      /\ NoMetadata \notin Nat /\ TornMetadata \notin Nat /\ NoMetadata # TornMetadata
  BY ConstantsAssumption
<1>6. UNCHANGED disk => meta' = meta /\ Published' = Published
  BY DEF disk, Published
<1>7. OneTableSize'
  <2> SUFFICES ASSUME meta' \in Nat, NEW s \in Published'
               PROVE  s \in SlotsOf(meta')
    BY DEF OneTableSize
  <2>1. CASE UNCHANGED meta
    <3>1. CASE s \in Published
      BY <2>1, <3>1 DEF SlotsInTable, OneTableSize
    <3>2. CASE s \notin Published
      BY <1>1, <1>4, <1>5, <2>1, <3>2
    <3> QED
      BY <3>1, <3>2
  <2>2. CASE meta = NoMetadata /\ \E p \in Process : pc[p] = "createMetadata"
                                                     /\ meta' = MaxClaims[p]
    <3>1. Published = {}
      BY <2>2 DEF SlotsInTable
    <3> QED
      BY <1>1, <1>5, <2>2, <3>1
  <2> QED
    BY <1>3, <1>5, <2>1, <2>2
<1>8. ASSUME NEW q \in Process, PastMetadata(q)', NEW s \in Published'
      PROVE  s \in SlotsOf(MaxClaims[q])
  <2>1. CASE PastMetadata(q)
    <3>1. CASE s \in Published
      BY <2>1, <3>1 DEF SlotsInTable
    <3>2. CASE s \notin Published
      BY <1>1, <1>4, <2>1, <3>2
    <3> QED
      BY <3>1, <3>2
  <2>2. CASE meta = MaxClaims[q] /\ UNCHANGED disk
    BY <1>5, <1>6, <2>2 DEF SlotsInTable, OneTableSize
  <2> QED
    BY <1>2, <1>8, <2>1, <2>2 DEF FlowEffect
<1>9. ASSUME NEW q \in Process, pc'[q] = "createMetadata", meta' = NoMetadata
      PROVE  Published' = {}
  <2>1. CASE pc[q] = "createMetadata"
    <3>1. meta = NoMetadata
      BY <1>3, <1>5, <1>9
    <3>2. Published = {}
      BY <2>1, <3>1 DEF SlotsInTable
    <3> QED
      BY <1>1, <1>4, <1>5, <3>1, <3>2
  <2>2. CASE Published = {} /\ UNCHANGED disk
    BY <1>6, <2>2
  <2> QED
    BY <1>2, <1>9, <2>1, <2>2 DEF FlowEffect
<1> QED
  BY <1>7, <1>8, <1>9 DEF SlotsInTable

\* What a refusal was made for is still there, and was there when it was made.
LEMMA RefusalsRemainStep ==
    ASSUME TypeOK, Core, SlotsInTable, RefusalsRemain, PowerStays
    PROVE  RefusalsRemain'
<1> SUFFICES ASSUME NEW q \in Process
             PROVE  /\ reply'[q] = "duplicate" => \E s \in Published' : slots'[s] = id'[q]
                    /\ reply'[q] = "capacity_exceeded" =>
                          SlotsOf(MaxClaims[q]) \subseteq Published'
  BY DEF RefusalsRemain
<1>1. Published \subseteq Published' /\ \A s \in Published : slots'[s] = slots[s]
  BY TableGrows
<1>2. ReplyEffect
  BY Replies
<1>3. CASE reply'[q] = reply[q] /\ id'[q] = id[q]
  BY <1>1, <1>3 DEF RefusalsRemain
<1>4. CASE reply'[q] \in {"none", "claimed", "ready", "unavailable"}
  BY <1>4
<1>5. CASE reply'[q] = "duplicate" /\ id'[q] = id[q] /\ \E s \in Published : slots[s] = id[q]
  BY <1>1, <1>5
<1>6. CASE /\ reply'[q] = "capacity_exceeded"
           /\ \/ SlotsOf(MaxClaims[q]) \subseteq occ[q]
              \/ PastMetadata(q) /\ TableFull(q)
  <2>1. occ[q] \subseteq Published
    BY DEF Core, MemoryTrue
  <2>2. CASE PastMetadata(q) /\ TableFull(q)
    <3>1. occ[q] \subseteq SlotsOf(MaxClaims[q])
      BY <2>1, <2>2 DEF SlotsInTable
    <3>2. occ[q] = SlotsOf(MaxClaims[q])
      BY <2>2, <3>1, FullTable DEF TableFull
    <3> QED
      BY <1>1, <1>6, <2>1, <3>2
  <2> QED
    BY <1>1, <1>6, <2>1, <2>2
<1> QED
  BY <1>2, <1>3, <1>4, <1>5, <1>6 DEF ReplyEffect

\* Without a fault the metadata, once written, is never lost or changed.
LEMMA CleanHistoryStep ==
    ASSUME TypeOK, Core, SlotsInTable, CleanHistory, PowerStays
    PROVE  CleanHistory'
<1> SUFFICES ASSUME faults' = 0
             PROVE  /\ torn' = {}
                    /\ Published' # {} => meta' # NoMetadata
                    /\ \A q \in Process :
                          /\ pc'[q] \in {"syncMetadata", "confirmMetadata"}
                                => meta' # NoMetadata
                          /\ reply'[q] = "unavailable"
                                => meta' \notin {MaxClaims[q], NoMetadata}
  BY DEF CleanHistory
<1>1. DiskEffect /\ FlowEffect /\ ReplyEffect
  BY Disk, Flow, Replies
<1>2. faults = 0 /\ ~(faults' > 0)
  BY <1>1 DEF DiskEffect, TypeOK
<1>3. torn = {} /\ torn' = {}
  BY <1>1, <1>2 DEF CleanHistory, DiskEffect
<1>4. /\ \A p \in Process : MaxClaims[p] \in Nat
      /\ NoMetadata \notin Nat /\ TornMetadata \notin Nat /\ NoMetadata # TornMetadata
  BY ConstantsAssumption
<1>5. meta # NoMetadata => meta' = meta
  BY <1>1, <1>2 DEF DiskEffect
<1>6. UNCHANGED disk => meta' = meta
  BY DEF disk
<1>7. Published' # {} => meta' # NoMetadata
  <2>1. CASE Published # {}
    BY <1>2, <1>5, <2>1 DEF CleanHistory
  <2>2. ASSUME NEW s \in Published' \ Published
        PROVE  meta' # NoMetadata
    <3>1. PICK p \in Process : PastMetadata(p) /\ UNCHANGED meta
      BY <2>2, TableGrows DEF PastMetadata
    <3>2. meta # NoMetadata
      BY <1>4, <3>1 DEF Core, CapacityAgreed
    <3> QED
      BY <3>1, <3>2
  <2> QED
    BY <2>1, <2>2
<1>8. ASSUME NEW q \in Process, pc'[q] \in {"syncMetadata", "confirmMetadata"}
      PROVE  meta' # NoMetadata
  <2>1. CASE pc[q] \in {"syncMetadata", "confirmMetadata"}
    BY <1>2, <1>5, <2>1 DEF CleanHistory
  <2>2. CASE Published # {}
    BY <1>2, <1>5, <2>2 DEF CleanHistory
  <2> QED
    BY <1>1, <1>8, <2>1, <2>2 DEF FlowEffect
<1>9. ASSUME NEW q \in Process, reply'[q] = "unavailable"
      PROVE  meta' \notin {MaxClaims[q], NoMetadata}
  <2>1. CASE reply'[q] = reply[q]
    BY <1>2, <1>5, <1>9, <2>1 DEF CleanHistory
  <2>2. CASE PastMetadata(q) /\ ~(Published \subseteq SlotsOf(MaxClaims[q]))
    BY <2>2 DEF SlotsInTable
  <2>3. CASE UNCHANGED disk /\ meta \notin {MaxClaims[q], NoMetadata}
    BY <1>6, <2>3
  <2>4. CASE UNCHANGED disk /\ meta # MaxClaims[q] /\ pc[q] = "confirmMetadata"
    BY <1>2, <1>6, <2>4 DEF CleanHistory
  <2> QED
    BY <1>1, <1>2, <1>3, <1>9, <2>1, <2>2, <2>3, <2>4 DEF ReplyEffect
<1> QED
  BY <1>3, <1>7, <1>8, <1>9

\* A loss of power forgets the answers, and frees slots but never moves one.
LEMMA PowerLossKeepsReasons ==
    ASSUME TypeOK, Core, Reasons, PowerLoss
    PROVE  Reasons'
<1>1. PICK kept \in SUBSET (Published \ durable) :
         slots' = [s \in Slot |-> IF s \in durable \cup kept
                                  THEN slots[s] ELSE NoIdentity]
  BY DEF PowerLoss
<1>2. Published' \subseteq Published
  BY <1>1 DEF Published
<1>3. meta' \in {meta, NoMetadata} /\ NoMetadata \notin Nat
  BY ConstantsAssumption DEF PowerLoss
<1>4. \A p \in Process : pc'[p] = "idle" /\ reply'[p] = "none"
  BY DEF PowerLoss
<1>5. faults' # 0
  BY DEF PowerLoss, TypeOK
<1>6. SlotsInTable'
  BY <1>2, <1>3, <1>4 DEF Reasons, SlotsInTable, OneTableSize, PastMetadata
<1>7. RefusalsRemain' /\ CleanHistory'
  BY <1>4, <1>5 DEF RefusalsRemain, CleanHistory
<1> QED
  BY <1>6, <1>7 DEF Reasons

\* The empty registry has refused nothing yet.
LEMMA InitReasons == Init => Reasons
<1> SUFFICES ASSUME Init PROVE Reasons
  OBVIOUS
<1>1. Published = {}
  BY DEF Init, Published
<1> QED
  BY <1>1, ConstantsAssumption
  DEF Init, Reasons, SlotsInTable, OneTableSize, PastMetadata, RefusalsRemain, CleanHistory

\* Every step keeps the parts about the other answers.
LEMMA ReasonsStep == TypeOK /\ Core /\ Reasons /\ [Next]_vars => Reasons'
<1> SUFFICES ASSUME TypeOK, Core, Reasons, [Next]_vars PROVE Reasons'
  OBVIOUS
<1>1. CASE PowerStays
  BY <1>1, SlotsInTableStep, RefusalsRemainStep, CleanHistoryStep DEF Reasons
<1>2. CASE PowerLoss
  BY <1>2, PowerLossKeepsReasons
<1> QED
  BY <1>1, <1>2 DEF Next, Environment, PowerStays

-----------------------------------------------------------------------------
(* The theorems. *)

\* The invariant TLC checks on small instances holds of every instance.
THEOREM InductiveInvariant == Spec => []IInv
<1>1. Init => IInv
  BY InitTypes, InitCore, InitReasons DEF IInv, Core, Reasons
<1>2. IInv /\ [Next]_vars => IInv'
  BY TypeStep, CoreStep, ReasonsStep DEF IInv, Core, Reasons
<1> QED
  BY <1>1, <1>2, PTL DEF Spec

\* No proposal identity is ever answered "claimed" twice: for any number of
\* processes, capacity, crash, damage, failed I/O and loss of power.
THEOREM GrantedAtMostOnce == Spec => []AtMostOneGrant
<1>1. IInv => AtMostOneGrant
  BY DEF IInv, GrantsSpent, AtMostOneGrant
<1> QED
  BY <1>1, InductiveInvariant, PTL

\* No two slots of the table ever hold the same identity.
THEOREM SlotsUnique == Spec => []OneSlotPerIdentity
<1>1. IInv => OneSlotPerIdentity
  BY DEF IInv
<1> QED
  BY <1>1, InductiveInvariant, PTL

\* A claim that was answered "claimed" is in a slot no loss of power removes.
THEOREM GrantsSurvivePowerLoss == Spec => []GrantedDurable
<1>1. IInv => GrantedDurable
  BY DEF IInv, GrantsSpent, GrantedDurable
<1> QED
  BY <1>1, InductiveInvariant, PTL

\* The table never holds a slot outside the size its metadata records.
THEOREM TableSizeKept == Spec => []OneTableSize
<1>1. IInv => OneTableSize
  BY DEF IInv, SlotsInTable
<1> QED
  BY <1>1, InductiveInvariant, PTL

\* Whoever was told "duplicate" or "capacity_exceeded" was told the truth.
THEOREM RefusalsAreJustified == Spec => []RefusalsJustified
<1>1. IInv => RefusalsJustified
  BY DEF IInv, RefusalsRemain, RefusalsJustified, Published
<1> QED
  BY <1>1, InductiveInvariant, PTL

\* No race, and no killed process, makes the registry "unavailable".
THEOREM UnavailableHasCause == Spec => []UnavailableNeedsCause
<1>1. IInv => UnavailableNeedsCause
  BY DEF IInv, TypeOK, CleanHistory, UnavailableNeedsCause
<1> QED
  BY <1>1, InductiveInvariant, PTL

-----------------------------------------------------------------------------
(* The registry implements ReplayClaims: initial states map to initial     *)
(* states, and each step to a step of the promise or to a stutter.         *)

\* What the promise sees of a process: the identity it waits for an answer on.
Asking == [p \in Process |-> IF pc[p] = "idle" THEN NoIdentity ELSE id[p]]

\* A step of the promise, as the registry's variables show it.
Shown ==
    \/ \E p \in Process, i \in Identity :
          /\ Asking[p] = NoIdentity
          /\ Asking' = [Asking EXCEPT ![p] = i]
          /\ UNCHANGED grants
    \/ \E p \in Process :
          /\ Asking[p] \in Identity \ {i \in Identity : grants[i] > 0}
          /\ Cardinality({i \in Identity : grants[i] > 0}) < MaxClaims[p]
          /\ grants' = [grants EXCEPT ![Asking[p]] = 1]
          /\ Asking' = [Asking EXCEPT ![p] = NoIdentity]
    \/ \E p \in Process :
          /\ Asking[p] \in Identity
          /\ Asking' = [Asking EXCEPT ![p] = NoIdentity]
          /\ UNCHANGED grants
    \/ Asking' = [p \in Process |-> NoIdentity] /\ UNCHANGED grants
    \/ UNCHANGED <<Asking, grants>>

\* The steps shown are those of the promise.
LEMMA ShownIsPromised == Shown => [Promise!Next]_(Promise!vars)
<1> SUFFICES ASSUME Shown PROVE Promise!Next \/ UNCHANGED Promise!vars
  OBVIOUS
<1>1. ASSUME NEW p \in Process, NEW i \in Identity,
             Asking[p] = NoIdentity, Asking' = [Asking EXCEPT ![p] = i],
             UNCHANGED grants
      PROVE  Promise!Next
  <2>1. Promise!Ask(p, i)
    BY <1>1 DEF Promise!Ask, Asking
  <2> QED
    BY <2>1 DEF Promise!Next
<1>2. ASSUME NEW p \in Process,
             Asking[p] \in Identity \ {i \in Identity : grants[i] > 0},
             Cardinality({i \in Identity : grants[i] > 0}) < MaxClaims[p],
             grants' = [grants EXCEPT ![Asking[p]] = 1],
             Asking' = [Asking EXCEPT ![p] = NoIdentity]
      PROVE  Promise!Next
  <2>1. Promise!Grant(p)
    <3>1. Promise!Granted = {i \in Identity : grants[i] > 0}
      BY DEF Promise!Granted
    <3>2. /\ Asking[p] \in Identity \ Promise!Granted
          /\ Promise!Cardinality(Promise!Granted) < MaxClaims[p]
      BY <1>2, <3>1 DEF Promise!Cardinality, Cardinality
    <3> QED
      BY <1>2, <3>2 DEF Promise!Grant, Asking
  <2> QED
    BY <2>1 DEF Promise!Next
<1>3. ASSUME NEW p \in Process,
             Asking[p] \in Identity, Asking' = [Asking EXCEPT ![p] = NoIdentity],
             UNCHANGED grants
      PROVE  Promise!Next
  <2>1. Promise!Refuse(p)
    BY <1>3 DEF Promise!Refuse, Asking
  <2> QED
    BY <2>1 DEF Promise!Next
<1>4. CASE Asking' = [p \in Process |-> NoIdentity] /\ UNCHANGED grants
  <2>1. Promise!PowerLoss
    BY <1>4 DEF Promise!PowerLoss, Asking
  <2> QED
    BY <2>1 DEF Promise!Next
<1>5. CASE UNCHANGED <<Asking, grants>>
  BY <1>5 DEF Promise!vars, Asking
<1> QED
  BY <1>1, <1>2, <1>3, <1>4, <1>5 DEF Shown

\* A step within an operation asks and answers nothing.
LEMMA GoingOnShowsNothing ==
    ASSUME NEW p \in Process, NEW label \in Labels \ {"idle"}, TypeOK,
           pc[p] # "idle", Goto(p, label), UNCHANGED id
    PROVE  UNCHANGED <<Asking, grants>>
<1>1. \A q \in Process : (pc'[q] = "idle") <=> (pc[q] = "idle")
  BY DEF TypeOK, Goto
<1>2. Asking' = Asking
  BY <1>1 DEF Asking
<1> QED
  BY <1>2 DEF Goto

\* Any answer but "claimed", and the death of the caller, is a refusal.
LEMMA AnswerShowsRefusal ==
    ASSUME NEW p \in Process, NEW answer, TypeOK, pc[p] # "idle",
           Answer(p, answer), UNCHANGED grants
    PROVE  Shown
<1>1. id[p] \in Identity \cup {NoIdentity} /\ Asking[p] = id[p]
  BY DEF TypeOK, Asking
<1>2. \A q \in Process : Asking'[q] = IF q = p THEN NoIdentity ELSE Asking[q]
  BY DEF TypeOK, Asking, Answer
<1>3. Asking' = [Asking EXCEPT ![p] = NoIdentity]
  BY <1>2 DEF Asking
<1>4. CASE id[p] \in Identity
  BY <1>1, <1>3, <1>4 DEF Shown
<1>5. CASE id[p] = NoIdentity
  <2>1. Asking' = Asking
    BY <1>1, <1>3, <1>5 DEF Asking
  <2> QED
    BY <2>1 DEF Shown
<1> QED
  BY <1>1, <1>4, <1>5

\* The granted identities sit in as many slots of the table, and the slot of a
\* grant under way is none of them: there are fewer than the table has slots.
LEMMA GrantedFit ==
    ASSUME NEW p \in Process, TypeOK, Core, SlotsInTable, pc[p] = "verify"
    PROVE  /\ Cardinality({i \in Identity : grants[i] > 0}) < MaxClaims[p]
           /\ id[p] \in Identity /\ grants[id[p]] = 0
<1> DEFINE Grants == {i \in Identity : grants[i] > 0}
           Table == SlotsOf(MaxClaims[p])
           place == [i \in Grants |-> CHOOSE s \in durable :
                        slots[s] = i /\ \A q \in Process : s \notin mine[q]]
<1>1. PICK t \in mine[p] : t \in durable /\ slots[t] = id[p] /\ id[p] \in Identity
  BY DEF Core, MineTrue
<1>2. Published \subseteq Table /\ durable \subseteq Published
  BY DEF Core, SlotsInTable, PastMetadata
<1>3. \A i \in Grants : /\ place[i] \in durable /\ slots[place[i]] = i
                        /\ \A q \in Process : place[i] \notin mine[q]
  BY DEF Core, GrantsSpent
<1>4. id[p] \notin Grants
  <2>1. SUFFICES ASSUME id[p] \in Grants PROVE FALSE
    OBVIOUS
  <2>2. place[id[p]] = t
    BY <1>1, <1>2, <1>3, <2>1 DEF Core, OneSlotPerIdentity
  <2> QED
    BY <1>1, <1>3, <2>1, <2>2
<1>5. place \in Injection(Grants, Table \ {t})
  <2>1. \A i \in Grants : place[i] \in Table \ {t}
    BY <1>1, <1>2, <1>3
  <2>2. place \in [Grants -> Table \ {t}]
    BY <2>1
  <2>3. \A i, j \in Grants : place[i] = place[j] => i = j
    BY <1>3
  <2> HIDE DEF place, Grants, Table
  <2> QED
    BY <2>2, <2>3 DEF Injection, IsInjective
<1>6. MaxClaims[p] \in Nat \ {0}
  BY ConstantsAssumption
<1>7. IsFiniteSet(Table) /\ Cardinality(Table) = MaxClaims[p]
  BY <1>6, TableSize
<1>8. /\ IsFiniteSet(Table \ {t})
      /\ Cardinality(Table \ {t}) = MaxClaims[p] - 1
  BY <1>1, <1>2, <1>7, FS_RemoveElement
<1> HIDE DEF place, Grants, Table
<1>9. IsFiniteSet(Grants) /\ Cardinality(Grants) <= MaxClaims[p] - 1
  BY <1>5, <1>8, FS_Injection
<1>10. Cardinality(Grants) \in Nat
  BY <1>9, FS_CardinalityType
<1>11. Cardinality(Grants) < MaxClaims[p]
  BY <1>6, <1>9, <1>10
<1>12. grants[id[p]] = 0
  BY <1>1, <1>4 DEF Grants, TypeOK
<1> QED
  BY <1>1, <1>11, <1>12 DEF Grants

\* Every step of the registry is a step of its promise or shows nothing.
LEMMA StepsShown ==
    ASSUME TypeOK, Core, SlotsInTable, [Next]_vars
    PROVE  Shown
<1>0. \A q \in Process : pc[q] # "idle" => Asking[q] = id[q]
  BY DEF Asking
<1>1. ASSUME NEW p \in Process, NEW i \in Identity \cup {NoIdentity}, Call(p, i)
      PROVE  Shown
  <2>1. Asking[p] = NoIdentity
    BY <1>1 DEF Call, Asking
  <2>2. \A q \in Process : Asking'[q] = IF q = p THEN i ELSE Asking[q]
    BY <1>1 DEF Call, Asking, TypeOK
  <2>3. Asking' = [Asking EXCEPT ![p] = i] /\ UNCHANGED grants
    BY <1>1, <2>2 DEF Call, Asking
  <2>4. CASE i = NoIdentity
    <3>1. Asking' = Asking
      BY <2>1, <2>3, <2>4 DEF Asking
    <3> QED
      BY <2>3, <3>1 DEF Shown
  <2> QED
    BY <2>1, <2>3, <2>4 DEF Shown
<1>2. ASSUME NEW p \in Process, Step(p)
      PROVE  Shown
  <2> DEFINE GoesOn == \E label \in Labels \ {"idle"} : Goto(p, label) /\ UNCHANGED id
             Refuses == \E answer : Answer(p, answer) /\ UNCHANGED grants
             Grants == pc[p] = "verify" /\ Answer(p, "claimed")
                         /\ grants' = [grants EXCEPT ![id[p]] = @ + 1]
             Notes == UNCHANGED <<pc, id, grants>>
  <2>1. pc[p] # "idle" /\ (GoesOn \/ Refuses \/ Grants \/ Notes)
    <3>1. CASE PrepareDirectory(p) \/ ContainsOnlyStaging(p) \/ PublishMetadata(p)
                 \/ SyncMetadata(p) \/ PublicationSupported(p) \/ OpenDirectory(p)
                 \/ SyncSlot(p)
      BY <3>1
      DEF PrepareDirectory, ContainsOnlyStaging, PublishMetadata, SyncMetadata,
          PublicationSupported, OpenDirectory, SyncSlot, Labels, locals
    <3>2. CASE InspectMetadata(p) \/ ConfirmMetadata(p) \/ ScanEnd(p) \/ ProbesExhausted(p)
      BY <3>2
      DEF InspectMetadata, ConfirmMetadata, ScanEnd, ProbesExhausted, Proceed, Labels, locals
    <3>3. ASSUME NEW s \in Slot, ScanEntry(p, s)
          PROVE  pc[p] # "idle" /\ (GoesOn \/ Refuses \/ Grants \/ Notes)
      BY <3>3 DEF ScanEntry, NoteOccupied
    <3>4. ASSUME NEW s \in Slot, PublishSlot(p, s)
          PROVE  pc[p] # "idle" /\ (GoesOn \/ Refuses \/ Grants \/ Notes)
      BY <3>4 DEF PublishSlot, NoteOccupied, Labels
    <3>5. CASE VerifySlot(p)
      BY <3>5 DEF VerifySlot
    <3> QED
      BY <1>2, <3>1, <3>2, <3>3, <3>4, <3>5 DEF Step
  <2>2. CASE GoesOn
    <3>1. UNCHANGED <<Asking, grants>>
      BY <2>1, <2>2, GoingOnShowsNothing
    <3> QED
      BY <3>1 DEF Shown
  <2>3. CASE Refuses
    BY <2>1, <2>3, AnswerShowsRefusal
  <2>4. CASE Grants
    <3>1. /\ Cardinality({i \in Identity : grants[i] > 0}) < MaxClaims[p]
          /\ id[p] \in Identity /\ grants[id[p]] = 0
      BY <2>4, GrantedFit
    <3>2. Asking[p] = id[p]
      BY <1>0, <2>4
    <3>3. \A q \in Process : Asking'[q] = IF q = p THEN NoIdentity ELSE Asking[q]
      BY <2>4 DEF TypeOK, Asking, Answer
    <3>4. Asking' = [Asking EXCEPT ![p] = NoIdentity]
      BY <3>3 DEF Asking
    <3>5. grants' = [grants EXCEPT ![Asking[p]] = 1]
      BY <2>4, <3>1, <3>2 DEF TypeOK
    <3>6. Asking[p] \in Identity \ {i \in Identity : grants[i] > 0}
      BY <3>1, <3>2
    <3> QED
      BY <3>1, <3>4, <3>5, <3>6 DEF Shown
  <2>5. CASE Notes
    <3>1. UNCHANGED <<Asking, grants>>
      BY <2>5 DEF Asking
    <3> QED
      BY <3>1 DEF Shown
  <2> QED
    BY <2>1, <2>2, <2>3, <2>4, <2>5
<1>3. ASSUME NEW p \in Process, IOFailure(p) \/ Crash(p)
      PROVE  Shown
  BY <1>3, AnswerShowsRefusal DEF IOFailure, Crash
<1>4. CASE PowerLoss
  <2>1. Asking' = [p \in Process |-> NoIdentity] /\ UNCHANGED grants
    BY <1>4 DEF PowerLoss, Asking
  <2> QED
    BY <2>1 DEF Shown
<1>5. CASE TearMetadata \/ (\E s \in Slot : Tear(s)) \/ UNCHANGED vars
  <2>1. UNCHANGED <<pc, id, grants>>
    BY <1>5 DEF TearMetadata, Tear, vars, locals
  <2>2. UNCHANGED <<Asking, grants>>
    BY <2>1 DEF Asking
  <2> QED
    BY <2>2 DEF Shown
<1> QED
  BY <1>1, <1>2, <1>3, <1>4, <1>5 DEF Next, Environment

\* The registry implements what ReplayClaims promises: one answer to each
\* claim, "claimed" at most once for an identity, and never more claims than
\* the capacity of the process that is answered.
THEOREM RegistryKeepsPromise == Spec => ImplementsReplayClaims
<1>1. Init => Promise!Init
  BY DEF Init, Promise!Init
<1>2. TypeOK /\ Core /\ SlotsInTable /\ [Next]_vars => [Promise!Next]_(Promise!vars)
  BY StepsShown, ShownIsPromised
<1>3. IInv => TypeOK /\ Core /\ SlotsInTable
  BY DEF IInv, Core
<1> QED
  BY <1>1, <1>2, <1>3, InductiveInvariant, PTL DEF Spec, ImplementsReplayClaims, Promise!Spec
=============================================================================
