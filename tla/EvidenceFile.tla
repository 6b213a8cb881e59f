---------------------------- MODULE EvidenceFile ----------------------------
(***************************************************************************)
(* apps/cli/ros2.ts and packages/core/evidence.ts: the file that           *)
(* FileEvidenceSink replaces with a longer chain at every append, and the  *)
(* one in which PrivateResultFile keeps the last result.  Both reserve the *)
(* path once and then write a temporary file, rename it and synchronise    *)
(* the directory; each of these can fail, the process can be killed        *)
(* between them, and the power can go, which undoes a rename the directory *)
(* does not have on disk yet.                                              *)
(*                                                                         *)
(* Abstractions.  An entry is what the chain checks of it: its number, the *)
(* one before it, when it was decided, where it ends in the file.  A file  *)
(* has no header.  The directories above it exist and are on disk.         *)
(***************************************************************************)
EXTENDS Integers, Sequences, FiniteSets, SequencesExt

CONSTANTS
    MaxBytes, Reserve,  \* the limits of the sink; no record exceeds Reserve
    MaxAppends,         \* bound: writes asked for, over all processes
    MaxTime,            \* bound: the times decisions are made at
    None, Torn          \* no file, a file whose bytes were lost

\* What the theorems assume of the constants: the bounds are numbers, and neither a
\* missing file nor a torn one is a chain of entries.
Entry == [id : Nat, sequence : Nat, at : Nat, end : Nat, previous : Nat]
Distinct ==
    /\ MaxBytes \in Nat /\ Reserve \in Nat /\ MaxAppends \in Nat /\ MaxTime \in Nat
    /\ None # Torn /\ None \notin Seq(Entry) /\ Torn \notin Seq(Entry)

VARIABLES
    kind,               \* a chain, or a last result
    step,               \* where the process is
    entries,            \* the entries in memory
    pending,            \* the contents being written
    room,               \* assertWritableBeforeDispatch said yes to this write
    temporary,          \* the temporary file: whether its bytes are on disk
    file, before,       \* the file as seen; what a loss of power may bring back
    said,               \* the entries whose write was reported as done
    refused,            \* an entry was refused for want of room after a yes
    asked               \* writes asked for

vars == <<kind, step, entries, pending, room, temporary, file, before, said, refused, asked>>
disk == <<temporary, file, before>>

\* The size of the file that holds the chain.
Bytes(chain) == IF chain = <<>> THEN 0 ELSE Last(chain).end

-----------------------------------------------------------------------------
(* The chain                                                                *)

\* appendEvidence: the next number, linked to the last entry.
AppendEvidence(chain, id, at, size) ==
    Append(chain, [id |-> id, sequence |-> Len(chain), at |-> at, end |-> Bytes(chain) + size,
                   previous |-> IF chain = <<>> THEN 0 ELSE Last(chain).id])

\* verifyEvidenceBundle: not empty, linked, and never back in time.
Verifies(chain) ==
    /\ chain # <<>>
    /\ \A n \in DOMAIN chain :
          /\ chain[n].sequence = n - 1
          /\ chain[n].previous = IF n = 1 THEN 0 ELSE chain[n - 1].id
          /\ n > 1 => chain[n - 1].at <= chain[n].at

-----------------------------------------------------------------------------
(* Writing                                                                  *)

\* reservePrivateOutput: only a path that is not there yet.
ReserveOutput ==
    /\ step = "start"
    /\ IF file = None
       THEN file' = <<>> /\ before' = {None} /\ step' = "reserved"
       ELSE step' = "dead" /\ UNCHANGED <<file, before>>
    /\ UNCHANGED <<kind, entries, pending, room, temporary, said, refused, asked>>

\* assertWritableBeforeDispatch
AssertWritable ==
    /\ kind = "chain" /\ step = "idle"
    /\ room' = (Bytes(entries) <= MaxBytes - Reserve)
    /\ UNCHANGED <<kind, step, entries, pending, disk, said, refused, asked>>

\* append and write: the chain with the new entry must verify and fit; a
\* result stands alone.
Ask ==
    /\ step = "idle" /\ asked < MaxAppends
    /\ asked' = asked + 1
    /\ \E at \in 1 .. MaxTime, size \in 1 .. Reserve :
       LET chain == AppendEvidence(IF kind = "chain" THEN entries ELSE <<>>, asked', at, size)
           fits == kind = "result" \/ Bytes(chain) <= MaxBytes
       IN
       /\ IF Verifies(chain) /\ fits
          THEN pending' = chain /\ step' = "write"
          ELSE UNCHANGED <<pending, step>>
       /\ refused' = (refused \/ (room /\ ~fits))
    /\ room' = FALSE
    /\ UNCHANGED <<kind, entries, disk, said>>

\* The temporary file is created and written, then synchronised.
WriteTemporary ==
    /\ step = "write"
    /\ temporary' = "written"
    /\ step' = "fsync"
    /\ UNCHANGED <<kind, entries, pending, room, file, before, said, refused, asked>>

SyncTemporary ==
    /\ step = "fsync"
    /\ temporary' = "synced"
    /\ step' = "rename"
    /\ UNCHANGED <<kind, entries, pending, room, file, before, said, refused, asked>>

\* The bytes of a file that was not synchronised do not survive with its name.
Rename ==
    /\ step = "rename"
    /\ file' = pending
    /\ before' = before \cup {file} \cup (IF temporary = "synced" THEN {} ELSE {Torn})
    /\ temporary' = "none"
    /\ step' = "sync"
    /\ UNCHANGED <<kind, entries, pending, room, said, refused, asked>>

\* fault: the caller hears of it before the directory is synchronised
AcknowledgeEarly ==
    /\ step \in {"reserved", "sync"}
    /\ step' = "idle"
    /\ IF step = "sync"
       THEN /\ entries' = pending
            /\ said' = IF kind = "chain" THEN Append(said, Last(pending)) ELSE pending
            /\ pending' = <<>>
       ELSE UNCHANGED <<entries, said, pending>>
    /\ UNCHANGED <<kind, room, temporary, file, before, refused, asked>>

\* synchronizeDirectory, after which the sink takes the entry into memory and
\* the caller hears of it.
Synchronise ==
    /\ step \in {"reserved", "sync"}
    /\ before' = {}
    /\ step' = "idle"
    /\ IF step = "sync"
       THEN /\ entries' = pending
            /\ said' = IF kind = "chain" THEN Append(said, Last(pending)) ELSE pending
            /\ pending' = <<>>
       ELSE UNCHANGED <<entries, said, pending>>
    /\ UNCHANGED <<kind, room, temporary, file, refused, asked>>

\* A step of the write throws: the temporary file is removed, the memory is
\* as before, the file may already be the new one.  A constructor that throws
\* ends the process.
Fails ==
    /\ step \in {"reserved", "write", "fsync", "rename", "sync"}
    /\ step' = IF step = "reserved" THEN "dead" ELSE "idle"
    /\ temporary' = "none" /\ pending' = <<>>
    /\ UNCHANGED <<kind, entries, room, file, before, said, refused, asked>>

-----------------------------------------------------------------------------
(* Faults                                                                   *)

Forget == entries' = <<>> /\ pending' = <<>> /\ room' = FALSE /\ temporary' = "none"

Kill ==
    /\ step # "dead"
    /\ step' = "dead" /\ Forget
    /\ UNCHANGED <<kind, file, before, said, refused, asked>>

PowerLoss ==
    /\ step' = "dead" /\ Forget
    /\ \E found \in before \cup {file} : file' = found
    /\ before' = {}
    /\ <<step, before>> # <<"dead", {}>>
    /\ UNCHANGED <<kind, said, refused, asked>>

\* Another process is given the same path.
Restart ==
    /\ step = "dead"
    /\ step' = "start"
    /\ UNCHANGED <<kind, entries, pending, room, disk, said, refused, asked>>

Init ==
    /\ kind \in {"chain", "result"}
    /\ step = "start" /\ entries = <<>> /\ pending = <<>> /\ room = FALSE
    /\ temporary = "none" /\ file = None /\ before = {}
    /\ said = <<>> /\ refused = FALSE /\ asked = 0

Next ==
    \/ ReserveOutput \/ AssertWritable \/ Ask \/ WriteTemporary
    \/ SyncTemporary \/ Rename
    \/ Synchronise \/ Fails \/ Kill \/ PowerLoss \/ Restart

Spec == Init /\ [][Next]_vars

-----------------------------------------------------------------------------
(* Properties                                                               *)

TypeOK ==
    /\ step \in {"start", "reserved", "idle", "write", "fsync", "rename", "sync", "dead"}
    /\ temporary \in {"none", "written", "synced"}
    /\ room \in BOOLEAN /\ refused \in BOOLEAN /\ asked \in 0 .. MaxAppends

\* What was reported as written is in the file, whatever failed or crashed
\* since: every such entry of a chain, in order (entries whose write failed
\* may or may not be there), or the last such result or one that was asked
\* for after it; the file verifies.  And a record is not refused for want of
\* room when assertWritableBeforeDispatch has just found room for it.
EvidenceKept ==
    /\ ~refused
    /\ \A found \in {file} \cup before :
        /\ found \notin {None, Torn, <<>>} => Verifies(found)
        /\ found # Torn
        /\ said # <<>> =>
             /\ found \notin {None, <<>>}
             /\ IF kind = "chain" THEN IsPrefix(said, found)
                ELSE Last(found).id >= Last(said).id

=============================================================================
