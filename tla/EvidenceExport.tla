--------------------------- MODULE EvidenceExport ---------------------------
(***************************************************************************)
(* packages/cloud-client/client.ts, exportEvidence and verifyEvidenceChain:*)
(* the evidence of an organization is fetched page by page while the Cloud *)
(* goes on appending to it, and the result is verified.  A page can come   *)
(* from a replica that lags behind, be cut short, or point to a next page  *)
(* the client has had; and the Cloud can be restored from a backup and     *)
(* continue differently.                                                   *)
(*                                                                         *)
(* Abstractions.  A record is its hash, the hash before it, its number and *)
(* its release; the hash of a record is never forged.  There is one        *)
(* organization.  The time limit is a failure that can come at any page.   *)
(***************************************************************************)
EXTENDS Integers, Sequences, FiniteSets, SequencesExt

CONSTANTS
    PageSize,       \* records on a page (200)
    MaxPages,       \* MAX_EVIDENCE_EXPORT_PAGES
    MaxRecords,     \* MAX_EVIDENCE_EXPORT_RECORDS
    Release,
    None,           \* no filter, no further page, no first record
    MaxAppends      \* bound: records the Cloud ever stores

\* What the theorems assume of the constants: the bounds are numbers and admit the
\* records there are at first, and None is none of the values it stands in for.
Distinct ==
    /\ PageSize \in Nat /\ MaxPages \in Nat /\ MaxRecords \in Nat
    /\ MaxAppends \in Nat /\ MaxAppends >= 3
    /\ None \notin Release \cup Int

VARIABLES
    chain,          \* the Cloud's records
    seen,           \* the chains there have been since the export began
    stored,         \* records stored so far: the next hash
    releaseFilter,
    cursor, pages, records, first, last,    \* the client's variables
    outcome         \* of the export

vars == <<chain, seen, stored, releaseFilter, cursor, pages, records, first, last, outcome>>
client == <<cursor, pages, records, first, last>>

-----------------------------------------------------------------------------
(* The Cloud                                                                *)

HashBefore(c) == IF c = <<>> THEN None ELSE Last(c).hash

Grow ==
    /\ outcome = "fetching" /\ stored < MaxAppends
    /\ \E r \in Release :
          chain' = Append(chain, [hash |-> stored + 1, previous |-> HashBefore(chain),
                                  sequence |-> Len(chain), release |-> r])
    /\ seen' = seen \cup {chain'}
    /\ stored' = stored + 1
    /\ UNCHANGED <<releaseFilter, client, outcome>>

\* The last record is lost with the storage that held it.
Restore ==
    /\ outcome = "fetching" /\ chain # <<>>
    /\ chain' = Front(chain)
    /\ seen' = seen \cup {chain'}
    /\ UNCHANGED <<stored, releaseFilter, client, outcome>>

\* The records after the cursor, a page of them at most.
AfterCursor(c) ==
    SubSeq(c, cursor + 2, IF Len(c) < cursor + 1 + PageSize THEN Len(c) ELSE cursor + 1 + PageSize)

\* A page of one of the chains; its end may be mistaken for the end of the
\* chain, its next page be the same one again, and every record be marked as
\* one of the wanted release.
Page ==
    {[records |-> AfterCursor(c),
      first |-> IF c = <<>> THEN None ELSE 0,
      last |-> IF c = <<>> THEN None ELSE Len(c) - 1,
      next |-> n, marked |-> m] :
        c \in seen, n \in {None, cursor, cursor + PageSize}, m \in BOOLEAN}

-----------------------------------------------------------------------------
(* The client                                                               *)

Stop(why) == outcome' = why /\ UNCHANGED client

\* One turn of the loop of exportEvidence.
Fetch ==
    /\ outcome = "fetching"
    /\ pages < MaxPages
    /\ \E page \in Page :
       IF \/ pages > 0 /\ (page.first # first \/ page.last # last)
          \/ Len(records) + Len(page.records) > MaxRecords
       THEN Stop("failed")
       ELSE IF page.next # None /\ page.next <= cursor
       THEN Stop("failed")
       ELSE /\ pages' = pages + 1
            /\ first' = page.first /\ last' = page.last
            /\ records' = records \o [n \in DOMAIN page.records |->
                   [record |-> page.records[n],
                    included |-> page.marked \/ releaseFilter \in {None, page.records[n].release}]]
            /\ IF page.next = None
               THEN outcome' = "exported" /\ UNCHANGED cursor
               ELSE cursor' = page.next /\ UNCHANGED outcome
    /\ UNCHANGED <<chain, seen, stored, releaseFilter>>

\* Too many pages, too long a time, a request that fails.
GiveUp ==
    /\ outcome = "fetching"
    /\ Stop("failed")
    /\ UNCHANGED <<chain, seen, stored, releaseFilter>>

\* fault: where the chain ends is not compared with what was announced
ChainVerifiesOpenEnded ==
    IF records = <<>> THEN first = None /\ last = None
    ELSE /\ records[1].record.sequence = 0 /\ first = 0
         /\ \A n \in DOMAIN records :
               /\ records[n].record.sequence = n - 1
               /\ records[n].record.previous =
                     IF n = 1 THEN None ELSE records[n - 1].record.hash
               /\ records[n].included <=>
                     releaseFilter \in {None, records[n].record.release}
         /\ releaseFilter # None => \E n \in DOMAIN records : records[n].included

\* verifyEvidenceChain
ChainVerifies ==
    IF records = <<>> THEN first = None /\ last = None
    ELSE /\ records[1].record.sequence = 0 /\ first = 0
         /\ last = Last(records).record.sequence
         /\ \A n \in DOMAIN records :
               /\ records[n].record.sequence = n - 1
               /\ records[n].record.previous =
                     IF n = 1 THEN None ELSE records[n - 1].record.hash
               /\ records[n].included <=>
                     releaseFilter \in {None, records[n].record.release}
         /\ releaseFilter # None => \E n \in DOMAIN records : records[n].included

Verify ==
    /\ outcome = "exported"
    /\ outcome' = IF ChainVerifies THEN "verified" ELSE "failed"
    /\ UNCHANGED <<chain, seen, stored, releaseFilter, client>>

Init ==
    /\ releaseFilter \in Release \cup {None}
    /\ \E n \in {0, 3} : \E r \in [1 .. n -> Release] :
          /\ chain = [i \in 1 .. n |-> [hash |-> i, previous |-> IF i = 1 THEN None ELSE i - 1,
                                        sequence |-> i - 1, release |-> r[i]]]
          /\ stored = n
    /\ seen = {chain}
    /\ cursor = -1 /\ pages = 0 /\ records = <<>> /\ first = None /\ last = None
    /\ outcome = "fetching"

Next == Grow \/ Restore \/ Fetch \/ GiveUp \/ Verify

Spec == Init /\ [][Next]_vars

-----------------------------------------------------------------------------
(* Properties                                                               *)

TypeOK ==
    /\ outcome \in {"fetching", "exported", "verified", "failed"}
    /\ cursor + 1 \in Nat /\ pages \in 0 .. MaxPages
    /\ Len(records) <= MaxRecords /\ stored \in 0 .. MaxAppends
    /\ chain \in seen

\* An export that verifies is the whole evidence of one moment during the
\* export, not a mixture of what pages of different moments showed, and marks
\* the records of the wanted release.
ExportIsWhole ==
    outcome = "verified" =>
        /\ [n \in DOMAIN records |-> records[n].record] \in seen
        /\ releaseFilter # None =>
              {n \in DOMAIN records : records[n].included} =
                 {n \in DOMAIN records : records[n].record.release = releaseFilter}

=============================================================================
