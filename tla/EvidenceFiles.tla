---------------------------- MODULE EvidenceFiles ----------------------------
(***************************************************************************)
(* Supporting documents and their bytes (backend/documents/services:       *)
(* document, extraction, retention; shared/services/orphaned_files and     *)
(* shared/storage; the claim's clock in users/models).                     *)
(*                                                                         *)
(* The storage takes no part in a transaction: a file is written before    *)
(* its row commits and deleted after.  Row locks are held from the read    *)
(* under lock to the commit, across the storage's calls.  One claim takes  *)
(* the documents.                                                          *)
(***************************************************************************)
EXTENDS Naturals, FiniteSets

CONSTANTS
    Documents,
    MaxCopies,  \* bound: copies made of a document into retained storage
    Workers,    \* concurrent requests, jobs and sweeps
    None        \* no document

FileAssumption == MaxCopies \in Nat \ {0} /\ None \notin Documents

VARIABLES
    document,   \* Document rows, with their DocumentExtraction rows
    claim,      \* the InvestorClassification they may be attached to
    storage,    \* external: private storage
    worker      \* what each worker carries

vars == <<document, claim, storage, worker>>

-----------------------------------------------------------------------------
(* Every write makes a fresh name: <<d, 0>> for the upload of d, under       *)
(* documents/, and <<d, n>> for its n-th copy, under users/.                 *)

Numbers == 0..MaxCopies
Files == Documents \X Numbers

\* SWEPT_STORAGE_PREFIXES, RETAINED_STORAGE_PREFIXES
Swept == Documents \X {0}

\* A file is old a day after its last write; a name is never written twice.
Ages == {"none", "fresh", "old", "gone"}

Document ==
    [row : BOOLEAN,             \* committed, and not deleted
     file : Numbers,
     attached : BOOLEAN,        \* classification is set
     aged : BOOLEAN,            \* past the age of unattached documents
     purged : BOOLEAN,          \* purged_at is set
     running : SUBSET Workers,  \* RUNNING extractions, each of the run that made it
     extracted : BOOLEAN]       \* an extraction holds content

NoDocument ==
    [row |-> FALSE, file |-> 0, attached |-> FALSE, aged |-> FALSE, purged |-> FALSE,
     running |-> {}, extracted |-> FALSE]

\* "ended" stands for rejected, revoked and withdrawn.
Claim ==
    [status : {"submitted", "verified", "ended"},
     past : BOOLEAN,            \* past evidence_horizon
     ran : BOOLEAN]             \* ghost: it has been past it

Idle == [pc |-> "idle", document |-> None, copy |-> 0, names |-> {}, settled |-> {}, seen |-> "none"]

Goto(w, pc) == worker' = [worker EXCEPT ![w].pc = pc]
Finish(w) == worker' = [worker EXCEPT ![w] = Idle]

\* storage.exists
Stored(f) == storage[f] \in {"fresh", "old"}

\* retention_due
Due(d) ==
    /\ document[d].row /\ ~document[d].purged
    /\ IF document[d].attached THEN claim.past ELSE document[d].aged

\* content_available
Available(d) == document[d].row /\ ~document[d].purged /\ ~Due(d)

\* select_for_update would have to wait.
Locked(d) == \E w \in Workers : worker[w].document = d /\ worker[w].pc \in {"attach", "purge"}
ClaimLocked ==
    \E w \in Workers :
        \/ worker[w].pc = "attach"
        \/ worker[w].pc = "purge" /\ document[worker[w].document].attached

\* The files whose rows have yet to commit.
Uncommitted ==
    {<<worker[w].document, 0>> : w \in {v \in Workers : worker[v].pc \in {"upload", "attach"}}}
      \cup {<<worker[w].document, worker[w].copy>> : w \in {v \in Workers : worker[v].pc = "attach"}}

-----------------------------------------------------------------------------
(* Documents.                                                              *)

\* create_document: saving the row writes the file; the commit comes later.
Upload(w, d) ==
    /\ worker[w] = Idle
    /\ document[d] = NoDocument
    /\ storage[<<d, 0>>] = "none"
    /\ storage' = [storage EXCEPT ![<<d, 0>>] = "fresh"]
    /\ worker' = [worker EXCEPT ![w] = [Idle EXCEPT !.pc = "upload", !.document = d]]
    /\ UNCHANGED <<document, claim>>

CommitUpload(w) ==
    /\ worker[w].pc = "upload"
    /\ document' = [document EXCEPT ![worker[w].document] = [NoDocument EXCEPT !.row = TRUE]]
    /\ Finish(w)
    /\ UNCHANGED <<claim, storage>>

\* Rolled back, or the process dies: the file stays behind.
FailUpload(w) ==
    /\ worker[w].pc = "upload"
    /\ Finish(w)
    /\ UNCHANGED <<document, claim, storage>>

\* attach_document up to its copy, of a committed document or within the
\* transaction that creates it.
Attach(w, d, n) ==
    /\ \/ worker[w] = Idle /\ Available(d) /\ ~document[d].attached /\ ~Locked(d)
       \/ worker[w].pc = "upload" /\ worker[w].document = d
    /\ Stored(<<d, document[d].file>>)
    /\ ~ClaimLocked
    /\ claim.status = "submitted"
    /\ n # 0 /\ storage[<<d, n>>] = "none"
    /\ storage' = [storage EXCEPT ![<<d, n>>] = "fresh"]
    /\ worker' = [worker EXCEPT ![w] = [Idle EXCEPT !.pc = "attach", !.document = d, !.copy = n]]
    /\ UNCHANGED <<document, claim>>

\* Mutant: the obsolete upload goes with the copy, before the commit.
CommitAttach_Early(w, cleaned) ==
    LET d == worker[w].document IN
    /\ worker[w].pc = "attach"
    /\ \/ document' = [document EXCEPT ![d].row = TRUE, ![d].file = worker[w].copy, ![d].attached = TRUE]
       \/ UNCHANGED document
    /\ storage' = IF cleaned THEN [storage EXCEPT ![<<d, 0>>] = "gone"] ELSE storage
    /\ Finish(w)
    /\ UNCHANGED claim

\* The row names the copy; _delete_obsolete_upload runs on commit, and may
\* fail or never run.
CommitAttach(w, cleaned) ==
    LET d == worker[w].document IN
    /\ worker[w].pc = "attach"
    /\ document' = [document EXCEPT ![d].row = TRUE, ![d].file = worker[w].copy, ![d].attached = TRUE]
    /\ storage' = IF cleaned THEN [storage EXCEPT ![<<d, 0>>] = "gone"] ELSE storage
    /\ Finish(w)
    /\ UNCHANGED claim

\* Rolled back: the copy is deleted, unless the process died.
FailAttach(w, cleaned) ==
    /\ worker[w].pc = "attach"
    /\ storage' = IF cleaned THEN [storage EXCEPT ![<<worker[w].document, worker[w].copy>>] = "gone"]
                  ELSE storage
    /\ Finish(w)
    /\ UNCHANGED <<document, claim>>

\* delete_document, and delete_file_when_the_row_is_gone on its commit.
Delete(d, cleaned) ==
    /\ document[d].row /\ ~document[d].attached
    /\ ~Locked(d)
    /\ document' = [document EXCEPT ![d] = NoDocument]
    /\ storage' = IF cleaned /\ ~document[d].purged THEN [storage EXCEPT ![<<d, 0>>] = "gone"] ELSE storage
    /\ UNCHANGED <<claim, worker>>

-----------------------------------------------------------------------------
(* Extractions.                                                            *)

\* ExtractionService.run, its first transaction.
Extract(w, d) ==
    /\ worker[w] = Idle
    /\ Available(d)
    /\ ~Locked(d)
    /\ document' = [document EXCEPT ![d].running = @ \cup {w}]
    /\ worker' = [worker EXCEPT ![w] = [Idle EXCEPT !.pc = "extract", !.document = d]]
    /\ UNCHANGED <<claim, storage>>

\* Mutant: what was available when the extraction began is taken to be still.
Retained_Assumed(d) == document[d].row

\* _save_if_retained
Retained(d) == Available(d)

\* _read_available_bytes and the model's answer are behind us; a save of a row
\* that is gone inserts it again.
SaveExtraction(w) ==
    LET d == worker[w].document IN
    /\ worker[w].pc = "extract"
    /\ ~Locked(d)
    /\ document' = [document EXCEPT ![d].running = @ \ {w},
                                    ![d].extracted = @ \/ Retained(d)]
    /\ Finish(w)
    /\ UNCHANGED <<claim, storage>>

\* The process dies; its RUNNING row stays.
LoseExtraction(w) ==
    /\ worker[w].pc = "extract"
    /\ Finish(w)
    /\ UNCHANGED <<document, claim, storage>>

-----------------------------------------------------------------------------
(* The claim's clock, and the two sweeps.                                  *)

\* A transition's read: get_object, and the status it checks in memory.
ReadClaim(w) ==
    /\ worker[w] = Idle
    /\ claim.status # "ended"
    /\ worker' = [worker EXCEPT ![w] = [Idle EXCEPT !.pc = "review", !.seen = claim.status]]
    /\ UNCHANGED <<document, claim, storage>>

\* verify, reject, withdraw, revoke: each restarts the clock of its status.
Review(w, status) ==
    /\ worker[w].pc = "review"
    /\ status \in (IF worker[w].seen = "submitted" THEN {"verified", "ended"} ELSE {"ended"})
    /\ ~ClaimLocked
    /\ claim' = [claim EXCEPT !.status = status, !.past = FALSE]
    /\ Finish(w)
    /\ UNCHANGED <<document, storage>>

\* evidence_horizon: a submitted claim has no clock.
HorizonPasses ==
    /\ claim.status # "submitted"
    /\ ~claim.past
    /\ claim' = [claim EXCEPT !.past = TRUE, !.ran = TRUE]
    /\ UNCHANGED <<document, storage, worker>>

\* UNATTACHED_DOCUMENT_RETENTION_DAYS
DocumentAges(d) ==
    /\ document[d].row /\ ~document[d].aged
    /\ document' = [document EXCEPT ![d].aged = TRUE]
    /\ UNCHANGED <<claim, storage, worker>>

\* purge_document: under both locks it asks again, and the bytes go before
\* the row is saved.
Purge(w, d) ==
    /\ worker[w] = Idle
    /\ Due(d)
    /\ ~Locked(d)
    /\ document[d].attached => ~ClaimLocked
    /\ storage' = [storage EXCEPT ![<<d, document[d].file>>] = "gone"]
    /\ worker' = [worker EXCEPT ![w] = [Idle EXCEPT !.pc = "purge", !.document = d]]
    /\ UNCHANGED <<document, claim>>

CommitPurge(w) ==
    /\ worker[w].pc = "purge"
    /\ document' = [document EXCEPT ![worker[w].document] =
          [@ EXCEPT !.purged = TRUE, !.running = {}, !.extracted = FALSE]]
    /\ Finish(w)
    /\ UNCHANGED <<claim, storage>>

\* Rolled back: the row still names what is gone, and is due again tomorrow.
FailPurge(w) ==
    /\ worker[w].pc = "purge"
    /\ Finish(w)
    /\ UNCHANGED <<document, claim, storage>>

\* referenced_names
ReferencedNames == {<<d, document[d].file>> : d \in {e \in Documents : document[e].row /\ ~document[e].purged}}

\* Mutant: no grace between a file and its row.
Settled_Now == {f \in Swept : Stored(f)}

\* _settled_before, with the cutoff fixed as the sweep begins
Settled == {f \in Swept : storage[f] = "old"}

\* orphaned_files, up to the walk of the storage.
SweepReads(w) ==
    /\ worker[w] = Idle
    /\ worker' = [worker EXCEPT ![w] =
          [Idle EXCEPT !.pc = "sweep", !.names = ReferencedNames, !.settled = Settled]]
    /\ UNCHANGED <<document, claim, storage>>

\* sweep_orphaned_files: what it found, as far as it gets.
SweepDeletes(w, gone) ==
    /\ worker[w].pc = "sweep"
    /\ gone \subseteq worker[w].settled \ worker[w].names
    /\ storage' = [f \in Files |-> IF f \in gone THEN "gone" ELSE storage[f]]
    /\ Finish(w)
    /\ UNCHANGED <<document, claim>>

\* External: a day passes, longer than any transaction that has a file in hand.
Settle(f) ==
    /\ storage[f] = "fresh"
    /\ f \notin Uncommitted
    /\ storage' = [storage EXCEPT ![f] = "old"]
    /\ UNCHANGED <<document, claim, worker>>

-----------------------------------------------------------------------------
Init ==
    /\ document = [d \in Documents |-> NoDocument]
    /\ claim = [status |-> "submitted", past |-> FALSE, ran |-> FALSE]
    /\ storage = [f \in Files |-> "none"]
    /\ worker = [w \in Workers |-> Idle]

Next ==
    \/ \E w \in Workers, d \in Documents :
          \/ Upload(w, d) \/ Extract(w, d) \/ Purge(w, d)
          \/ \E n \in Numbers : Attach(w, d, n)
    \/ \E w \in Workers :
          \/ CommitUpload(w) \/ FailUpload(w)
          \/ SaveExtraction(w) \/ LoseExtraction(w)
          \/ CommitPurge(w) \/ FailPurge(w)
          \/ \E cleaned \in BOOLEAN : CommitAttach(w, cleaned) \/ FailAttach(w, cleaned)
          \/ ReadClaim(w) \/ \E status \in {"verified", "ended"} : Review(w, status)
          \/ SweepReads(w) \/ \E gone \in SUBSET Swept : SweepDeletes(w, gone)
    \/ \E d \in Documents : DocumentAges(d) \/ \E cleaned \in BOOLEAN : Delete(d, cleaned)
    \/ HorizonPasses
    \/ \E f \in Files : Settle(f)

Spec == Init /\ [][Next]_vars

-----------------------------------------------------------------------------
TypeOK ==
    /\ document \in [Documents -> Document]
    /\ claim \in Claim
    /\ storage \in [Files -> Ages]
    /\ worker \in [Workers ->
          [pc : {"idle", "upload", "attach", "extract", "review", "purge", "sweep"},
           document : Documents \cup {None}, copy : Numbers,
           names : SUBSET Files, settled : SUBSET Files, seen : {"none", "submitted", "verified"}]]

\* A document whose clock has not run out has its bytes, whatever uploads,
\* attachments, deletions and sweeps failed half way or met.
RowsHaveFiles ==
    \A d \in Documents :
        document[d].row /\ ~document[d].purged
          /\ ~(IF document[d].attached THEN claim.ran ELSE document[d].aged)
        => Stored(<<d, document[d].file>>)

\* Nothing of a purged document is left: neither the bytes its row named nor
\* anything extracted from them, by runs that began before the purge.
PurgedIsEmpty ==
    \A d \in Documents :
        document[d].purged =>
            ~document[d].extracted /\ ~Stored(<<d, document[d].file>>)

\* The rows and the private storage agree, under sweeps, purges and crashes.
FilesAreKept == RowsHaveFiles /\ PurgedIsEmpty
=============================================================================
