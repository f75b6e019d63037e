----------------------------- MODULE Documents -----------------------------
(***************************************************************************)
(* Private documents: a content-addressed object in the bucket and its row *)
(* in object_metadata, written and erased by separate steps.  Uploads put  *)
(* the object first and the row in a later transaction; the owner's delete *)
(* and the retention passes remove the object first and mark the row       *)
(* after.  A retention pass handles all its documents in one transaction,  *)
(* so its marks become visible together, or not at all.                    *)
(***************************************************************************)
EXTENDS Naturals, FiniteSets

CONSTANTS
    Docs,          \* a kind and checksum of one owner: the identity of object and row
    Infected,      \* documents whose content the scanner refuses
    Held,          \* documents under legal hold, which nothing in src/ ever changes
    Uploads,       \* concurrent upload requests
    Deletes,       \* concurrent delete requests of the owner
    Purges,        \* worker processes, each with one retention runtime
    Readers,       \* concurrent downloads and submissions that read a document
    NoDoc,
    MaxDocFaults   \* bound: crashes, database and storage errors

ASSUME DocAssumption ==
    /\ NoDoc \notin Docs /\ Infected \cup Held \subseteq Docs /\ MaxDocFaults \in Nat

VARIABLES
    objects,       \* documents whose object is in the bucket
    row,           \* object_metadata, with the approvalStatus of a live row
    overdue,       \* documents whose row has expiresAt <= now
    attached,      \* documents with a row in application_documents
    upload, delete, purge, reader,
    audits,        \* deletion audit events of a document (history)
    erasures,      \* documents somebody began to delete (history)
    docFaults

docVars == <<objects, row, overdue, attached, upload, delete, purge, reader, audits,
             erasures, docFaults>>

-----------------------------------------------------------------------------
(* Types *)

LiveRows == {"pending", "approved"}

\* todo: found expired, not looked at yet; locked: their advisory locks are held to the
\* end of the transaction; marked: tombstones the transaction has written.
NoPurge == [at |-> "idle", todo |-> {}, now |-> NoDoc, locked |-> {}, marked |-> {}]

DocTypeOK ==
    /\ objects \subseteq Docs /\ overdue \subseteq Docs /\ attached \subseteq Docs
    /\ erasures \subseteq Docs
    /\ row \in [Docs -> {"none", "deleted"} \cup LiveRows]
    /\ upload \in [Uploads -> Docs \cup {NoDoc}]
    /\ delete \in [Deletes -> [at : {"idle", "found", "erased"}, doc : Docs \cup {NoDoc}]]
    /\ purge \in [Purges -> [at : {"idle", "next", "erase", "mark"}, todo : SUBSET Docs,
                            now : Docs \cup {NoDoc}, locked : SUBSET Docs, marked : SUBSET Docs]]
    /\ reader \in [Readers -> [at : {"idle", "prepared", "allowed", "headed", "missing"},
                              doc : Docs \cup {NoDoc}]]
    /\ audits \in [Docs -> Nat]
    /\ docFaults \in 0..MaxDocFaults

DocInit ==
    /\ objects = {} /\ overdue = {} /\ attached = {} /\ erasures = {}
    /\ row = [d \in Docs |-> "none"]
    /\ upload = [u \in Uploads |-> NoDoc]
    /\ delete = [x \in Deletes |-> [at |-> "idle", doc |-> NoDoc]]
    /\ purge = [p \in Purges |-> NoPurge]
    /\ reader = [r \in Readers |-> [at |-> "idle", doc |-> NoDoc]]
    /\ audits = [d \in Docs |-> 0]
    /\ docFaults = 0

-----------------------------------------------------------------------------
(* Uploading *)

\* The scanner finds nothing. Where it fails, times out or finds something the upload ends
\* and nothing is written.
Clean(d) == d \notin Infected

\* storeArtifact: a conditional put, or the HEAD of an equal object that is there already.
PutObject(u, d) ==
    /\ upload[u] = NoDoc
    /\ Clean(d)
    /\ objects' = objects \cup {d}
    /\ upload' = [upload EXCEPT ![u] = d]
    /\ UNCHANGED <<row, overdue, delete, purge, audits, erasures, docFaults, attached, reader>>

\* The row a transaction of a retention pass has marked is locked until its end.
Unmarked(d) == \A p \in Purges : d \notin purge[p].marked

\* attachDocumentToApplicationInTransaction, of a document approved just before in the same
\* transaction; an expired one is refused.
Attach(d) == d \notin overdue /\ attached' = attached \cup {d}

\* persistDocumentMetadataInTransaction, under the artifact's advisory lock: the row is
\* inserted or replayed.  A deleted identity is refused, and a row written for another
\* resume version.
Accepted(d, sameVersion) == row[d] # "deleted" /\ (row[d] \in LiveRows => sameVersion)

\* POST /upload: with an application the document is approved and attached in the
\* transaction of the row, and a refusal undoes all of it.
Persist(u, withApplication, sameVersion) ==
    LET d == upload[u]
    IN  /\ d # NoDoc
        /\ upload' = [upload EXCEPT ![u] = NoDoc]
        /\ \/ /\ Accepted(d, sameVersion) /\ withApplication /\ Unmarked(d)
              /\ row' = [row EXCEPT ![d] = "approved"]
              /\ Attach(d)
           \/ /\ Accepted(d, sameVersion) /\ ~withApplication
              /\ row' = [row EXCEPT ![d] = IF @ = "none" THEN "pending" ELSE @]
              /\ UNCHANGED attached
           \/ /\ ~Accepted(d, sameVersion) \/ (withApplication /\ d \in overdue)
              /\ UNCHANGED <<row, attached>>
        /\ UNCHANGED <<objects, overdue, delete, purge, reader, audits, erasures, docFaults>>

\* Variant: a failed upload takes its object back.
UploadFailsCompensating(u) ==
    /\ upload[u] # NoDoc
    /\ docFaults < MaxDocFaults /\ docFaults' = docFaults + 1
    /\ objects' = objects \ {upload[u]}
    /\ upload' = [upload EXCEPT ![u] = NoDoc]
    /\ UNCHANGED <<row, overdue, delete, purge, audits, erasures, attached, reader>>

\* The upload ends between its two steps; the object is left for a retry.
UploadFails(u) ==
    /\ upload[u] # NoDoc
    /\ docFaults < MaxDocFaults /\ docFaults' = docFaults + 1
    /\ upload' = [upload EXCEPT ![u] = NoDoc]
    /\ UNCHANGED <<objects, row, overdue, delete, purge, audits, erasures, attached, reader>>

Approve(d) ==
    /\ row[d] \in LiveRows /\ Unmarked(d)
    /\ row' = [row EXCEPT ![d] = "approved"]
    /\ UNCHANGED <<objects, overdue, upload, delete, purge, audits, erasures, docFaults, attached, reader>>

\* expiresAt is set outside src/ and passes.
RowExpires(d) ==
    /\ row[d] # "none" /\ d \notin overdue
    /\ overdue' = overdue \cup {d}
    /\ UNCHANGED <<objects, row, upload, delete, purge, audits, erasures, docFaults, attached, reader>>

-----------------------------------------------------------------------------
(* The owner's delete *)

FindDocument(x, d) ==
    /\ delete[x].at = "idle" /\ row[d] \in LiveRows
    /\ delete' = [delete EXCEPT ![x] = [at |-> "found", doc |-> d]]
    /\ UNCHANGED <<objects, row, overdue, upload, purge, audits, erasures, docFaults, attached, reader>>

EraseObject(x) ==
    /\ delete[x].at = "found"
    /\ objects' = objects \ {delete[x].doc}
    /\ erasures' = erasures \cup {delete[x].doc}
    /\ delete' = [delete EXCEPT ![x].at = "erased"]
    /\ UNCHANGED <<row, overdue, upload, purge, audits, docFaults, attached, reader>>

DeleteDone(x) == delete' = [delete EXCEPT ![x] = [at |-> "idle", doc |-> NoDoc]]

\* updateMany where deletedAt is null, and the audit event of whoever marked the row.
MarkDeleted(x) ==
    LET d == delete[x].doc
    IN  /\ delete[x].at = "erased" /\ Unmarked(d)
        /\ row' = [row EXCEPT ![d] = "deleted"]
        /\ audits' = IF row[d] \in LiveRows THEN [audits EXCEPT ![d] = @ + 1] ELSE audits
        /\ DeleteDone(x)
        /\ UNCHANGED <<objects, overdue, upload, purge, erasures, docFaults, attached, reader>>

DeleteFails(x) ==
    /\ delete[x].at # "idle"
    /\ docFaults < MaxDocFaults /\ docFaults' = docFaults + 1
    /\ DeleteDone(x)
    /\ UNCHANGED <<objects, row, overdue, upload, purge, audits, erasures, attached, reader>>

-----------------------------------------------------------------------------
(* Reading *)

ReaderAt(r, at, d) == reader' = [reader EXCEPT ![r] = [at |-> at, doc |-> d]]

ReaderOnly == UNCHANGED <<objects, row, overdue, attached, upload, delete, purge, audits, erasures, docFaults>>

\* GET /:id/download-url: a live row that has not expired, which signedDownloadUrlAuthorized
\* looks at again.
AllowDownload(r, d) ==
    /\ reader[r].at = "idle" /\ row[d] \in LiveRows /\ d \notin overdue
    /\ ReaderAt(r, "allowed", d) /\ ReaderOnly

\* A submission reads the rows of the approved documents it is to upload, and opens them
\* while it fills the form.
PrepareSubmission(r, d) ==
    /\ reader[r].at = "idle" /\ row[d] = "approved" /\ d \notin overdue
    /\ ReaderAt(r, "prepared", d) /\ ReaderOnly

\* readAuthorized judges the row as it was read then; only the clock is new.
AllowSubmission(r) ==
    /\ reader[r].at = "prepared" /\ reader[r].doc \notin overdue
    /\ ReaderAt(r, "allowed", reader[r].doc) /\ ReaderOnly

\* readVerified: the HEAD of the object, and then its content.
ReadHead(r) ==
    /\ reader[r].at = "allowed"
    /\ ReaderAt(r, IF reader[r].doc \in objects THEN "headed" ELSE "missing", reader[r].doc)
    /\ ReaderOnly

ReadContent(r) ==
    /\ reader[r].at = "headed"
    /\ IF reader[r].doc \in objects THEN ReaderAt(r, "idle", NoDoc)
       ELSE ReaderAt(r, "missing", reader[r].doc)
    /\ ReaderOnly

\* A refusal, a missing object or any failure ends the request.
ReadEnds(r) ==
    /\ reader[r].at # "idle"
    /\ ReaderAt(r, "idle", NoDoc) /\ ReaderOnly

-----------------------------------------------------------------------------
(* A retention pass *)

\* Variant: passes by rows whose object is gone.
PurgeableWithObject(d) == row[d] \in LiveRows /\ d \in overdue \cap objects /\ d \notin Held

Purgeable(d) == row[d] \in LiveRows /\ d \in overdue /\ d \notin Held

BeginPurge(p) ==
    /\ purge[p].at = "idle"
    /\ \E d \in Docs : Purgeable(d)
    /\ purge' = [purge EXCEPT ![p] = [NoPurge EXCEPT !.at = "next", !.todo = {d \in Docs : Purgeable(d)}]]
    /\ UNCHANGED <<objects, row, overdue, upload, delete, audits, erasures, docFaults, attached, reader>>

Lockable(p, d) == \A q \in Purges \ {p} : d \notin purge[q].locked

\* With the document's lock the row is read again, and skipped if no longer expired.
Taken(p, d) ==
    [purge[p] EXCEPT !.todo = @ \ {d}, !.locked = @ \cup {d},
                    !.at = IF Purgeable(d) THEN "erase" ELSE "next",
                    !.now = IF Purgeable(d) THEN d ELSE NoDoc]

\* Its lock is waited for; the expired rows come in no order.
TakeDocument(p, d) ==
    /\ purge[p].at = "next" /\ d \in purge[p].todo
    /\ Lockable(p, d)
    /\ purge' = [purge EXCEPT ![p] = Taken(p, d)]
    /\ UNCHANGED <<objects, row, overdue, upload, delete, audits, erasures, docFaults, attached, reader>>

PurgeObject(p) ==
    /\ purge[p].at = "erase"
    /\ objects' = objects \ {purge[p].now}
    /\ erasures' = erasures \cup {purge[p].now}
    /\ purge' = [purge EXCEPT ![p].at = "mark"]
    /\ UNCHANGED <<row, overdue, upload, delete, audits, docFaults, attached, reader>>

\* The storage refuses: the document is reported and the pass goes on with the next.
PurgeRefused(p) ==
    /\ purge[p].at = "erase"
    /\ docFaults < MaxDocFaults /\ docFaults' = docFaults + 1
    /\ purge' = [purge EXCEPT ![p].at = "next", ![p].now = NoDoc]
    /\ UNCHANGED <<objects, row, overdue, upload, delete, audits, erasures, attached, reader>>

\* The tombstone, unless the owner's came first.
MarkPurged(p) ==
    /\ purge[p].at = "mark"
    /\ purge' = [purge EXCEPT ![p].at = "next", ![p].now = NoDoc,
                  ![p].marked = IF row[purge[p].now] \in LiveRows THEN @ \cup {purge[p].now} ELSE @]
    /\ UNCHANGED <<objects, row, overdue, upload, delete, audits, erasures, docFaults, attached, reader>>

CommitPurge(p) ==
    /\ purge[p].at = "next" /\ purge[p].todo = {}
    /\ row' = [d \in Docs |-> IF d \in purge[p].marked THEN "deleted" ELSE row[d]]
    /\ audits' = [d \in Docs |-> IF d \in purge[p].marked THEN audits[d] + 1 ELSE audits[d]]
    /\ purge' = [purge EXCEPT ![p] = NoPurge]
    /\ UNCHANGED <<objects, overdue, upload, delete, erasures, docFaults, attached, reader>>

Blocked(p) ==
    /\ purge[p].at = "next" /\ purge[p].todo # {}
    /\ \A d \in purge[p].todo : ~Lockable(p, d)

\* Rolled back by a fault: the objects stay erased, the rows live.
PurgeFails(p) ==
    /\ purge[p].at # "idle"
    /\ docFaults < MaxDocFaults /\ docFaults' = docFaults + 1
    /\ purge' = [purge EXCEPT ![p] = NoPurge]
    /\ UNCHANGED <<objects, row, overdue, upload, delete, audits, erasures, attached, reader>>

\* Two passes wait for each other's locks: the database rolls one back, and the
\* other has the lock it was queued for.
LoseDeadlock(p, q) ==
    /\ p # q /\ Blocked(p) /\ Blocked(q)
    /\ \E d \in purge[q].todo \cap purge[p].locked :
         purge' = [purge EXCEPT ![p] = NoPurge, ![q] = Taken(q, d)]
    /\ UNCHANGED <<objects, row, overdue, upload, delete, audits, erasures, docFaults, attached, reader>>

PurgeStep(p) ==
    \/ BeginPurge(p) \/ PurgeObject(p) \/ MarkPurged(p) \/ CommitPurge(p)
    \/ \E d \in Docs : TakeDocument(p, d)

DocNext ==
    \/ \E u \in Uploads : \/ \E d \in Docs : PutObject(u, d)
                          \/ \E withApplication, sameVersion \in BOOLEAN :
                               Persist(u, withApplication, sameVersion)
                          \/ UploadFails(u)
    \/ \E d \in Docs : Approve(d) \/ RowExpires(d)
    \/ \E x \in Deletes : \/ \E d \in Docs : FindDocument(x, d)
                          \/ EraseObject(x) \/ MarkDeleted(x) \/ DeleteFails(x)
    \/ \E r \in Readers : \/ \E d \in Docs : AllowDownload(r, d) \/ PrepareSubmission(r, d)
                          \/ AllowSubmission(r) \/ ReadHead(r) \/ ReadContent(r) \/ ReadEnds(r)
    \/ \E p \in Purges : PurgeStep(p) \/ PurgeRefused(p) \/ PurgeFails(p) 
    \/ \E p, q \in Purges : LoseDeadlock(p, q)

DocSpec == DocInit /\ [][DocNext]_docVars

\* Every process goes on with its pass and starts another every hour, and the database
\* ends a deadlock.
DocFairness ==
    /\ \A p \in Purges : WF_docVars(PurgeStep(p))
    /\ WF_docVars(\E p, q \in Purges : LoseDeadlock(p, q))

-----------------------------------------------------------------------------
(* Properties *)

\* A row without its object is one somebody began to delete: no upload, however it
\* failed, takes away the object another upload relies on (document-storage.ts:532-534), and
\* a reader that was allowed to read finds nothing only where a delete or a retention pass
\* has come in between (document-storage.ts:561-573).  However many deletes and retention
\* passes race for a document, one of them records its deletion
\* (document-retention.ts:36-53).  What is attached to an application was approved first,
\* unless it has been deleted since (routes/documents.ts:127-130).
DocumentsAccountedFor ==
    /\ \A d \in Docs : /\ row[d] \in LiveRows /\ d \notin objects => d \in erasures
                       /\ audits[d] = IF row[d] = "deleted" THEN 1 ELSE 0
    /\ \A r \in Readers : reader[r].at = "missing" => reader[r].doc \in erasures
    /\ \A d \in attached : row[d] \in {"approved", "deleted"}

\* An expired document nobody holds is in the end marked deleted, although each pass
\* may be rolled back after it erased objects.
RetentionCompletes ==
    \A d \in Docs : Purgeable(d) ~> row[d] = "deleted"

=============================================================================
