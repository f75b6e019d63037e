--------------------------- MODULE DocumentsProofs ---------------------------
(***************************************************************************)
(* Proofs about Documents, for every number of documents, uploads, deletes *)
(* and retention passes.  Two facts carry the invariant: a document that a *)
(* pass has marked is locked by that pass alone and its row stays live to  *)
(* the end of the transaction, and whoever relies on an object - an upload *)
(* between its two steps, a reader after the row - has it in the bucket    *)
(* unless somebody has begun to delete the document.                       *)
(***************************************************************************)
EXTENDS Documents, TLAPS

PurgeStates == [at : {"idle", "next", "erase", "mark"}, todo : SUBSET Docs,
                now : Docs \cup {NoDoc}, locked : SUBSET Docs, marked : SUBSET Docs]

DeleteStates == [at : {"idle", "found", "erased"}, doc : Docs \cup {NoDoc}]

UploadedIsThere == \A u \in Uploads : upload[u] # NoDoc => upload[u] \in objects \cup erasures

ReadIsThere ==
    \A r \in Readers : reader[r].at # "idle" => reader[r].doc \in objects \cup erasures

DeletedWasThere ==
    \A x \in Deletes : delete[x].at # "idle" => delete[x].doc \in Docs /\ row[delete[x].doc] # "none"

LocksExclude == \A p, q \in Purges : p # q => purge[p].locked \cap purge[q].locked = {}

\* What a pass has marked or is looking at it has locked; what it has marked is live.
MarksUnderLock ==
    \A p \in Purges :
        /\ purge[p].marked \subseteq purge[p].locked
        /\ \A d \in purge[p].marked : row[d] \in LiveRows
        /\ purge[p].at \in {"erase", "mark"} => purge[p].now \in purge[p].locked

DocInv ==
    /\ DocTypeOK
    /\ DocumentsAccountedFor
    /\ UploadedIsThere
    /\ ReadIsThere
    /\ DeletedWasThere
    /\ LocksExclude
    /\ MarksUnderLock

LEMMA DocInitially == DocInit => DocInv
<1>1. SUFFICES ASSUME DocInit PROVE DocInv
  OBVIOUS
<1>2. NoPurge \in PurgeStates /\ NoPurge.at = "idle" /\ NoPurge.locked = {} /\ NoPurge.marked = {}
  BY DEF NoPurge, PurgeStates
<1>3. DocTypeOK
  BY <1>1, <1>2, DocAssumption DEF DocInit, DocTypeOK, PurgeStates
<1>4. DocumentsAccountedFor /\ UploadedIsThere /\ ReadIsThere /\ DeletedWasThere
  BY <1>1 DEF DocInit, DocumentsAccountedFor, UploadedIsThere, ReadIsThere, DeletedWasThere, LiveRows
<1>5. LocksExclude /\ MarksUnderLock
  BY <1>1, <1>2 DEF DocInit, LocksExclude, MarksUnderLock
<1>6. QED
  BY <1>3, <1>4, <1>5 DEF DocInv

-----------------------------------------------------------------------------
(* Uploads, approval, expiry *)

LEMMA PutObjectKeeps ==
  ASSUME DocInv, NEW u \in Uploads, NEW d \in Docs, PutObject(u, d)
  PROVE  DocInv'
<1>1. DocTypeOK'
  BY DEF DocInv, DocTypeOK, PutObject
<1>2. DocumentsAccountedFor' /\ UploadedIsThere' /\ ReadIsThere' /\ DeletedWasThere'
  BY DEF DocInv, DocTypeOK, PutObject, DocumentsAccountedFor, UploadedIsThere, ReadIsThere, DeletedWasThere
<1>3. LocksExclude' /\ MarksUnderLock'
  BY DEF DocInv, PutObject, LocksExclude, MarksUnderLock
<1>4. QED
  BY <1>1, <1>2, <1>3 DEF DocInv

\* One row becomes live that was not deleted, or was deleted already; its object is
\* there, or somebody has begun to delete it.
LEMMA RowLives ==
  ASSUME DocInv, NEW d \in Docs, NEW status \in LiveRows, row' = [row EXCEPT ![d] = status],
         row[d] # "deleted", row[d] = "none" => d \in objects \cup erasures,
         attached' \in SUBSET (attached \cup {d}), d \in attached' => status = "approved",
         UNCHANGED <<objects, delete, purge, reader, audits, erasures>>, upload' \in [Uploads -> Docs \cup {NoDoc}],
         \A u \in Uploads : upload'[u] \in {upload[u], NoDoc},
         overdue' \in SUBSET Docs, docFaults' \in 0..MaxDocFaults
  PROVE  DocInv'
<1>1. row'[d] = status /\ \A e \in Docs \ {d} : row'[e] = row[e]
  BY DEF DocInv, DocTypeOK
<1>2. status # "none" /\ status # "deleted"
  BY DEF LiveRows
<1>3. DocTypeOK'
  BY DEF DocInv, DocTypeOK
<1>4. DocumentsAccountedFor'
  BY <1>1, <1>2 DEF DocInv, DocTypeOK, DocumentsAccountedFor, LiveRows
<1>5. UploadedIsThere' /\ ReadIsThere'
  BY DEF DocInv, UploadedIsThere, ReadIsThere
<1>6. DeletedWasThere'
  BY <1>1, <1>2 DEF DocInv, DeletedWasThere
<1>7. LocksExclude' /\ MarksUnderLock'
  BY <1>1 DEF DocInv, DocTypeOK, LocksExclude, MarksUnderLock
<1>8. QED
  BY <1>3, <1>4, <1>5, <1>6, <1>7 DEF DocInv

\* Nothing changes that the invariant tells apart.
LEMMA RowsStay ==
  ASSUME DocInv, UNCHANGED <<objects, row, attached, delete, purge, reader, audits, erasures>>,
         upload' \in [Uploads -> Docs \cup {NoDoc}], \A u \in Uploads : upload'[u] \in {upload[u], NoDoc},
         overdue' \in SUBSET Docs, docFaults' \in 0..MaxDocFaults
  PROVE  DocInv'
<1>1. DocTypeOK'
  BY DEF DocInv, DocTypeOK
<1>2. DocumentsAccountedFor' /\ UploadedIsThere' /\ ReadIsThere' /\ DeletedWasThere'
  BY DEF DocInv, DocumentsAccountedFor, UploadedIsThere, ReadIsThere, DeletedWasThere
<1>3. LocksExclude' /\ MarksUnderLock'
  BY DEF DocInv, LocksExclude, MarksUnderLock
<1>4. QED
  BY <1>1, <1>2, <1>3 DEF DocInv

LEMMA PersistKeeps ==
  ASSUME DocInv, NEW u \in Uploads, NEW withApplication \in BOOLEAN, NEW sameVersion \in BOOLEAN,
         Persist(u, withApplication, sameVersion)
  PROVE  DocInv'
<1> DEFINE d == upload[u]
<1>1. /\ d \in Docs /\ upload' = [upload EXCEPT ![u] = NoDoc]
      /\ UNCHANGED <<objects, overdue, delete, purge, reader, audits, erasures, docFaults>>
      /\ d \in objects \cup erasures
  BY DEF Persist, DocInv, DocTypeOK, UploadedIsThere
<1>2. /\ upload' \in [Uploads -> Docs \cup {NoDoc}]
      /\ \A v \in Uploads : upload'[v] \in {upload[v], NoDoc}
      /\ overdue' \in SUBSET Docs /\ docFaults' \in 0..MaxDocFaults
  BY <1>1 DEF DocInv, DocTypeOK
<1>3. CASE UNCHANGED <<row, attached>>
  BY <1>1, <1>2, <1>3, RowsStay
<1>4. CASE row[d] # "deleted" /\ row' = [row EXCEPT ![d] = "approved"] /\ attached' = attached \cup {d}
  <2>1. "approved" \in LiveRows /\ attached' \in SUBSET (attached \cup {d})
    BY <1>4 DEF LiveRows
  <2> HIDE DEF d
  <2>2. QED
    BY <1>1, <1>2, <1>4, <2>1, RowLives
<1>5. CASE /\ row[d] # "deleted" /\ UNCHANGED attached
           /\ row' = [row EXCEPT ![d] = IF @ = "none" THEN "pending" ELSE @]
  <2> DEFINE status == IF row[d] = "none" THEN "pending" ELSE row[d]
  <2>1. status \in LiveRows
    BY <1>1, <1>5 DEF LiveRows, DocInv, DocTypeOK
  <2>2. row' = [row EXCEPT ![d] = status] /\ attached' \in SUBSET (attached \cup {d})
    BY <1>5
  <2>3. d \in attached' => status = "approved"
    BY <1>1, <1>5 DEF DocInv, DocumentsAccountedFor
  <2> HIDE DEF status, d
  <2>4. QED
    BY <1>1, <1>2, <1>5, <2>1, <2>2, <2>3, RowLives
<1>6. QED
  BY <1>3, <1>4, <1>5 DEF Persist, Accepted, Attach

LEMMA SmallStepsKeep ==
  ASSUME DocInv, \/ \E u \in Uploads : UploadFails(u)
                 \/ \E d \in Docs : Approve(d) \/ RowExpires(d)
  PROVE  DocInv'
<1>1. ASSUME NEW u \in Uploads, UploadFails(u) PROVE DocInv'
  BY <1>1, RowsStay, DocAssumption DEF UploadFails, DocInv, DocTypeOK
<1>2. ASSUME NEW d \in Docs, RowExpires(d) PROVE DocInv'
  BY <1>2, RowsStay DEF RowExpires, DocInv, DocTypeOK
<1>3. ASSUME NEW d \in Docs, Approve(d) PROVE DocInv'
  <2>1. /\ row[d] # "deleted" /\ row[d] # "none" /\ "approved" \in LiveRows
        /\ attached' \in SUBSET (attached \cup {d})
    BY <1>3 DEF Approve, LiveRows
  <2>2. QED
    BY <1>3, <2>1, RowLives DEF Approve, DocInv, DocTypeOK
<1>4. QED
  BY <1>1, <1>2, <1>3

-----------------------------------------------------------------------------
(* Readers *)

\* A reader goes on with a document that is there, or that somebody has begun to delete.
LEMMA ReaderMoves ==
  ASSUME DocInv, NEW r \in Readers, NEW d, ReaderOnly,
         NEW at \in {"idle", "prepared", "allowed", "headed", "missing"}, ReaderAt(r, at, d),
         at = "idle" => d = NoDoc, at # "idle" => d \in Docs /\ d \in objects \cup erasures,
         at = "missing" => d \notin objects
  PROVE  DocInv'
<1>1. UNCHANGED <<objects, row, overdue, attached, upload, delete, purge, audits, erasures, docFaults>>
  BY DEF ReaderOnly
<1>2. /\ reader'[r] = [at |-> at, doc |-> d] /\ \A q \in Readers \ {r} : reader'[q] = reader[q]
      /\ reader' \in [Readers -> [at : {"idle", "prepared", "allowed", "headed", "missing"},
                                 doc : Docs \cup {NoDoc}]]
  BY DEF ReaderAt, DocInv, DocTypeOK
<1>3. DocTypeOK'
  BY <1>1, <1>2 DEF DocInv, DocTypeOK
<1>4. DocumentsAccountedFor' /\ ReadIsThere'
  BY <1>1, <1>2 DEF DocInv, DocumentsAccountedFor, ReadIsThere
<1>5. UploadedIsThere' /\ DeletedWasThere' /\ LocksExclude' /\ MarksUnderLock'
  BY <1>1 DEF DocInv, UploadedIsThere, DeletedWasThere, LocksExclude, MarksUnderLock
<1>6. QED
  BY <1>3, <1>4, <1>5 DEF DocInv

LEMMA ReadersKeep ==
  ASSUME DocInv, NEW r \in Readers,
         \/ \E d \in Docs : AllowDownload(r, d) \/ PrepareSubmission(r, d)
         \/ AllowSubmission(r) \/ ReadHead(r) \/ ReadContent(r) \/ ReadEnds(r)
  PROVE  DocInv'
<1>1. ASSUME NEW d \in Docs, AllowDownload(r, d) \/ PrepareSubmission(r, d) PROVE DocInv'
  <2>1. d \in objects \cup erasures
    BY <1>1 DEF AllowDownload, PrepareSubmission, LiveRows, DocInv, DocumentsAccountedFor
  <2>2. QED
    BY <1>1, <2>1, ReaderMoves DEF AllowDownload, PrepareSubmission
<1>2. reader[r].at # "idle" => reader[r].doc \in Docs /\ reader[r].doc \in objects \cup erasures
  BY DEF DocInv, DocTypeOK, ReadIsThere
<1>3. CASE AllowSubmission(r)
  BY <1>2, <1>3, ReaderMoves DEF AllowSubmission
<1>4. CASE ReadHead(r)
  BY <1>2, <1>4, ReaderMoves DEF ReadHead
<1>5. CASE ReadContent(r)
  BY <1>2, <1>5, ReaderMoves DEF ReadContent
<1>6. CASE ReadEnds(r)
  BY <1>6, ReaderMoves DEF ReadEnds
<1>7. QED
  BY <1>1, <1>3, <1>4, <1>5, <1>6

-----------------------------------------------------------------------------
(* The owner's delete *)

\* What a step keeps that erases nothing and is at most one more fault.
LEMMA NothingErased ==
  ASSUME DocInv, UNCHANGED <<objects, erasures>>,
         \/ docFaults' = docFaults
         \/ docFaults < MaxDocFaults /\ docFaults' = docFaults + 1
  PROVE  /\ objects' \in SUBSET objects /\ erasures \subseteq erasures' /\ erasures' \in SUBSET Docs
         /\ objects \subseteq objects' \cup erasures' /\ docFaults' \in 0..MaxDocFaults
  BY DocAssumption DEF DocInv, DocTypeOK

LEMMA DeleteMoves ==
  ASSUME DocInv, NEW x \in Deletes, NEW b \in DeleteStates, delete' = [delete EXCEPT ![x] = b],
         b.at # "idle" => b.doc \in Docs /\ row[b.doc] # "none",
         objects' \in SUBSET objects, erasures \subseteq erasures', erasures' \in SUBSET Docs,
         objects \subseteq objects' \cup erasures',
         UNCHANGED <<row, overdue, attached, upload, purge, reader, audits>>, docFaults' \in 0..MaxDocFaults
  PROVE  DocInv'
<1>1. DocTypeOK'
  BY DEF DocInv, DocTypeOK, DeleteStates
<1>2. delete'[x] = b /\ \A y \in Deletes \ {x} : delete'[y] = delete[y]
  BY DEF DocInv, DocTypeOK
<1>3. DocumentsAccountedFor' /\ UploadedIsThere' /\ ReadIsThere'
  BY DEF DocInv, DocumentsAccountedFor, UploadedIsThere, ReadIsThere
<1>4. DeletedWasThere'
  BY <1>2 DEF DocInv, DeletedWasThere
<1>5. LocksExclude' /\ MarksUnderLock'
  BY DEF DocInv, LocksExclude, MarksUnderLock
<1>6. QED
  BY <1>1, <1>3, <1>4, <1>5 DEF DocInv

LEMMA DeleteReadsKeep ==
  ASSUME DocInv, NEW x \in Deletes,
         (\E d \in Docs : FindDocument(x, d)) \/ EraseObject(x) \/ DeleteFails(x)
  PROVE  DocInv'
<1>1. ASSUME NEW d \in Docs, FindDocument(x, d) PROVE DocInv'
  <2> DEFINE b == [at |-> "found", doc |-> d]
  <2>1. b \in DeleteStates /\ b.doc = d /\ row[d] # "none"
    BY <1>1 DEF DeleteStates, FindDocument, LiveRows
  <2>2. delete' = [delete EXCEPT ![x] = b]
    BY <1>1 DEF FindDocument
  <2> HIDE DEF b
  <2>3. QED
    BY <1>1, <2>1, <2>2, DeleteMoves DEF FindDocument, DocInv, DocTypeOK
<1>2. CASE EraseObject(x)
  <2> DEFINE b == [delete[x] EXCEPT !.at = "erased"]
  <2>1. /\ delete[x] \in DeleteStates /\ delete[x].at = "found" /\ delete' = [delete EXCEPT ![x] = b]
        /\ delete[x].doc \in Docs /\ row[delete[x].doc] # "none"
    BY <1>2 DEF EraseObject, DocInv, DocTypeOK, DeletedWasThere, DeleteStates
  <2>2. b \in DeleteStates /\ b.doc = delete[x].doc
    BY <2>1 DEF DeleteStates
  <2> HIDE DEF b
  <2>3. /\ objects' \in SUBSET objects /\ erasures \subseteq erasures' /\ erasures' \in SUBSET Docs
        /\ objects \subseteq objects' \cup erasures'
    BY <1>2, <2>1 DEF EraseObject, DocInv, DocTypeOK
  <2>4. QED
    BY <1>2, <2>1, <2>2, <2>3, DeleteMoves DEF EraseObject, DocInv, DocTypeOK
<1>3. CASE DeleteFails(x)
  <2> DEFINE b == [at |-> "idle", doc |-> NoDoc]
  <2>1. b \in DeleteStates /\ b.at = "idle" /\ delete' = [delete EXCEPT ![x] = b]
    BY <1>3 DEF DeleteStates, DeleteFails, DeleteDone
  <2> HIDE DEF b
  <2>2. QED
    BY <1>3, <2>1, DeleteMoves, NothingErased DEF DeleteFails
<1>4. QED
  BY <1>1, <1>2, <1>3

\* No pass has marked the row, and whoever finds it live is the first to mark it.
LEMMA MarkDeletedKeeps ==
  ASSUME DocInv, NEW x \in Deletes, MarkDeleted(x)
  PROVE  DocInv'
<1>1. PICK d \in Docs : /\ d = delete[x].doc /\ row[d] # "none" /\ Unmarked(d)
                        /\ delete[x].at = "erased"
  BY DEF MarkDeleted, DocInv, DeletedWasThere
<1>2. /\ row' = [row EXCEPT ![d] = "deleted"]
      /\ audits' = IF row[d] \in LiveRows THEN [audits EXCEPT ![d] = @ + 1] ELSE audits
      /\ delete' = [delete EXCEPT ![x] = [at |-> "idle", doc |-> NoDoc]]
      /\ UNCHANGED <<objects, overdue, attached, upload, purge, reader, erasures, docFaults>>
  BY <1>1 DEF MarkDeleted, DeleteDone
<1>3. row'[d] = "deleted" /\ \A e \in Docs \ {d} : row'[e] = row[e]
  BY <1>2 DEF DocInv, DocTypeOK
<1>4. row[d] \in LiveRows \/ row[d] = "deleted"
  BY <1>1 DEF DocInv, DocTypeOK, LiveRows
<1>5. DocTypeOK'
  BY <1>2 DEF DocInv, DocTypeOK, LiveRows
<1>6. DocumentsAccountedFor'
  BY <1>2, <1>3, <1>4 DEF DocInv, DocTypeOK, DocumentsAccountedFor, LiveRows
<1>7. UploadedIsThere' /\ ReadIsThere'
  BY <1>2 DEF DocInv, UploadedIsThere, ReadIsThere
<1>8. DeletedWasThere'
  BY <1>2, <1>3 DEF DocInv, DocTypeOK, DeletedWasThere
<1>9. LocksExclude' /\ MarksUnderLock'
  BY <1>1, <1>2, <1>3 DEF DocInv, DocTypeOK, LocksExclude, MarksUnderLock, Unmarked
<1>10. QED
  BY <1>5, <1>6, <1>7, <1>8, <1>9 DEF DocInv

-----------------------------------------------------------------------------
(* A retention pass *)

\* It gives up its locks, or keeps them and takes ones that nobody else holds.
LEMMA PurgeMoves ==
  ASSUME DocInv, NEW p \in Purges, NEW b \in PurgeStates, purge' = [purge EXCEPT ![p] = b],
         \A q \in Purges \ {p} : b.locked \cap purge[q].locked = {},
         b.marked \subseteq b.locked, \A d \in b.marked : row[d] \in LiveRows,
         b.at \in {"erase", "mark"} => b.now \in b.locked,
         objects' \in SUBSET objects, erasures \subseteq erasures', erasures' \in SUBSET Docs,
         objects \subseteq objects' \cup erasures',
         UNCHANGED <<row, overdue, attached, upload, delete, reader, audits>>, docFaults' \in 0..MaxDocFaults
  PROVE  DocInv'
<1>1. DocTypeOK'
  BY DEF DocInv, DocTypeOK, PurgeStates
<1>2. purge'[p] = b /\ \A q \in Purges \ {p} : purge'[q] = purge[q]
  BY DEF DocInv, DocTypeOK
<1>3. DocumentsAccountedFor' /\ UploadedIsThere' /\ ReadIsThere' /\ DeletedWasThere'
  BY DEF DocInv, DocumentsAccountedFor, UploadedIsThere, ReadIsThere, DeletedWasThere
<1>4. LocksExclude'
  BY <1>2 DEF DocInv, LocksExclude
<1>5. MarksUnderLock'
  BY <1>2 DEF DocInv, MarksUnderLock
<1>6. QED
  BY <1>1, <1>3, <1>4, <1>5 DEF DocInv

LEMMA PurgeIsState ==
  ASSUME DocInv, NEW p \in Purges
  PROVE  /\ purge[p] \in PurgeStates /\ NoPurge \in PurgeStates
         /\ NoPurge.at = "idle" /\ NoPurge.locked = {} /\ NoPurge.marked = {}
  BY DEF DocInv, DocTypeOK, PurgeStates, NoPurge

LEMMA PurgeEndsKeep ==
  ASSUME DocInv, NEW p \in Purges, PurgeFails(p)
  PROVE  DocInv'
<1>1. /\ purge' = [purge EXCEPT ![p] = NoPurge] /\ UNCHANGED <<row, overdue, attached, upload, delete, reader, audits>>
      /\ objects' \in SUBSET objects /\ erasures \subseteq erasures' /\ erasures' \in SUBSET Docs
      /\ objects \subseteq objects' \cup erasures' /\ docFaults' \in 0..MaxDocFaults
  BY NothingErased DEF PurgeFails
<1>2. QED
  BY <1>1, PurgeIsState, PurgeMoves

LEMMA BeginPurgeKeeps ==
  ASSUME DocInv, NEW p \in Purges, BeginPurge(p)
  PROVE  DocInv'
<1> DEFINE todo == {d \in Docs : Purgeable(d)}
           b == [NoPurge EXCEPT !.at = "next", !.todo = todo]
<1>1. todo \in SUBSET Docs
  OBVIOUS
<1> HIDE DEF todo
<1>2. b \in PurgeStates /\ b.at = "next" /\ b.locked = {} /\ b.marked = {}
  BY <1>1 DEF NoPurge, PurgeStates
<1>3. purge' = [purge EXCEPT ![p] = b]
  BY DEF BeginPurge, todo
<1> HIDE DEF b
<1>4. QED
  <2>1. /\ UNCHANGED <<row, overdue, attached, upload, delete, reader, audits>>
        /\ objects' \in SUBSET objects /\ erasures \subseteq erasures' /\ erasures' \in SUBSET Docs
        /\ objects \subseteq objects' \cup erasures' /\ docFaults' \in 0..MaxDocFaults
    BY NothingErased DEF BeginPurge
  <2>2. \A d \in b.marked : row[d] \in LiveRows
    BY <1>2
  <2>3. QED
    BY <1>2, <1>3, <2>1, <2>2, PurgeMoves

\* What Taken makes of a pass.
LEMMA TakenIs ==
  ASSUME DocInv, NEW q \in Purges, NEW d \in Docs
  PROVE  /\ Taken(q, d) \in PurgeStates
         /\ Taken(q, d).locked = purge[q].locked \cup {d} /\ Taken(q, d).marked = purge[q].marked
         /\ Taken(q, d).at \in {"erase", "mark"} => Taken(q, d).now = d
<1> DEFINE at == IF Purgeable(d) THEN "erase" ELSE "next"
           now == IF Purgeable(d) THEN d ELSE NoDoc
<1>1. /\ at \in {"erase", "next"} /\ now \in Docs \cup {NoDoc} /\ (at = "erase" => now = d)
      /\ purge[q] \in PurgeStates
  BY PurgeIsState
<1>2. Taken(q, d) = [purge[q] EXCEPT !.todo = @ \ {d}, !.locked = @ \cup {d}, !.at = at, !.now = now]
  BY DEF Taken
<1> HIDE DEF at, now
<1> DEFINE todo == purge[q].todo \ {d}
           locked == purge[q].locked \cup {d}
<1>3. todo \in SUBSET Docs /\ locked \in SUBSET Docs
  BY <1>1 DEF PurgeStates
<1>4. Taken(q, d) = [purge[q] EXCEPT !.todo = todo, !.locked = locked, !.at = at, !.now = now]
  BY <1>2
<1> HIDE DEF todo, locked
<1>5. /\ Taken(q, d) \in PurgeStates /\ Taken(q, d).locked = locked
      /\ Taken(q, d).marked = purge[q].marked /\ Taken(q, d).at = at /\ Taken(q, d).now = now
  BY <1>1, <1>3, <1>4 DEF PurgeStates
<1>6. QED
  BY <1>1, <1>5 DEF locked

LEMMA TakeDocumentKeeps ==
  ASSUME DocInv, NEW p \in Purges, NEW d \in Docs, TakeDocument(p, d)
  PROVE  DocInv'
<1>1. \A q \in Purges \ {p} : Taken(p, d).locked \cap purge[q].locked = {}
  BY TakenIs DEF TakeDocument, Lockable, DocInv, LocksExclude
<1>2. /\ Taken(p, d).marked \subseteq Taken(p, d).locked
      /\ \A e \in Taken(p, d).marked : row[e] \in LiveRows
      /\ Taken(p, d).at \in {"erase", "mark"} => Taken(p, d).now \in Taken(p, d).locked
  BY TakenIs DEF DocInv, MarksUnderLock
<1>3. QED
  BY <1>1, <1>2, TakenIs, PurgeMoves DEF TakeDocument, DocInv, DocTypeOK

LEMMA PurgeObjectKeeps ==
  ASSUME DocInv, NEW p \in Purges, PurgeObject(p)
  PROVE  DocInv'
<1> DEFINE b == [purge[p] EXCEPT !.at = "mark"]
<1>1. /\ purge[p] \in PurgeStates /\ purge[p].at = "erase" /\ purge' = [purge EXCEPT ![p] = b]
      /\ purge[p].now \in purge[p].locked
  BY PurgeIsState DEF PurgeObject, DocInv, MarksUnderLock
<1>2. /\ b \in PurgeStates /\ b.locked = purge[p].locked /\ b.marked = purge[p].marked
      /\ b.now = purge[p].now
  BY <1>1 DEF PurgeStates
<1> HIDE DEF b
<1>3. purge[p].now \in Docs
  BY <1>1 DEF PurgeStates
<1>4. /\ objects' \in SUBSET objects /\ erasures \subseteq erasures' /\ erasures' \in SUBSET Docs
      /\ objects \subseteq objects' \cup erasures'
  BY <1>3 DEF PurgeObject, DocInv, DocTypeOK
<1>5. /\ \A q \in Purges \ {p} : b.locked \cap purge[q].locked = {}
      /\ b.marked \subseteq b.locked /\ \A d \in b.marked : row[d] \in LiveRows
  BY <1>2 DEF DocInv, LocksExclude, MarksUnderLock
<1>6. QED
  BY <1>1, <1>2, <1>4, <1>5, PurgeMoves DEF PurgeObject, DocInv, DocTypeOK

LEMMA PurgeGoesOnKeeps ==
  ASSUME DocInv, NEW p \in Purges, MarkPurged(p) \/ PurgeRefused(p)
  PROVE  DocInv'
<1>1. PICK marked \in SUBSET purge[p].locked :
        /\ purge' = [purge EXCEPT ![p] = [purge[p] EXCEPT !.at = "next", !.now = NoDoc, !.marked = marked]]
        /\ \A d \in marked : row[d] \in LiveRows
  <2>1. /\ purge[p] \in PurgeStates /\ purge[p].marked \in SUBSET purge[p].locked
        /\ purge[p].now \in purge[p].locked /\ \A d \in purge[p].marked : row[d] \in LiveRows
    BY PurgeIsState DEF MarkPurged, PurgeRefused, DocInv, MarksUnderLock
  <2>2. CASE MarkPurged(p)
    <3> DEFINE marked == IF row[purge[p].now] \in LiveRows THEN purge[p].marked \cup {purge[p].now}
                         ELSE purge[p].marked
    <3>1. marked \in SUBSET purge[p].locked /\ \A d \in marked : row[d] \in LiveRows
      BY <2>1
    <3>2. purge' = [purge EXCEPT ![p] = [purge[p] EXCEPT !.at = "next", !.now = NoDoc, !.marked = marked]]
      BY <2>2 DEF MarkPurged
    <3> HIDE DEF marked
    <3>3. QED
      BY <3>1, <3>2
  <2>3. CASE PurgeRefused(p)
    <3>1. [purge[p] EXCEPT !.at = "next", !.now = NoDoc, !.marked = purge[p].marked]
            = [purge[p] EXCEPT !.at = "next", !.now = NoDoc]
      BY <2>1 DEF PurgeStates
    <3>2. purge' = [purge EXCEPT ![p] = [purge[p] EXCEPT !.at = "next", !.now = NoDoc]]
      BY <2>3 DEF PurgeRefused
    <3>3. QED
      BY <2>1, <3>1, <3>2
  <2>4. QED
    BY <2>2, <2>3
<1> DEFINE b == [purge[p] EXCEPT !.at = "next", !.now = NoDoc, !.marked = marked]
<1>2. purge[p].locked \in SUBSET Docs /\ purge[p] \in PurgeStates
  BY PurgeIsState DEF PurgeStates
<1>3. b \in PurgeStates /\ b.at = "next" /\ b.locked = purge[p].locked /\ b.marked = marked
  BY <1>2 DEF PurgeStates
<1>4. purge' = [purge EXCEPT ![p] = b]
  BY <1>1
<1> HIDE DEF b
<1>5. \A q \in Purges \ {p} : b.locked \cap purge[q].locked = {}
  BY <1>3 DEF DocInv, LocksExclude
<1>6. QED
  <2>1. /\ UNCHANGED <<row, overdue, attached, upload, delete, reader, audits>>
        /\ objects' \in SUBSET objects /\ erasures \subseteq erasures' /\ erasures' \in SUBSET Docs
        /\ objects \subseteq objects' \cup erasures' /\ docFaults' \in 0..MaxDocFaults
    BY NothingErased DEF MarkPurged, PurgeRefused
  <2>2. b.marked \subseteq b.locked /\ \A d \in b.marked : row[d] \in LiveRows
    BY <1>1, <1>3
  <2>3. QED
    BY <1>3, <1>4, <1>5, <2>1, <2>2, PurgeMoves

\* No other pass has marked what this one has, and the rows were live to the end.
LEMMA CommitPurgeKeeps ==
  ASSUME DocInv, NEW p \in Purges, CommitPurge(p)
  PROVE  DocInv'
<1> DEFINE marked == purge[p].marked
<1>1. /\ row' = [d \in Docs |-> IF d \in marked THEN "deleted" ELSE row[d]]
      /\ audits' = [d \in Docs |-> IF d \in marked THEN audits[d] + 1 ELSE audits[d]]
      /\ purge' = [purge EXCEPT ![p] = NoPurge]
      /\ UNCHANGED <<objects, overdue, attached, upload, delete, reader, erasures, docFaults>>
  BY DEF CommitPurge
<1>2. marked \in SUBSET Docs /\ \A d \in marked : row[d] \in LiveRows
  BY PurgeIsState DEF PurgeStates, DocInv, MarksUnderLock
<1>3. \A q \in Purges \ {p} : purge[q].marked \cap marked = {}
  BY DEF DocInv, LocksExclude, MarksUnderLock
<1> HIDE DEF marked
<1>4. /\ purge'[p] = NoPurge /\ \A q \in Purges \ {p} : purge'[q] = purge[q]
  BY <1>1 DEF DocInv, DocTypeOK
<1>5. DocTypeOK'
  <2>1. purge' \in [Purges -> PurgeStates]
    BY <1>1, PurgeIsState DEF DocInv, DocTypeOK, PurgeStates
  <2>2. row' \in [Docs -> {"none", "deleted"} \cup LiveRows] /\ audits' \in [Docs -> Nat]
    BY <1>1 DEF DocInv, DocTypeOK
  <2>3. QED
    BY <1>1, <2>1, <2>2 DEF DocInv, DocTypeOK, PurgeStates
<1>6. DocumentsAccountedFor'
  BY <1>1, <1>2 DEF DocInv, DocTypeOK, DocumentsAccountedFor, LiveRows
<1>7. UploadedIsThere' /\ ReadIsThere' /\ DeletedWasThere'
  BY <1>1 DEF DocInv, UploadedIsThere, ReadIsThere, DeletedWasThere
<1>8. LocksExclude'
  BY <1>4, PurgeIsState DEF DocInv, LocksExclude
<1>9. MarksUnderLock'
  BY <1>1, <1>3, <1>4, PurgeIsState DEF DocInv, DocTypeOK, MarksUnderLock, PurgeStates
<1>10. QED
  BY <1>5, <1>6, <1>7, <1>8, <1>9 DEF DocInv

\* The lock the other pass gets is one that only the loser held.
LEMMA LoseDeadlockKeeps ==
  ASSUME DocInv, NEW p \in Purges, NEW q \in Purges, LoseDeadlock(p, q)
  PROVE  DocInv'
<1>1. PICK d \in purge[p].locked : purge' = [purge EXCEPT ![p] = NoPurge, ![q] = Taken(q, d)]
  BY DEF LoseDeadlock
<1>2. p # q /\ d \in Docs /\ UNCHANGED <<objects, row, overdue, attached, upload, delete, reader, audits, erasures, docFaults>>
  BY PurgeIsState DEF LoseDeadlock, PurgeStates
<1>3. /\ purge'[p] = NoPurge /\ purge'[q] = Taken(q, d)
      /\ \A o \in Purges \ {p, q} : purge'[o] = purge[o]
  BY <1>1, <1>2 DEF DocInv, DocTypeOK
<1>4. DocTypeOK'
  <2>1. purge' \in [Purges -> PurgeStates]
    BY <1>1, <1>2, PurgeIsState, TakenIs DEF DocInv, DocTypeOK, PurgeStates
  <2>2. QED
    BY <1>2, <2>1 DEF DocInv, DocTypeOK, PurgeStates
<1>5. DocumentsAccountedFor' /\ UploadedIsThere' /\ ReadIsThere' /\ DeletedWasThere'
  BY <1>2 DEF DocInv, DocumentsAccountedFor, UploadedIsThere, ReadIsThere, DeletedWasThere
<1>6. /\ purge'[q].locked = purge[q].locked \cup {d} /\ purge'[q].marked = purge[q].marked
      /\ purge'[q].at \in {"erase", "mark"} => purge'[q].now = d
      /\ purge'[p].locked = {} /\ purge'[p].marked = {} /\ purge'[p].at = "idle"
  BY <1>2, <1>3, PurgeIsState, TakenIs
<1>7. \A o \in Purges \ {p} : d \notin purge[o].locked
  BY DEF DocInv, LocksExclude
<1>8. LocksExclude'
  <2>1. SUFFICES ASSUME NEW n \in Purges, NEW o \in Purges, n # o
                 PROVE  purge'[n].locked \cap purge'[o].locked = {}
    BY DEF LocksExclude
  <2>2. purge[n].locked \cap purge[o].locked = {}
    BY <2>1 DEF DocInv, LocksExclude
  <2>3. \A o2 \in Purges : purge'[o2].locked =
           IF o2 = p THEN {} ELSE IF o2 = q THEN purge[o2].locked \cup {d} ELSE purge[o2].locked
    BY <1>2, <1>3, <1>6
  <2>4. QED
    BY <1>7, <2>1, <2>2, <2>3
<1>9. MarksUnderLock'
  <2>1. SUFFICES ASSUME NEW o \in Purges
                 PROVE  /\ purge'[o].marked \subseteq purge'[o].locked
                        /\ \A e \in purge'[o].marked : row[e] \in LiveRows
                        /\ purge'[o].at \in {"erase", "mark"} => purge'[o].now \in purge'[o].locked
    BY <1>2 DEF MarksUnderLock
  <2>2. CASE o \in {p, q}
    BY <1>6, <2>2 DEF DocInv, MarksUnderLock
  <2>3. CASE o \notin {p, q}
    BY <1>3, <2>3 DEF DocInv, MarksUnderLock
  <2>4. QED
    BY <2>2, <2>3
<1>10. QED
  BY <1>4, <1>5, <1>8, <1>9 DEF DocInv

-----------------------------------------------------------------------------

LEMMA DocStep == DocInv /\ [DocNext]_docVars => DocInv'
<1>1. SUFFICES ASSUME DocInv, [DocNext]_docVars PROVE DocInv'
  OBVIOUS
<1>2. CASE UNCHANGED docVars
  BY <1>1, <1>2 DEF docVars, DocInv, DocTypeOK, DocumentsAccountedFor, UploadedIsThere, ReadIsThere,
     DeletedWasThere, LocksExclude, MarksUnderLock
<1>3. ASSUME NEW u \in Uploads, \/ \E d \in Docs : PutObject(u, d)
                                \/ \E withApplication, sameVersion \in BOOLEAN :
                                     Persist(u, withApplication, sameVersion)
      PROVE  DocInv'
  BY <1>1, <1>3, PutObjectKeeps, PersistKeeps
<1>4. ASSUME NEW x \in Deletes, \/ \E d \in Docs : FindDocument(x, d)
                                \/ EraseObject(x) \/ MarkDeleted(x) \/ DeleteFails(x)
      PROVE  DocInv'
  BY <1>1, <1>4, DeleteReadsKeep, MarkDeletedKeeps
<1>5. ASSUME NEW p \in Purges, PurgeStep(p) \/ PurgeRefused(p) \/ PurgeFails(p)
      PROVE  DocInv'
  BY <1>1, <1>5, BeginPurgeKeeps, PurgeObjectKeeps, PurgeGoesOnKeeps, CommitPurgeKeeps,
     TakeDocumentKeeps, PurgeEndsKeep DEF PurgeStep
<1>6. ASSUME NEW p \in Purges, NEW q \in Purges, LoseDeadlock(p, q)
      PROVE  DocInv'
  BY <1>1, <1>6, LoseDeadlockKeeps
<1>7. ASSUME NEW r \in Readers, \/ \E d \in Docs : AllowDownload(r, d) \/ PrepareSubmission(r, d)
                                \/ AllowSubmission(r) \/ ReadHead(r) \/ ReadContent(r) \/ ReadEnds(r)
      PROVE  DocInv'
  BY <1>1, <1>7, ReadersKeep
<1>8. QED
  BY <1>1, <1>2, <1>3, <1>4, <1>5, <1>6, <1>7, SmallStepsKeep DEF DocNext

-----------------------------------------------------------------------------
(* What follows for every behaviour. *)

\* Locks, marks, rows and objects agree between any two steps of uploads, deletes and
\* retention passes (document-storage.ts, document-retention.ts).
THEOREM DocumentsInvariant == DocSpec => []DocInv
  BY DocInitially, DocStep, PTL DEF DocSpec

\* A live row without its object is one somebody began to delete, a reader finds nothing
\* only then, a deletion is recorded once, and what is attached was approved
\* (document-storage.ts:532-534, document-retention.ts:36-53, routes/documents.ts:127-130).
THEOREM DocumentsAreAccountedFor == DocSpec => []DocumentsAccountedFor
<1>1. DocInv => DocumentsAccountedFor
  BY DEF DocInv
<1>2. QED
  BY <1>1, DocumentsInvariant, PTL

\* A tombstone stands: no upload, approval or retention pass under way while a document
\* was deleted brings its row back.
THEOREM TombstonesStand ==
  DocSpec => [][\A d \in Docs : row[d] = "deleted" => row'[d] = "deleted"]_docVars
<1>1. DocInv /\ [DocNext]_docVars =>
        [\A d \in Docs : row[d] = "deleted" => row'[d] = "deleted"]_docVars
  <2>1. SUFFICES ASSUME DocInv, DocNext, NEW d \in Docs, row[d] = "deleted"
                 PROVE  row'[d] = "deleted"
    OBVIOUS
  <2>2. ASSUME NEW u \in Uploads, NEW withApplication \in BOOLEAN, NEW sameVersion \in BOOLEAN,
               Persist(u, withApplication, sameVersion)
        PROVE  row'[d] = "deleted"
    <3>1. CASE d = upload[u]
      BY <2>1, <2>2, <3>1 DEF Persist, Accepted
    <3>2. CASE d # upload[u]
      BY <2>1, <2>2, <3>2 DEF Persist, DocInv, DocTypeOK
    <3>3. QED
      BY <3>1, <3>2
  <2>3. ASSUME NEW e \in Docs, Approve(e)
        PROVE  row'[d] = "deleted"
    BY <2>1, <2>3 DEF Approve, LiveRows, DocInv, DocTypeOK
  <2>4. ASSUME NEW x \in Deletes, MarkDeleted(x)
        PROVE  row'[d] = "deleted"
    BY <2>1, <2>4 DEF MarkDeleted, DocInv, DocTypeOK
  <2>5. ASSUME NEW p \in Purges, CommitPurge(p)
        PROVE  row'[d] = "deleted"
    BY <2>1, <2>5 DEF CommitPurge
  <2>6. \/ UNCHANGED row
        \/ \E u \in Uploads, withApplication \in BOOLEAN, sameVersion \in BOOLEAN :
              Persist(u, withApplication, sameVersion)
        \/ \E e \in Docs : Approve(e)
        \/ \E x \in Deletes : MarkDeleted(x)
        \/ \E p \in Purges : CommitPurge(p)
    BY <2>1 DEF DocNext, PutObject, UploadFails, RowExpires, FindDocument, EraseObject, DeleteFails,
       PurgeStep, BeginPurge, PurgeObject, MarkPurged, TakeDocument, PurgeRefused, PurgeFails, LoseDeadlock,
       AllowDownload, PrepareSubmission, AllowSubmission, ReadHead, ReadContent, ReadEnds, ReaderOnly
  <2>7. QED
    BY <2>1, <2>2, <2>3, <2>4, <2>5, <2>6
<1>2. QED
  BY <1>1, DocumentsInvariant, PTL DEF DocSpec

=============================================================================
