---------------------------- MODULE DocumentStore ----------------------------
(***************************************************************************)
(* The knowledge base: uploads, deletions and searches of documents, which *)
(* live in four places written one after another (the uploads directory,   *)
(* the documents and document_chunks tables, the vectors in Qdrant, and    *)
(* search results in Redis).                                               *)
(*                                                                         *)
(* The handlers are coroutines of one process, as the README starts it: a  *)
(* step is what runs between two awaits, so the synchronous database       *)
(* sessions of DocumentService are not overtaken, its calls to the         *)
(* embedding model and to Qdrant are.  A document's chunks are written and *)
(* deleted together; so are its vectors.  Searches are for one query.      *)
(***************************************************************************)
CONSTANTS
    Documents,  \* documents, each uploaded at most once
    Users,      \* users who search
    Everyone,   \* scope of a global document
    Deletions,  \* delete requests, each handled once
    Searches,   \* searches, each made once
    Nothing     \* no target yet

ASSUME EveryoneAssumption == Everyone \notin Users
ASSUME NothingAssumption == Nothing \notin Documents

VARIABLES
    status,     \* documents row, with "none" before and "deleted" after
    scope,      \* target user of the document, or Everyone
    files,      \* documents whose file is in the uploads directory
    chunks,     \* documents with document_chunks rows
    vectors,    \* documents with vectors in Qdrant
    cache,      \* search results in Redis
    up,         \* where each upload is
    told,       \* what its admin was told
    del,        \* where each deletion is
    target,     \* the document it is about
    find,       \* where each search is
    user,       \* for whom it is made
    allowed,    \* the documents it found accessible
    withdrawn,  \* the documents deleted before it began (history)
    found       \* its results

database == <<status, scope, chunks>>
uploads == <<up, told>>
deletes == <<del, target>>
searches == <<find, user, allowed, withdrawn, found>>
vars == <<database, files, vectors, cache, uploads, deletes, searches>>

Statuses == {"none", "processing", "completed", "failed", "deleted"}
UploadSteps == {"idle", "embedding", "storing", "saving", "over"}
DeleteSteps == {"idle", "vectors", "rows", "deleted", "failed"}
SearchSteps == {"idle", "lookup", "query", "store", "over"}

Entries == [key: SUBSET Documents, hits: SUBSET Documents]

\* Is the documents row there?
Row(d) == status[d] \in {"processing", "completed", "failed"}

Scoped(u) == {d \in Documents : scope[d] \in {u, Everyone}}

Init ==
    /\ status = [d \in Documents |-> "none"]
    /\ scope = [d \in Documents |-> Everyone]
    /\ files = {} /\ chunks = {} /\ vectors = {} /\ cache = {}
    /\ up = [d \in Documents |-> "idle"]
    /\ told = [d \in Documents |-> "none"]
    /\ del = [x \in Deletions |-> "idle"]
    /\ target = [x \in Deletions |-> Nothing]
    /\ find = [q \in Searches |-> "idle"]
    /\ user \in [Searches -> Users]
    /\ allowed = [q \in Searches |-> {}]
    /\ withdrawn = [q \in Searches |-> {}]
    /\ found = [q \in Searches |-> {}]

-----------------------------------------------------------------------------
(* process_document *)

EndUpload(d, answer) ==
    /\ up' = [up EXCEPT ![d] = "over"]
    /\ told' = [told EXCEPT ![d] = answer]

(* The file is written, its text extracted, the row committed.             *)
Upload(d, s) ==
    /\ up[d] = "idle"
    /\ files' = files \cup {d}
    /\ status' = [status EXCEPT ![d] = "processing"]
    /\ scope' = [scope EXCEPT ![d] = s]
    /\ up' = [up EXCEPT ![d] = "embedding"]
    /\ UNCHANGED <<chunks, vectors, cache, told, deletes, searches>>

(* No text, or no row: the file stays.                                     *)
UploadRefused(d) ==
    /\ up[d] = "idle"
    /\ files' = files \cup {d}
    /\ EndUpload(d, "error")
    /\ UNCHANGED <<database, vectors, cache, deletes, searches>>

Embedded(d) ==
    /\ up[d] = "embedding"
    /\ up' = [up EXCEPT ![d] = "storing"]
    /\ UNCHANGED <<database, files, vectors, cache, told, deletes, searches>>

StoreVectors(d) ==
    /\ up[d] = "storing"
    /\ vectors' = vectors \cup {d}
    /\ up' = [up EXCEPT ![d] = "saving"]
    /\ UNCHANGED <<database, files, cache, told, deletes, searches>>

(* The UPDATE of a row that is gone is a StaleDataError.                   *)
Updatable(d) == Row(d)

\* Mutant: a bulk UPDATE, which may match no row unnoticed.
SetStatusInBulk(d, s) == status' = IF Row(d) THEN [status EXCEPT ![d] = s] ELSE status

SetStatus(d, s) ==
    /\ Updatable(d)
    /\ status' = IF Row(d) THEN [status EXCEPT ![d] = s] ELSE status

(* Chunk rows and the new status are one transaction.                      *)
Completed(d) ==
    /\ SetStatus(d, "completed")
    /\ chunks' = chunks \cup {d}
    /\ UNCHANGED scope

SaveChunks(d) ==
    /\ up[d] = "saving"
    /\ Completed(d)
    /\ EndUpload(d, "completed")
    /\ UNCHANGED <<files, vectors, cache, deletes, searches>>

(* The transaction fails, or its acknowledgement is lost.  The handler     *)
(* then uses a session that has to be rolled back first, so its own commit *)
(* fails as well and the document is not marked.                           *)
SaveChunksFails(d) ==
    /\ up[d] = "saving"
    /\ Completed(d) \/ UNCHANGED database
    /\ EndUpload(d, "error")
    /\ UNCHANGED <<files, vectors, cache, deletes, searches>>

Marked(d) == SetStatus(d, "failed")

(* Embedding or storing fails (the vectors may be stored all the same):    *)
(* the handler marks the document, if it can.                              *)
ProcessingFails(d) ==
    /\ up[d] \in {"embedding", "storing"}
    /\ vectors' \in IF up[d] = "storing" THEN {vectors, vectors \cup {d}} ELSE {vectors}
    /\ Marked(d) \/ UNCHANGED status
    /\ EndUpload(d, "error")
    /\ UNCHANGED <<scope, files, chunks, cache, deletes, searches>>

(* The process stops in the middle of an upload, the vectors possibly on   *)
(* their way.                                                              *)
UploadCutOff(d) ==
    /\ up[d] \in {"embedding", "storing", "saving"}
    /\ vectors' \in IF up[d] = "storing" THEN {vectors, vectors \cup {d}} ELSE {vectors}
    /\ up' = [up EXCEPT ![d] = "over"]
    /\ UNCHANGED <<database, files, cache, told, deletes, searches>>

-----------------------------------------------------------------------------
(* delete_document *)

EndDelete(x, step) == del' = [del EXCEPT ![x] = step]

DeleteMissing(x, d) ==
    /\ del[x] = "idle"
    /\ ~Row(d)
    /\ target' = [target EXCEPT ![x] = d]
    /\ EndDelete(x, "failed")
    /\ UNCHANGED <<database, files, vectors, cache, uploads, searches>>

(* The chunk rows name the vectors; without them there are none to delete. *)
DeleteIndexed(x, d) ==
    /\ del[x] = "idle"
    /\ Row(d)
    /\ d \in chunks
    /\ target' = [target EXCEPT ![x] = d]
    /\ del' = [del EXCEPT ![x] = "vectors"]
    /\ UNCHANGED <<database, files, vectors, cache, uploads, searches>>

(* Rows, then the file; each may fail.  Deleting rows that another request *)
(* deleted meanwhile is no error.                                          *)
Erase(x, d) ==
    \/ /\ chunks' = chunks \ {d}
       /\ status' = [status EXCEPT ![d] = "deleted"]
       /\ \/ files' = files \ {d} /\ EndDelete(x, "deleted")
          \/ UNCHANGED files /\ EndDelete(x, "failed")
    \/ UNCHANGED <<status, chunks, files>> /\ EndDelete(x, "failed")

DeleteUnindexed(x, d) ==
    /\ del[x] = "idle"
    /\ Row(d)
    /\ d \notin chunks
    /\ target' = [target EXCEPT ![x] = d]
    /\ Erase(x, d)
    /\ UNCHANGED <<scope, vectors, cache, uploads, searches>>

\* Mutant: the vectors are left to the rows.
DeleteNoVectors(x) ==
    /\ del[x] = "vectors"
    /\ del' = [del EXCEPT ![x] = "rows"]
    /\ UNCHANGED <<database, files, vectors, cache, uploads, target, searches>>

DeleteVectors(x) ==
    /\ del[x] = "vectors"
    /\ vectors' = vectors \ {target[x]}
    /\ del' = [del EXCEPT ![x] = "rows"]
    /\ UNCHANGED <<database, files, cache, uploads, target, searches>>

DeleteRows(x) ==
    /\ del[x] = "rows"
    /\ Erase(x, target[x])
    /\ UNCHANGED <<scope, vectors, cache, uploads, target, searches>>

(* Qdrant fails, or the process stops; the vectors may be gone all the     *)
(* same.                                                                   *)
DeleteCutOff(x) ==
    /\ del[x] \in {"vectors", "rows"}
    /\ vectors' \in IF del[x] = "vectors" THEN {vectors, vectors \ {target[x]}}
                                          ELSE {vectors}
    /\ EndDelete(x, "failed")
    /\ UNCHANGED <<database, files, cache, uploads, target, searches>>

-----------------------------------------------------------------------------
(* _fetch_documents: get_accessible_document_ids, then VectorStore.search  *)

\* Mutant: the status is not looked at.
ScopedOnly(u) == {d \in Scoped(u) : Row(d)}

Accessible(u) == {d \in Scoped(u) : status[d] = "completed"}

BeginSearch(q) ==
    /\ find[q] = "idle"
    /\ allowed' = [allowed EXCEPT ![q] = Accessible(user[q])]
    /\ withdrawn' = [withdrawn EXCEPT ![q] = {d \in Documents : status[d] = "deleted"}]
    /\ find' = [find EXCEPT ![q] = "lookup"]
    /\ UNCHANGED <<database, files, vectors, cache, uploads, deletes, user, found>>

\* Mutant: results are cached for the query alone.
QueryKey(q) == {}

\* Mutant: results are cached for the user, whatever is accessible now.
UserKey(q) == {user[q]}

Key(q) == allowed[q]

Cached(q) == {e \in cache : e.key = Key(q)}

CacheHit(q) ==
    /\ find[q] = "lookup"
    /\ \E e \in Cached(q) : found' = [found EXCEPT ![q] = e.hits]
    /\ find' = [find EXCEPT ![q] = "over"]
    /\ UNCHANGED <<database, files, vectors, cache, uploads, deletes, user, allowed,
                   withdrawn>>

(* No entry, or an error that cache_get swallows.  With nothing allowed    *)
(* there is nothing to search.                                             *)
CacheMiss(q) ==
    /\ find[q] = "lookup"
    /\ find' = [find EXCEPT ![q] = IF allowed[q] = {} THEN "over" ELSE "query"]
    /\ UNCHANGED <<database, files, vectors, cache, uploads, deletes, user, allowed,
                   withdrawn, found>>

(* The nearest vectors of the allowed documents: any of them.              *)
Query(q) ==
    /\ find[q] = "query"
    /\ \E hits \in SUBSET (vectors \cap allowed[q]) :
         found' = [found EXCEPT ![q] = hits]
    /\ find' = [find EXCEPT ![q] = "store"]
    /\ UNCHANGED <<database, files, vectors, cache, uploads, deletes, user, allowed,
                   withdrawn>>

\* cache_set swallows its errors
StoreResults(q) ==
    /\ find[q] = "store"
    /\ \/ cache' = (cache \ Cached(q)) \cup {[key |-> Key(q), hits |-> found[q]]}
       \/ UNCHANGED cache
    /\ find' = [find EXCEPT ![q] = "over"]
    /\ UNCHANGED <<database, files, vectors, uploads, deletes, user, allowed,
                   withdrawn, found>>

(* A failed search is an empty one: the reply is written without sources.  *)
SearchFails(q) ==
    /\ find[q] = "query"
    /\ find' = [find EXCEPT ![q] = "over"]
    /\ UNCHANGED <<database, files, vectors, cache, uploads, deletes, user, allowed,
                   withdrawn, found>>

Expire ==
    /\ \E e \in cache : cache' = cache \ {e}
    /\ UNCHANGED <<database, files, vectors, uploads, deletes, searches>>

-----------------------------------------------------------------------------
UploadNext(d) ==
    \/ \E s \in Users \cup {Everyone} : Upload(d, s)
    \/ UploadRefused(d) \/ Embedded(d) \/ StoreVectors(d)
    \/ SaveChunks(d) \/ SaveChunksFails(d) \/ ProcessingFails(d) \/ UploadCutOff(d)

DeleteNext(x) ==
    \/ \E d \in Documents :
         DeleteMissing(x, d) \/ DeleteIndexed(x, d) \/ DeleteUnindexed(x, d)
    \/ DeleteVectors(x) \/ DeleteRows(x) \/ DeleteCutOff(x)

SearchNext(q) ==
    BeginSearch(q) \/ CacheHit(q) \/ CacheMiss(q) \/ Query(q) \/ StoreResults(q)
        \/ SearchFails(q)

Next ==
    \/ \E d \in Documents : UploadNext(d)
    \/ \E x \in Deletions : DeleteNext(x)
    \/ \E q \in Searches : SearchNext(q)
    \/ Expire

Spec == Init /\ [][Next]_vars

-----------------------------------------------------------------------------
TypeOK ==
    /\ status \in [Documents -> Statuses]
    /\ scope \in [Documents -> Users \cup {Everyone}]
    /\ files \in SUBSET Documents
    /\ chunks \in SUBSET Documents
    /\ vectors \in SUBSET Documents
    /\ cache \in SUBSET Entries
    /\ up \in [Documents -> UploadSteps]
    /\ told \in [Documents -> {"none", "completed", "error"}]
    /\ del \in [Deletions -> DeleteSteps]
    /\ target \in [Deletions -> Documents \cup {Nothing}]
    /\ find \in [Searches -> SearchSteps]
    /\ user \in [Searches -> Users]
    /\ allowed \in [Searches -> SUBSET Documents]
    /\ withdrawn \in [Searches -> SUBSET Documents]
    /\ found \in [Searches -> SUBSET Documents]

(* Whatever vectors or cached results are left behind, a search returns    *)
(* nothing of a document that belongs to another user, and nothing of one  *)
(* that was deleted before the search began.                               *)
RetrievedIsAccessible ==
    \A q \in Searches :
        found[q] \subseteq Scoped(user[q]) \ withdrawn[q]

(* Vectors left by an upload that did not finish are never retrieved: what *)
(* a search returns was, at some time, completely stored.                  *)
RetrievedWasCompleted ==
    \A q \in Searches : \A d \in found[q] : status[d] \in {"completed", "deleted"}

(* Nothing in the schema ties document_chunks to documents; still no chunk *)
(* outlives its document, and a completed document has its chunks.  Its    *)
(* vectors are there too unless some deletion got as far as Qdrant.        *)
CompletedIsStored ==
    \A d \in Documents :
        /\ d \in chunks <=> status[d] = "completed"
        /\ status[d] = "completed" /\ d \notin vectors =>
             \E x \in Deletions : target[x] = d /\ del[x] \in {"rows", "failed"}

(* A row never names a file that is not there: the file is written before  *)
(* the row and removed after it, by whichever of several deletions.        *)
RowsHaveFiles == \A d \in Documents : Row(d) => d \in files

(* Once an upload was reported as completed, a deletion (the last of       *)
(* several, with failures in between) leaves no vectors.                   *)
DeletionIsClean ==
    \A d \in Documents :
        told[d] = "completed" /\ status[d] = "deleted" => d \notin vectors

(* delete_document: "Delete document and its vectors".  After a successful *)
(* deletion, with no upload of the document still at work, its vectors are *)
(* gone.                                                                   *)
DeletionRemovesVectors ==
    \A x \in Deletions :
        del[x] = "deleted" /\ up[target[x]] = "over" => target[x] \notin vectors

-----------------------------------------------------------------------------
(* The knowledge base behaves as the Library does, whichever of its four   *)
(* stores are ahead of or behind the others: a document is on offer when   *)
(* its row says it is completed, and a search sees what was accessible     *)
(* when it began, by way of the cache or of the vectors.                   *)
Lib == INSTANCE Library
    WITH offered <- [d \in {c \in Documents : status[c] = "completed"} |-> scope[d]],
         withdrawn <- {d \in Documents : status[d] = "deleted"},
         confirmed <- {d \in Documents : told[d] = "completed"},
         phase <- [q \in Searches |->
                     CASE find[q] = "idle" -> "idle"
                       [] find[q] \in {"lookup", "query"} -> "open"
                       [] OTHER -> "answered"],
         view <- allowed,
         answer <- found

ImplementsLibrary == Lib!Spec
=============================================================================
