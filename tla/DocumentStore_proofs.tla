------------------------ MODULE DocumentStore_proofs -------------------------
(***************************************************************************)
(* Proofs about DocumentStore for any documents, users, deletions and      *)
(* searches.  IInv says where an upload and a deletion can be, given what  *)
(* is stored, and that search results stay within what was accessible.     *)
(***************************************************************************)
EXTENDS DocumentStore, TLAPS

(* What an upload in progress has done so far.                             *)
UploadInv ==
    \A d \in Documents :
        /\ up[d] = "idle" => status[d] = "none"
        /\ up[d] \in {"embedding", "storing", "saving"} =>
             status[d] \in {"processing", "deleted"}
        /\ up[d] = "saving" => d \in vectors
        /\ told[d] = "completed" =>
             up[d] = "over" /\ status[d] \in {"completed", "deleted"}

(* A deletion has vectors to delete only of a completed upload.            *)
DeleteInv ==
    \A x \in Deletions :
        /\ del[x] \in {"vectors", "rows"} =>
             /\ target[x] \in Documents
             /\ up[target[x]] = "over"
             /\ status[target[x]] \in {"completed", "deleted"}
        /\ del[x] = "rows" => target[x] \notin vectors

SearchInv ==
    /\ \A e \in cache : e.hits \subseteq e.key
    /\ \A q \in Searches :
         /\ find[q] \in {"idle", "lookup", "query"} => found[q] = {}
         /\ found[q] \subseteq allowed[q]
         /\ allowed[q] \subseteq Scoped(user[q]) \ withdrawn[q]
         /\ \A d \in allowed[q] : status[d] \in {"completed", "deleted"}

StoredInv == CompletedIsStored /\ RowsHaveFiles /\ DeletionIsClean

IInv == TypeOK /\ UploadInv /\ DeleteInv /\ SearchInv /\ StoredInv

-----------------------------------------------------------------------------
(* Type correctness: no handler, however interrupted, leaves a value       *)
(* outside its type.                                                       *)
LEMMA TypeStep == TypeOK /\ [Next]_vars => TypeOK'
<1> SUFFICES ASSUME TypeOK, [Next]_vars PROVE TypeOK'
  OBVIOUS
<1> USE DEF database, uploads, deletes, searches
<1>1. ASSUME NEW d \in Documents, UploadNext(d) PROVE TypeOK'
  BY <1>1 DEF TypeOK, UploadNext, Upload, UploadRefused, Embedded, StoreVectors,
       SaveChunks, SaveChunksFails, ProcessingFails, UploadCutOff, Completed,
       Marked, SetStatus, EndUpload, Statuses, UploadSteps
<1>2. ASSUME NEW x \in Deletions, DeleteNext(x) PROVE TypeOK'
  <2>1. ASSUME NEW d \in Documents,
               DeleteMissing(x, d) \/ DeleteIndexed(x, d) \/ DeleteUnindexed(x, d)
        PROVE  TypeOK'
    BY <2>1 DEF TypeOK, DeleteMissing, DeleteIndexed, DeleteUnindexed, Erase,
         EndDelete, Statuses, DeleteSteps
  <2>2. ASSUME DeleteVectors(x) \/ DeleteCutOff(x) PROVE TypeOK'
    BY <2>2 DEF TypeOK, DeleteVectors, DeleteCutOff, EndDelete, DeleteSteps
  <2>3. ASSUME DeleteRows(x) PROVE TypeOK'
    BY <2>3 DEF TypeOK, DeleteRows, Erase, EndDelete, Statuses, DeleteSteps
  <2> QED BY <1>2, <2>1, <2>2, <2>3 DEF DeleteNext
<1>3. ASSUME NEW q \in Searches, SearchNext(q) PROVE TypeOK'
  <2>1. ASSUME BeginSearch(q) \/ CacheMiss(q) \/ Query(q) \/ SearchFails(q)
        PROVE  TypeOK'
    BY <2>1 DEF TypeOK, BeginSearch, CacheMiss, Query, SearchFails, Accessible,
         Scoped, SearchSteps
  <2>2. ASSUME CacheHit(q) PROVE TypeOK'
    BY <2>2 DEF TypeOK, CacheHit, Cached, Entries, SearchSteps
  <2>3. ASSUME StoreResults(q) PROVE TypeOK'
    BY <2>3 DEF TypeOK, StoreResults, Cached, Key, Entries, SearchSteps
  <2> QED BY <1>3, <2>1, <2>2, <2>3 DEF SearchNext
<1>4. ASSUME Expire PROVE TypeOK'
  BY <1>4 DEF TypeOK, Expire
<1>5. ASSUME UNCHANGED vars PROVE TypeOK'
  BY <1>5 DEF TypeOK, vars
<1> QED BY <1>1, <1>2, <1>3, <1>4, <1>5 DEF Next

-----------------------------------------------------------------------------
(* The initial states satisfy the invariant.                               *)
LEMMA Starts == Init => IInv
<1> SUFFICES ASSUME Init PROVE IInv
  OBVIOUS
<1>1. TypeOK
  BY DEF Init, TypeOK, Statuses, UploadSteps, DeleteSteps, SearchSteps
<1>2. UploadInv /\ DeleteInv /\ SearchInv
  BY DEF Init, UploadInv, DeleteInv, SearchInv
<1>3. StoredInv
  BY DEF Init, StoredInv, CompletedIsStored, RowsHaveFiles, DeletionIsClean, Row
<1> QED BY <1>1, <1>2, <1>3 DEF IInv
-----------------------------------------------------------------------------
(* An upload's steps preserve the invariant: it alone writes the status of *)
(* its document, which a deletion can only have taken away.                *)
LEMMA UploadStep ==
    ASSUME IInv, NEW d \in Documents, UploadNext(d)
    PROVE  UploadInv' /\ DeleteInv' /\ SearchInv' /\ StoredInv'
<1> USE DEF IInv, database, uploads, deletes, searches
<1>1. ASSUME NEW s \in Users \cup {Everyone}, Upload(d, s)
      PROVE  UploadInv' /\ DeleteInv' /\ SearchInv' /\ StoredInv'
  <2>1. UploadInv'
    BY <1>1 DEF Upload, TypeOK, UploadInv
  <2>2. DeleteInv'
    BY <1>1 DEF Upload, TypeOK, UploadInv, DeleteInv
  <2>3. SearchInv'
    BY <1>1 DEF Upload, TypeOK, UploadInv, SearchInv, Scoped
  <2>4. StoredInv'
    BY <1>1 DEF Upload, TypeOK, UploadInv, StoredInv, CompletedIsStored,
         RowsHaveFiles, DeletionIsClean, Row
  <2> QED BY <2>1, <2>2, <2>3, <2>4
<1>2. ASSUME UploadRefused(d) \/ Embedded(d)
      PROVE  UploadInv' /\ DeleteInv' /\ SearchInv' /\ StoredInv'
  <2>1. UploadInv'
    BY <1>2 DEF UploadRefused, Embedded, EndUpload, TypeOK, UploadInv
  <2>2. DeleteInv'
    BY <1>2 DEF UploadRefused, Embedded, EndUpload, TypeOK, UploadInv, DeleteInv
  <2>3. SearchInv'
    BY <1>2 DEF UploadRefused, Embedded, SearchInv, Scoped
  <2>4. StoredInv'
    BY <1>2 DEF UploadRefused, Embedded, EndUpload, TypeOK, StoredInv,
         CompletedIsStored, RowsHaveFiles, DeletionIsClean, Row
  <2> QED BY <2>1, <2>2, <2>3, <2>4
<1>3. ASSUME StoreVectors(d) \/ UploadCutOff(d)
      PROVE  UploadInv' /\ DeleteInv' /\ SearchInv' /\ StoredInv'
  <2>1. UploadInv'
    BY <1>3 DEF StoreVectors, UploadCutOff, TypeOK, UploadInv
  <2>2. DeleteInv'
    BY <1>3 DEF StoreVectors, UploadCutOff, TypeOK, UploadInv, DeleteInv
  <2>3. SearchInv'
    BY <1>3 DEF StoreVectors, UploadCutOff, SearchInv, Scoped
  <2>4. StoredInv'
    BY <1>3 DEF StoreVectors, UploadCutOff, TypeOK, UploadInv, StoredInv,
         CompletedIsStored, RowsHaveFiles, DeletionIsClean, Row
  <2> QED BY <2>1, <2>2, <2>3, <2>4
<1>4. ASSUME SaveChunks(d) \/ SaveChunksFails(d)
      PROVE  UploadInv' /\ DeleteInv' /\ SearchInv' /\ StoredInv'
  <2>1. UploadInv'
    BY <1>4 DEF SaveChunks, SaveChunksFails, Completed, SetStatus, Updatable, Row,
         EndUpload, TypeOK, UploadInv
  <2>2. DeleteInv'
    BY <1>4 DEF SaveChunks, SaveChunksFails, Completed, SetStatus, Updatable, Row,
         EndUpload, TypeOK, UploadInv, DeleteInv
  <2>3. SearchInv'
    BY <1>4 DEF SaveChunks, SaveChunksFails, Completed, SetStatus, Updatable, Row,
         TypeOK, SearchInv, Scoped
  <2>4. StoredInv'
    BY <1>4 DEF SaveChunks, SaveChunksFails, Completed, SetStatus, Updatable,
         EndUpload, TypeOK, UploadInv, StoredInv, CompletedIsStored,
         RowsHaveFiles, DeletionIsClean, Row
  <2> QED BY <2>1, <2>2, <2>3, <2>4
<1>5. ASSUME ProcessingFails(d)
      PROVE  UploadInv' /\ DeleteInv' /\ SearchInv' /\ StoredInv'
  <2>1. UploadInv'
    BY <1>5 DEF ProcessingFails, Marked, SetStatus, Updatable, Row, EndUpload,
         TypeOK, UploadInv
  <2>2. DeleteInv'
    BY <1>5 DEF ProcessingFails, Marked, SetStatus, Updatable, Row, EndUpload,
         TypeOK, UploadInv, DeleteInv
  <2>3. SearchInv'
    BY <1>5 DEF ProcessingFails, Marked, SetStatus, Updatable, Row, TypeOK,
         UploadInv, SearchInv, Scoped
  <2>4. StoredInv'
    BY <1>5 DEF ProcessingFails, Marked, SetStatus, Updatable, EndUpload, TypeOK,
         UploadInv, StoredInv, CompletedIsStored, RowsHaveFiles, DeletionIsClean, Row
  <2> QED BY <2>1, <2>2, <2>3, <2>4
<1> QED BY <1>1, <1>2, <1>3, <1>4, <1>5 DEF UploadNext

(* A deletion's steps preserve it: vectors go before the rows that name    *)
(* them, rows before the file.                                             *)
LEMMA DeleteStep ==
    ASSUME IInv, NEW x \in Deletions, DeleteNext(x)
    PROVE  UploadInv' /\ DeleteInv' /\ SearchInv' /\ StoredInv'
<1> USE DEF IInv, database, uploads, deletes, searches
<1>1. ASSUME NEW d \in Documents, DeleteMissing(x, d) \/ DeleteIndexed(x, d)
      PROVE  UploadInv' /\ DeleteInv' /\ SearchInv' /\ StoredInv'
  <2>1. UploadInv' /\ SearchInv'
    BY <1>1 DEF DeleteMissing, DeleteIndexed, UploadInv, SearchInv, Scoped
  <2>2. DeleteInv'
    BY <1>1 DEF DeleteMissing, DeleteIndexed, EndDelete, TypeOK, UploadInv, DeleteInv,
         UploadSteps, StoredInv, CompletedIsStored
  <2>3. StoredInv'
    BY <1>1 DEF DeleteMissing, DeleteIndexed, EndDelete, TypeOK, StoredInv,
         CompletedIsStored, RowsHaveFiles, DeletionIsClean, Row
  <2> QED BY <2>1, <2>2, <2>3
<1>2. ASSUME NEW d \in Documents, DeleteUnindexed(x, d)
      PROVE  UploadInv' /\ DeleteInv' /\ SearchInv' /\ StoredInv'
  <2>1. UploadInv' /\ SearchInv'
    BY <1>2 DEF DeleteUnindexed, Erase, Row, TypeOK, UploadInv, SearchInv, Scoped
  <2>2. DeleteInv'
    BY <1>2 DEF DeleteUnindexed, Erase, EndDelete, TypeOK, DeleteInv
  <2>3. StoredInv'
    BY <1>2 DEF DeleteUnindexed, Erase, EndDelete, TypeOK, UploadInv, StoredInv,
         CompletedIsStored, RowsHaveFiles, DeletionIsClean, Row
  <2> QED BY <2>1, <2>2, <2>3
<1>3. ASSUME DeleteVectors(x) \/ DeleteCutOff(x)
      PROVE  UploadInv' /\ DeleteInv' /\ SearchInv' /\ StoredInv'
  <2>1. UploadInv' /\ SearchInv'
    BY <1>3 DEF DeleteVectors, DeleteCutOff, TypeOK, UploadInv, DeleteInv, SearchInv, Scoped
  <2>2. DeleteInv'
    BY <1>3 DEF DeleteVectors, DeleteCutOff, EndDelete, TypeOK, DeleteInv
  <2>3. StoredInv'
    BY <1>3 DEF DeleteVectors, DeleteCutOff, EndDelete, TypeOK, StoredInv,
         CompletedIsStored, RowsHaveFiles, DeletionIsClean, Row
  <2> QED BY <2>1, <2>2, <2>3
<1>4. ASSUME DeleteRows(x)
      PROVE  UploadInv' /\ DeleteInv' /\ SearchInv' /\ StoredInv'
  <2>1. UploadInv' /\ SearchInv'
    BY <1>4 DEF DeleteRows, Erase, TypeOK, UploadInv, DeleteInv, SearchInv, Scoped
  <2>2. DeleteInv'
    BY <1>4 DEF DeleteRows, Erase, EndDelete, TypeOK, DeleteInv
  <2>3. StoredInv'
    BY <1>4 DEF DeleteRows, Erase, EndDelete, TypeOK, DeleteInv, StoredInv,
         CompletedIsStored, RowsHaveFiles, DeletionIsClean, Row
  <2> QED BY <2>1, <2>2, <2>3
<1> QED BY <1>1, <1>2, <1>3, <1>4 DEF DeleteNext

(* A search's steps preserve it: results are cached under the documents    *)
(* they were allowed to come from.                                         *)
LEMMA SearchStep ==
    ASSUME IInv, NEW q \in Searches, SearchNext(q)
    PROVE  UploadInv' /\ DeleteInv' /\ SearchInv' /\ StoredInv'
<1> USE DEF IInv, database, uploads, deletes, searches
<1>1. UNCHANGED <<database, files, vectors, uploads, deletes>>
  BY DEF SearchNext, BeginSearch, CacheHit, CacheMiss, Query, StoreResults, SearchFails
<1>2. UploadInv' /\ DeleteInv' /\ StoredInv'
  BY <1>1 DEF UploadInv, DeleteInv, StoredInv, CompletedIsStored, RowsHaveFiles,
       DeletionIsClean, Row
<1>3. CASE BeginSearch(q)
  BY <1>2, <1>3 DEF BeginSearch, TypeOK, SearchInv, Accessible, Scoped
<1>4. CASE CacheHit(q)
  <2>1. PICK e \in Cached(q) : found' = [found EXCEPT ![q] = e.hits]
    BY <1>4 DEF CacheHit
  <2>2. e.hits \subseteq allowed[q]
    BY <2>1 DEF Cached, Key, SearchInv
  <2>3. /\ found' \in [Searches -> SUBSET Documents] /\ found'[q] \subseteq allowed[q]
        /\ \A p \in Searches \ {q} : found'[p] = found[p]
    BY <2>1, <2>2 DEF TypeOK, Cached, Entries
  <2>4. SearchInv'
    BY <1>1, <1>4, <2>3 DEF CacheHit, TypeOK, SearchInv, Scoped
  <2> QED BY <1>2, <2>4
<1>5. CASE CacheMiss(q) \/ SearchFails(q)
  BY <1>2, <1>5 DEF CacheMiss, SearchFails, TypeOK, SearchInv, Scoped
<1>6. CASE Query(q)
  BY <1>2, <1>6 DEF Query, TypeOK, SearchInv, Scoped
<1>7. CASE StoreResults(q)
  BY <1>2, <1>7 DEF StoreResults, Cached, Key, TypeOK, SearchInv, Scoped
<1> QED BY <1>3, <1>4, <1>5, <1>6, <1>7 DEF SearchNext

(* Every step preserves the invariant.                                     *)
LEMMA Steps == IInv /\ [Next]_vars => IInv'
<1> SUFFICES ASSUME IInv, [Next]_vars PROVE IInv'
  OBVIOUS
<1>1. TypeOK'
  BY TypeStep DEF IInv
<1>2. UploadInv' /\ DeleteInv' /\ SearchInv' /\ StoredInv'
  <2>1. CASE Expire
    BY <2>1 DEF IInv, Expire, database, uploads, deletes, searches, UploadInv,
         DeleteInv, SearchInv, StoredInv, CompletedIsStored, RowsHaveFiles,
         DeletionIsClean, Row, Scoped
  <2>2. CASE UNCHANGED vars
    BY <2>2 DEF IInv, vars, database, uploads, deletes, searches, UploadInv,
         DeleteInv, SearchInv, StoredInv, CompletedIsStored, RowsHaveFiles,
         DeletionIsClean, Row, Scoped
  <2> QED BY <2>1, <2>2, UploadStep, DeleteStep, SearchStep DEF Next
<1> QED BY <1>1, <1>2 DEF IInv

(* The invariant holds in every reachable state.                           *)
LEMMA Invariance == Spec => []IInv
<1> QED BY Starts, Steps, PTL DEF Spec

(* Type correctness of the knowledge base.                                 *)
THEOREM TypeCorrect == Spec => []TypeOK
<1>1. IInv => TypeOK
  BY DEF IInv
<1> QED BY <1>1, Invariance, PTL

(* No search returns anything of another user's document, or of a document *)
(* that was deleted before the search began.                               *)
THEOREM AlwaysAccessible == Spec => []RetrievedIsAccessible
<1>1. IInv => RetrievedIsAccessible
  BY DEF IInv, SearchInv, RetrievedIsAccessible
<1> QED BY <1>1, Invariance, PTL

(* No search returns what an unfinished upload left in the vector store.   *)
THEOREM AlwaysCompleted == Spec => []RetrievedWasCompleted
<1>1. IInv => RetrievedWasCompleted
  BY DEF IInv, SearchInv, RetrievedWasCompleted
<1> QED BY <1>1, Invariance, PTL

(* Chunk rows exist exactly for completed documents, and their vectors are *)
(* missing only after a deletion reached the vector store.                 *)
THEOREM AlwaysStored == Spec => []CompletedIsStored
<1>1. IInv => CompletedIsStored
  BY DEF IInv, StoredInv
<1> QED BY <1>1, Invariance, PTL

(* Every documents row has its file.                                       *)
THEOREM AlwaysFiled == Spec => []RowsHaveFiles
<1>1. IInv => RowsHaveFiles
  BY DEF IInv, StoredInv
<1> QED BY <1>1, Invariance, PTL

(* Deleting a document whose upload was reported complete leaves no        *)
(* vectors.                                                                *)
THEOREM AlwaysClean == Spec => []DeletionIsClean
<1>1. IInv => DeletionIsClean
  BY DEF IInv, StoredInv
<1> QED BY <1>1, Invariance, PTL

-----------------------------------------------------------------------------
(* Refinement: saving the chunks offers a document, erasing its row        *)
(* withdraws it, a search answers when it has its results; everything else *)
(* is a stutter.                                                           *)
OnOffer == {d \in Documents : status[d] = "completed"}
Offers == [d \in OnOffer |-> scope[d]]
Withdrawn == {d \in Documents : status[d] = "deleted"}
Confirmed == {d \in Documents : told[d] = "completed"}
Phase(step) ==
    CASE step = "idle" -> "idle"
      [] step \in {"lookup", "query"} -> "open"
      [] OTHER -> "answered"
Phases == [q \in Searches |-> Phase(find[q])]

(* The phase of a search at each of its steps.                             *)
LEMMA PhaseOf ==
    /\ Phase("idle") = "idle"
    /\ Phase("lookup") = "open" /\ Phase("query") = "open"
    /\ Phase("store") = "answered" /\ Phase("over") = "answered"
<1>1. Phase("idle") = "idle" /\ Phase("lookup") = "open" /\ Phase("query") = "open"
  BY DEF Phase
<1>2. Phase("store") = "answered"
  BY DEF Phase
<1>3. Phase("over") = "answered"
  BY DEF Phase
<1> QED BY <1>1, <1>2, <1>3

(* The library of the initial states is empty.                             *)
LEMMA InitRefines == Init => Lib!Init
<1> SUFFICES ASSUME Init
             PROVE  Lib!Init
  OBVIOUS
<1>1. \A q \in Searches : Phase(find[q]) = "idle"
  BY DEF Init, Phase
<1>2. OnOffer = {} /\ Withdrawn = {} /\ Confirmed = {}
  BY DEF Init, OnOffer, Withdrawn, Confirmed
<1>3. Offers = [d \in {} |-> Everyone]
  BY <1>2 DEF Offers
<1>4. Phases = [q \in Searches |-> "idle"]
  BY <1>1 DEF Phases
<1> QED BY <1>2, <1>3, <1>4
        DEF Init, Lib!Init, OnOffer, Offers, Withdrawn, Confirmed, Phases, Phase

(* What is on offer stays so if no row becomes or stops being completed.   *)
LEMMA OffersStay ==
    ASSUME \A d \in Documents : status'[d] = "completed" <=> status[d] = "completed",
           \A d \in OnOffer : scope'[d] = scope[d]
    PROVE  Offers' = Offers
<1>1. OnOffer' = OnOffer
  BY DEF OnOffer
<1> QED BY <1>1 DEF Offers

(* A step that neither offers nor withdraws, confirms nor moves a search   *)
(* from one phase to another, is none of the library's.                    *)
LEMMA Stutters ==
    ASSUME Offers' = Offers, Withdrawn' = Withdrawn, Confirmed' = Confirmed,
           Phases' = Phases, UNCHANGED <<user, allowed, found>>
    PROVE  UNCHANGED Lib!vars
BY DEF Lib!vars, OnOffer, Offers, Withdrawn, Confirmed, Phases, Phase

(* Uploads offer a document in one step, and nothing before or after it.   *)
LEMMA UploadRefines ==
    ASSUME IInv, NEW d \in Documents, UploadNext(d)
    PROVE  [Lib!Next]_(Lib!vars)
<1> USE DEF database, uploads, deletes, searches
<1>1. UNCHANGED <<searches, Phases>>
  BY DEF UploadNext, Upload, UploadRefused, Embedded, StoreVectors, SaveChunks,
         SaveChunksFails, ProcessingFails, UploadCutOff, Phases, Phase
<1>2. ASSUME up[d] # "over", status' = status \/ status[d] # "completed",
             \A c \in Documents : status'[c] = "deleted" <=> status[c] = "deleted",
             \A c \in Documents : status'[c] = "completed" <=> status[c] = "completed",
             \A c \in Documents \ {d} : scope'[c] = scope[c],
             status[d] # "completed" \/ scope'[d] = scope[d],
             told' = told \/ told' = [told EXCEPT ![d] = "error"]
      PROVE  UNCHANGED Lib!vars
  <2>1. Offers' = Offers
    BY <1>2, OffersStay DEF OnOffer
  <2>2. Withdrawn' = Withdrawn
    BY <1>2 DEF Withdrawn
  <2>3. told[d] # "completed"
    BY <1>2 DEF IInv, UploadInv
  <2>4. Confirmed' = Confirmed
    BY <1>2, <2>3 DEF Confirmed, IInv, TypeOK
  <2> QED BY <1>1, <2>1, <2>2, <2>4, Stutters
<1>3. ASSUME NEW s \in Users \cup {Everyone}, Upload(d, s)
      PROVE  UNCHANGED Lib!vars
  BY <1>2, <1>3 DEF Upload, IInv, TypeOK, UploadInv
<1>4. ASSUME UploadRefused(d) \/ Embedded(d) \/ StoreVectors(d) \/ UploadCutOff(d)
      PROVE  UNCHANGED Lib!vars
  BY <1>2, <1>4 DEF UploadRefused, Embedded, StoreVectors, UploadCutOff, EndUpload
<1>5. ASSUME ProcessingFails(d)
      PROVE  UNCHANGED Lib!vars
  BY <1>2, <1>5 DEF ProcessingFails, Marked, SetStatus, Updatable, Row, EndUpload,
     IInv, TypeOK, UploadInv
<1>6. ASSUME NEW s, s = scope[d], up[d] = "saving", Completed(d),
             told' \in {[told EXCEPT ![d] = "completed"], [told EXCEPT ![d] = "error"]}
      PROVE  Lib!Offer(d, s)
  <2>1. /\ status[d] = "processing" /\ scope' = scope /\ told[d] # "completed"
        /\ status' = [status EXCEPT ![d] = "completed"]
    BY <1>6 DEF IInv, TypeOK, UploadInv, Completed, SetStatus, Updatable, Row
  <2>2. d \notin OnOffer /\ d \notin Withdrawn /\ Withdrawn' = Withdrawn
    BY <2>1 DEF OnOffer, Withdrawn, IInv, TypeOK
  <2>3. OnOffer' = OnOffer \cup {d}
    BY <2>1 DEF OnOffer, IInv, TypeOK
  <2>4. Offers' = [c \in OnOffer \cup {d} |-> IF c = d THEN s ELSE Offers[c]]
    BY <1>6, <2>1, <2>3 DEF Offers
  <2>5. Confirmed' \in {Confirmed, Confirmed \cup {d}}
    BY <1>6, <2>1 DEF Confirmed, IInv, TypeOK
  <2>6. DOMAIN Offers = OnOffer
    BY DEF Offers
  <2> QED BY <1>1, <2>2, <2>4, <2>5, <2>6
          DEF Lib!Offer, OnOffer, Offers, Withdrawn, Confirmed, Phases, Phase
<1>7. ASSUME SaveChunks(d) \/ SaveChunksFails(d)
      PROVE  [Lib!Next]_(Lib!vars)
  <2>1. PICK s \in Users \cup {Everyone} : s = scope[d]
    BY DEF IInv, TypeOK
  <2>2. CASE Completed(d)
    <3>1. Lib!Offer(d, s)
      BY <1>6, <1>7, <2>1, <2>2 DEF SaveChunks, SaveChunksFails, EndUpload
    <3> QED BY <2>1, <3>1 DEF Lib!Next
  <2>3. CASE ~Completed(d)
    <3>1. UNCHANGED Lib!vars
      BY <1>2, <1>7, <2>3 DEF SaveChunks, SaveChunksFails, EndUpload
    <3> QED BY <3>1
  <2> QED BY <2>2, <2>3
<1> QED BY <1>3, <1>4, <1>5, <1>7 DEF UploadNext

(* The first deletion of a document's row withdraws it, offered or not.    *)
LEMMA DeleteRefines ==
    ASSUME IInv, NEW x \in Deletions, DeleteNext(x)
    PROVE  [Lib!Next]_(Lib!vars)
<1> USE DEF database, uploads, deletes, searches
<1>1. UNCHANGED <<searches, Phases, uploads, Confirmed>>
  BY DEF DeleteNext, DeleteMissing, DeleteIndexed, DeleteUnindexed, DeleteVectors,
         DeleteRows, DeleteCutOff, Phases, Phase, Confirmed
<1>2. ASSUME UNCHANGED <<status, scope>>
      PROVE  UNCHANGED Lib!vars
  <2>1. Offers' = Offers /\ Withdrawn' = Withdrawn
    BY <1>2 DEF Offers, OnOffer, Withdrawn
  <2> QED BY <1>1, <2>1, Stutters
<1>3. ASSUME NEW d \in Documents, Erase(x, d), scope' = scope
      PROVE  [Lib!Next]_(Lib!vars)
  <2>1. CASE status' = status
    BY <1>2, <1>3, <2>1
  <2>2. CASE status' # status
    <3>1. /\ status' = [status EXCEPT ![d] = "deleted"]
          /\ status[d] # "deleted" /\ status'[d] = "deleted"
      BY <1>3, <2>2 DEF Erase, IInv, TypeOK
    <3>2. /\ Withdrawn' = Withdrawn \cup {d} /\ d \notin Withdrawn
          /\ OnOffer' = OnOffer \ {d}
      BY <3>1 DEF Withdrawn, OnOffer, IInv, TypeOK
    <3>3. Offers' = [c \in OnOffer \ {d} |-> Offers[c]] /\ DOMAIN Offers = OnOffer
      BY <1>3, <3>2 DEF Offers
    <3>4. Lib!Withdraw(d)
      BY <1>1, <3>2, <3>3
      DEF Lib!Withdraw, OnOffer, Offers, Withdrawn, Confirmed, Phases, Phase
    <3> QED BY <3>4 DEF Lib!Next
  <2> QED BY <2>1, <2>2
<1>4. ASSUME NEW d \in Documents, DeleteUnindexed(x, d)
      PROVE  [Lib!Next]_(Lib!vars)
  BY <1>3, <1>4 DEF DeleteUnindexed
<1>5. ASSUME DeleteRows(x)
      PROVE  [Lib!Next]_(Lib!vars)
  <2>1. PICK d \in Documents : d = target[x]
    BY <1>5 DEF DeleteRows, IInv, DeleteInv
  <2>2. Erase(x, d) /\ scope' = scope
    BY <1>5, <2>1 DEF DeleteRows, Erase, EndDelete
  <2> QED BY <1>3, <2>2
<1>6. ASSUME \/ \E d \in Documents : DeleteMissing(x, d) \/ DeleteIndexed(x, d)
             \/ DeleteVectors(x) \/ DeleteCutOff(x)
      PROVE  UNCHANGED Lib!vars
  BY <1>2, <1>6 DEF DeleteMissing, DeleteIndexed, DeleteVectors, DeleteCutOff
<1> QED BY <1>4, <1>5, <1>6 DEF DeleteNext

(* A search begins and answers once each; what it finds was in its view.   *)
LEMMA SearchRefines ==
    ASSUME IInv, NEW q \in Searches, SearchNext(q)
    PROVE  [Lib!Next]_(Lib!vars)
<1> USE DEF database, uploads, deletes, searches
<1>1. Offers' = Offers /\ Withdrawn' = Withdrawn /\ Confirmed' = Confirmed /\ user' = user
  BY DEF SearchNext, BeginSearch, CacheHit, CacheMiss, Query, StoreResults, SearchFails,
         Offers, OnOffer, Withdrawn, Confirmed
<1>2. Phases[q] = Phase(find[q]) /\ find \in [Searches -> SearchSteps]
  BY DEF Phases, IInv, TypeOK
<1>3. ASSUME NEW step, find' = [find EXCEPT ![q] = step]
      PROVE  Phases' = [Phases EXCEPT ![q] = Phase(step)]
  BY <1>2, <1>3 DEF Phases
<1>4. CASE BeginSearch(q)
  <2>1. Phases[q] = "idle" /\ Phases' = [Phases EXCEPT ![q] = "open"]
    BY <1>2, <1>3, <1>4, PhaseOf DEF BeginSearch
  <2>2. Accessible(user[q]) = {d \in DOMAIN Offers : Offers[d] \in {user[q], Everyone}}
    BY DEF Accessible, Scoped, Offers, OnOffer
  <2>3. /\ allowed' = [allowed EXCEPT ![q] =
                          {d \in DOMAIN Offers : Offers[d] \in {user[q], Everyone}}]
        /\ UNCHANGED <<user, found>>
    BY <1>4, <2>2 DEF BeginSearch
  <2>4. Lib!Begin(q)
    BY <1>1, <2>1, <2>3
    DEF Lib!Begin, OnOffer, Offers, Withdrawn, Confirmed, Phases, Phase
  <2> QED BY <2>4 DEF Lib!Next
<1>5. ASSUME Phases[q] = "open", Phases' = [Phases EXCEPT ![q] = "answered"],
             \E hits \in SUBSET allowed[q] : found' = [found EXCEPT ![q] = hits],
             UNCHANGED <<user, allowed>>
      PROVE  [Lib!Next]_(Lib!vars)
  <2>1. Lib!Answer(q)
    BY <1>1, <1>5 DEF Lib!Answer, OnOffer, Offers, Withdrawn, Confirmed, Phases, Phase
  <2> QED BY <2>1 DEF Lib!Next
<1>6. CASE CacheHit(q)
  <2>1. PICK e \in Cached(q) : found' = [found EXCEPT ![q] = e.hits]
    BY <1>6 DEF CacheHit
  <2>2. e.hits \subseteq allowed[q]
    BY <2>1 DEF Cached, Key, IInv, SearchInv
  <2>3. Phases[q] = "open" /\ Phases' = [Phases EXCEPT ![q] = "answered"]
    BY <1>2, <1>3, <1>6, PhaseOf DEF CacheHit
  <2> QED BY <1>5, <1>6, <2>1, <2>2, <2>3 DEF CacheHit
<1>7. CASE CacheMiss(q)
  <2>1. find[q] = "lookup" /\ UNCHANGED <<user, allowed, found>> /\ Phases[q] = "open"
    BY <1>2, <1>7, PhaseOf DEF CacheMiss
  <2>2. CASE allowed[q] = {}
    <3>1. Phases' = [Phases EXCEPT ![q] = "answered"]
      BY <1>3, <1>7, <2>2, PhaseOf DEF CacheMiss
    <3>2. found[q] = {} /\ found' = [found EXCEPT ![q] = {}]
      BY <2>1 DEF IInv, TypeOK, SearchInv
    <3> QED BY <1>5, <2>1, <3>1, <3>2
  <2>3. CASE allowed[q] # {}
    <3>1. Phases' = [Phases EXCEPT ![q] = "open"]
      BY <1>3, <1>7, <2>3, PhaseOf DEF CacheMiss
    <3>2. Phases' = Phases
      BY <2>1, <3>1 DEF Phases
    <3> QED BY <1>1, <2>1, <3>2, Stutters
  <2> QED BY <2>2, <2>3
<1>8. CASE Query(q)
  <2>1. Phases[q] = "open" /\ Phases' = [Phases EXCEPT ![q] = "answered"]
    BY <1>2, <1>3, <1>8, PhaseOf DEF Query
  <2> QED BY <1>5, <1>8, <2>1 DEF Query
<1>9. CASE StoreResults(q)
  <2>1. Phases[q] = "answered" /\ Phases' = [Phases EXCEPT ![q] = "answered"]
    BY <1>2, <1>3, <1>9, PhaseOf DEF StoreResults
  <2>2. Phases' = Phases
    BY <2>1 DEF Phases
  <2> QED BY <1>1, <1>9, <2>2, Stutters DEF StoreResults
<1>10. CASE SearchFails(q)
  <2>1. Phases[q] = "open" /\ Phases' = [Phases EXCEPT ![q] = "answered"]
    BY <1>2, <1>3, <1>10, PhaseOf DEF SearchFails
  <2>2. found[q] = {} /\ found' = [found EXCEPT ![q] = {}]
    BY <1>10 DEF SearchFails, IInv, TypeOK, SearchInv
  <2> QED BY <1>5, <1>10, <2>1, <2>2 DEF SearchFails
<1> QED BY <1>4, <1>6, <1>7, <1>8, <1>9, <1>10 DEF SearchNext

(* Every step is one of the library's or a stutter.                        *)
LEMMA StepRefines ==
    ASSUME IInv, [Next]_vars
    PROVE  [Lib!Next]_(Lib!vars)
<1>1. ASSUME Expire \/ UNCHANGED vars
      PROVE  UNCHANGED Lib!vars
  BY <1>1 DEF Expire, vars, database, uploads, deletes, searches, Lib!vars
<1> QED BY <1>1, UploadRefines, DeleteRefines, SearchRefines DEF Next

(* What the knowledge base answers is what its library would: whole        *)
(* documents, offered to the user at one moment, and none that was         *)
(* withdrawn before.                                                       *)
THEOREM RefinesLibrary == Spec => ImplementsLibrary
BY InitRefines, StepRefines, Invariance, PTL DEF Spec, Lib!Spec, ImplementsLibrary
=============================================================================
