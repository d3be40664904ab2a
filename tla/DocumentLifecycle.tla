------------------------- MODULE DocumentLifecycle -------------------------
(***************************************************************************)
(* The life of a policy document in one tenant: upload, parsing, embedding *)
(* and indexing, human review, reindexing, deletion, and what a crash of   *)
(* the process leaves behind (app/services/document_service.py).           *)
(*                                                                         *)
(* Every handler is an `async def` coroutine of one event loop.  The only  *)
(* point where it lets the loop go is the embedding call, so the steps of  *)
(* one request between two awaits interleave with a crash but not with     *)
(* another request.  A step of this module is one durable effect: a commit *)
(* of the SQL session, a write of one chunk to an index, a batch of        *)
(* best-effort deletions, a change to the original files.                  *)
(***************************************************************************)
EXTENDS Integers, FiniteSets

CONSTANTS
  Docs,         \* Document.id values (uuid4: never used twice)
  Families,     \* DocumentFamily.id values
  Sources,      \* what an upload carries: file, audience and validity dates
  Files,        \* file contents, which is also what names an original
  FileOf,       \* the file of a source
  EffectiveOf,  \* first day of validity (0 when the source gives none)
  ExpiryOf,     \* last day of validity (past LastDay when it gives none)
  Chunks,       \* the chunks a parsed document is cut into
  Tasks,        \* requests that may be in flight at the same time
  LastDay,      \* bound on the calendar
  MaxCrashes,   \* bound on the crashes of a behaviour
  FailureVerdicts, \* quality verdicts under which processing fails at once
  DbFaults,     \* whether a commit may fail (locked or full database)
  None

ASSUME DataAssumption ==
  /\ FileOf \in [Sources -> Files]
  /\ EffectiveOf \in [Sources -> Nat]
  /\ ExpiryOf \in [Sources -> Nat]
  /\ IsFiniteSet(Docs)
  /\ Chunks # {}
  /\ LastDay \in Nat
  /\ MaxCrashes \in Nat
  /\ FailureVerdicts \subseteq {"failed", "review_required", "passed"}
  /\ DbFaults \in BOOLEAN
ASSUME NoneAssumption == None \notin Docs \union Sources

VARIABLES
  snap,       \* identity of a row: family, source, version, index_generation
  status,     \* Document.status, "unused" before and "deleted" after the row
  quality,    \* Document.parse_quality_status
  review,     \* Document.review_status
  chunks,     \* status of the DocumentChunk rows: they always change together
  families,   \* the DocumentFamily rows that exist
  current,    \* DocumentFamily.current_document_id
  originals,  \* files in the content-addressed store
  vec,        \* chunks of each document in the (persistent) vector store
  bm25,       \* chunks of each document in the (in-memory) BM25 index
  pc,         \* where each request stands
  work,       \* the document a request works on
  prev,       \* reindex: the document to replace; None for an upload
  today,      \* date.today()
  crashes     \* crashes so far, against MaxCrashes

(* History: documents left behind by a request that ended half-way. *)
VARIABLES
  abandoned,   \* still "processing", and no request works on them any more
  halfDeleted  \* taken out of the indexes by a delete that kept the row

rowVars   == <<snap, status, quality, review, chunks>>
indexVars == <<vec, bm25>>
taskVars  == <<pc, work, prev>>
histVars  == <<abandoned, halfDeleted>>
vars == <<rowVars, families, current, originals, indexVars, taskVars,
          today, crashes, histVars>>

----------------------------------------------------------------------------
Snapshot == [family: Families, source: Sources, version: Nat, gen: Nat]
NoSnapshot == [family |-> None, source |-> None, version |-> 0, gen |-> 0]

Numbers == 1..Cardinality(Docs)

(* Mutant: the next number is the count of the rows, plus one. *)
IsNextByCount(n, used) == n = Cardinality(used) + 1

(* func.max(...) + 1 over the numbers in use; 1 when there are none. *)
IsNext(n, used) == /\ \A m \in used : m < n
                   /\ n = 1 \/ n - 1 \in used

Exists(d) == status[d] \notin {"unused", "deleted"}
Rows == {d \in Docs : Exists(d)}
Family(d) == snap[d].family
File(d) == FileOf[snap[d].source]
IsCurrent(d) == current[Family(d)] = d

(* A request suspended in the embedding call is the only one that does not *)
(* hold the loop.                                                          *)
LoopFree == \A t \in Tasks : pc[t] \in {"idle", "embed"}

Goto(t, label) ==
  /\ pc' = [pc EXCEPT ![t] = label]
  /\ UNCHANGED <<work, prev>>

End(t) ==
  /\ pc' = [pc EXCEPT ![t] = "idle"]
  /\ work' = [work EXCEPT ![t] = None]
  /\ prev' = [prev EXCEPT ![t] = None]

Begin(t, label, d, replaced) ==
  /\ pc[t] = "idle"
  /\ pc' = [pc EXCEPT ![t] = label]
  /\ work' = [work EXCEPT ![t] = d]
  /\ prev' = [prev EXCEPT ![t] = replaced]

Init ==
  /\ snap = [d \in Docs |-> NoSnapshot]
  /\ status = [d \in Docs |-> "unused"]
  /\ quality = [d \in Docs |-> "unknown"]
  /\ review = [d \in Docs |-> "pending_review"]
  /\ chunks = [d \in Docs |-> "none"]
  /\ families = {}
  /\ current = [f \in Families |-> None]
  /\ originals = {}
  /\ vec = [d \in Docs |-> {}]
  /\ bm25 = [d \in Docs |-> {}]
  /\ pc = [t \in Tasks |-> "idle"]
  /\ work = [t \in Tasks |-> None]
  /\ prev = [t \in Tasks |-> None]
  /\ today = 0
  /\ crashes = 0
  /\ abandoned = {}
  /\ halfDeleted = {}

----------------------------------------------------------------------------
(* The content-addressed store of original files (document_storage.py).    *)

(* A temporary file, synced and moved into place; nothing to do when the   *)
(* content is there already.                                               *)
StoreOriginal(file) == originals' = originals \union {file}

OriginalAvailable(d) == File(d) \in originals

DeleteOriginal(file) == originals' = originals \ {file}

----------------------------------------------------------------------------
(* upload_document *)

(* Mutant: inside a known family anything can be imported. *)
ImportableAgain(f, s) ==
  f \notin families => \A d \in Rows : File(d) # FileOf[s]

(* The "Document already imported" checks: by content across the tenant    *)
(* for a new family, by content, audience and dates inside a known one.    *)
Importable(f, s) ==
  IF f \in families
  THEN \A d \in Rows : ~(Family(d) = f /\ snap[d].source = s)
  ELSE \A d \in Rows : File(d) # FileOf[s]

NextVersion(f, v) ==
  IsNext(v, {snap[d].version : d \in {e \in Rows : Family(e) = f}})

(* Mutant: the row starts in a status nobody knows. *)
InsertQueued(t, d, snapshot, verdict, replaced) ==
  /\ status[d] = "unused"
  /\ snap' = [snap EXCEPT ![d] = snapshot]
  /\ status' = [status EXCEPT ![d] = "queued"]
  /\ review' = [review EXCEPT ![d] = verdict]
  /\ Begin(t, "parse", d, replaced)

(* The row of a new snapshot is committed and its processing begins. *)
Insert(t, d, snapshot, verdict, replaced) ==
  /\ status[d] = "unused"
  /\ snap' = [snap EXCEPT ![d] = snapshot]
  /\ status' = [status EXCEPT ![d] = "processing"]
  /\ review' = [review EXCEPT ![d] = verdict]
  /\ Begin(t, "parse", d, replaced)

Upload(t, f, s) ==
  /\ LoopFree
  /\ EffectiveOf[s] <= ExpiryOf[s]
  /\ Importable(f, s)
  /\ StoreOriginal(FileOf[s])
  /\ families' = families \union {f}
  /\ \E d \in Docs, v \in Numbers :
       /\ NextVersion(f, v)
       /\ Insert(t, d, [family |-> f, source |-> s, version |-> v, gen |-> 1],
                 "pending_review", None)
  /\ UNCHANGED <<quality, chunks, current, indexVars, today, crashes,
                 histVars>>

(* The original is stored and the commit of the row does not happen. *)
UploadAborts(f, s) ==
  /\ LoopFree
  /\ DbFaults
  /\ EffectiveOf[s] <= ExpiryOf[s]
  /\ Importable(f, s)
  /\ StoreOriginal(FileOf[s])
  /\ UNCHANGED <<rowVars, families, current, indexVars, taskVars, today,
                 crashes, histVars>>

----------------------------------------------------------------------------
(* reindex_document, up to the call of _process_snapshot *)

NextGeneration(c, g) ==
  IsNext(g, {snap[d].gen : d \in {e \in Rows :
                 Family(e) = Family(c) /\ snap[e].version = snap[c].version}})

Reindex(t, c) ==
  /\ LoopFree
  /\ Exists(c)
  /\ IsCurrent(c)
  /\ status[c] = "ready"
  /\ review[c] = "approved"
  /\ OriginalAvailable(c)
  /\ \E d \in Docs, g \in Numbers :
       /\ NextGeneration(c, g)
       /\ Insert(t, d, [snap[c] EXCEPT !.gen = g], "approved", c)
  /\ UNCHANGED <<quality, chunks, families, current, originals, indexVars,
                 today, crashes, histVars>>

----------------------------------------------------------------------------
(* _process_snapshot *)

(* Parsing fails or the quality gate says failed; under the other verdicts *)
(* chunking fails or returns no chunk.                                     *)
ParseFails(t) ==
  /\ pc[t] = "parse"
  /\ \E q \in FailureVerdicts :
       quality' = [quality EXCEPT ![work[t]] = q]
  /\ status' = [status EXCEPT ![work[t]] = "failed"]
  /\ End(t)
  /\ UNCHANGED <<snap, review, chunks, families, current, originals, indexVars,
                 today, crashes, histVars>>

ParseNeedsReview(t) ==
  /\ pc[t] = "parse"
  /\ quality' = [quality EXCEPT ![work[t]] = "review_required"]
  /\ chunks' = [chunks EXCEPT ![work[t]] = "inactive"]
  /\ status' = [status EXCEPT ![work[t]] = "review_required"]
  /\ End(t)
  /\ UNCHANGED <<snap, review, families, current, originals, indexVars, today,
                 crashes, histVars>>

ParsePasses(t) ==
  /\ pc[t] = "parse"
  /\ quality' = [quality EXCEPT ![work[t]] = "passed"]
  /\ chunks' = [chunks EXCEPT ![work[t]] = "inactive"]
  /\ Goto(t, "embed")
  /\ UNCHANGED <<snap, status, review, families, current, originals, indexVars,
                 today, crashes, histVars>>

(* The commit that ends the parsing section does not happen. *)
ParseAborts(t) ==
  /\ DbFaults
  /\ pc[t] = "parse"
  /\ End(t)
  /\ abandoned' = abandoned \union {work[t]}
  /\ UNCHANGED <<rowVars, families, current, originals, indexVars, today,
                 crashes, halfDeleted>>

(* The third attempt to embed some chunk fails, or the row was deleted     *)
(* during the call: reading the id of its first chunk raises.              *)
EmbedFails(t) ==
  /\ LoopFree
  /\ pc[t] = "embed"
  /\ Goto(t, "undo")
  /\ UNCHANGED <<rowVars, families, current, originals, indexVars, today,
                 crashes, histVars>>

EmbedDone(t) ==
  /\ LoopFree
  /\ pc[t] = "embed"
  /\ Exists(work[t])
  /\ Goto(t, "vectors")
  /\ UNCHANGED <<rowVars, families, current, originals, indexVars, today,
                 crashes, histVars>>

AddVector(t) ==
  /\ pc[t] = "vectors"
  /\ \E c \in Chunks \ vec[work[t]] :
       vec' = [vec EXCEPT ![work[t]] = @ \union {c}]
  /\ Goto(t, IF vec'[work[t]] = Chunks THEN "bm25" ELSE "vectors")
  /\ UNCHANGED <<rowVars, families, current, originals, bm25, today, crashes,
                 histVars>>

AddBm25(t) ==
  /\ pc[t] = "bm25"
  /\ \E c \in Chunks \ bm25[work[t]] :
       bm25' = [bm25 EXCEPT ![work[t]] = @ \union {c}]
  /\ Goto(t, IF bm25'[work[t]] = Chunks THEN "publish" ELSE "bm25")
  /\ UNCHANGED <<rowVars, families, current, originals, vec, today, crashes,
                 histVars>>

(* vs.add or bm.add raises, after it wrote the chunk or before.            *)
IndexFails(t) ==
  /\ pc[t] \in {"vectors", "bm25"}
  /\ Goto(t, "undo")
  /\ UNCHANGED <<rowVars, families, current, originals, indexVars, today,
                 crashes, histVars>>

(* The publishing commit raises and is rolled back. *)
PublishFails(t) ==
  /\ DbFaults
  /\ pc[t] = "publish"
  /\ Goto(t, "undo")
  /\ UNCHANGED <<rowVars, families, current, originals, indexVars, today,
                 crashes, histVars>>

PublishUpload(t) ==
  /\ pc[t] = "publish"
  /\ prev[t] = None
  /\ status' = [status EXCEPT ![work[t]] = "ready"]
  /\ chunks' = [chunks EXCEPT ![work[t]] = "active"]
  /\ End(t)
  /\ UNCHANGED <<snap, quality, review, families, current, originals,
                 indexVars, today, crashes, histVars>>

(* Mutant: the old chunks stay active. *)
PublishKeepingOld(t) ==
  /\ pc[t] = "publish"
  /\ prev[t] # None
  /\ current[Family(work[t])] = prev[t]
  /\ status' = [status EXCEPT ![work[t]] = "ready"]
  /\ chunks' = [chunks EXCEPT ![work[t]] = "active"]
  /\ current' = [current EXCEPT ![Family(work[t])] = work[t]]
  /\ Goto(t, "retire")
  /\ UNCHANGED <<snap, quality, review, families, originals, indexVars, today,
                 crashes, histVars>>

(* Mutant: the pointer is moved without looking at it again. *)
PublishUnchecked(t) ==
  /\ pc[t] = "publish"
  /\ prev[t] # None
  /\ status' = [status EXCEPT ![work[t]] = "ready"]
  /\ chunks' = [chunks EXCEPT ![work[t]] = "active", ![prev[t]] = "inactive"]
  /\ current' = [current EXCEPT ![Family(work[t])] = work[t]]
  /\ Goto(t, "retire")
  /\ UNCHANGED <<snap, quality, review, families, originals, indexVars, today,
                 crashes, histVars>>

(* One commit activates the new chunks, moves the pointer and deactivates  *)
(* the old chunks, provided nobody moved the pointer since the start.      *)
PublishReindex(t) ==
  /\ pc[t] = "publish"
  /\ prev[t] # None
  /\ current[Family(work[t])] = prev[t]
  /\ status' = [status EXCEPT ![work[t]] = "ready"]
  /\ chunks' = [chunks EXCEPT ![work[t]] = "active", ![prev[t]] = "inactive"]
  /\ current' = [current EXCEPT ![Family(work[t])] = work[t]]
  /\ Goto(t, "retire")
  /\ UNCHANGED <<snap, quality, review, families, originals, indexVars, today,
                 crashes, histVars>>

(* "Current document changed during reindex" *)
PublishRefused(t) ==
  /\ pc[t] = "publish"
  /\ prev[t] # None
  /\ current[Family(work[t])] # prev[t]
  /\ Goto(t, "undo")
  /\ UNCHANGED <<rowVars, families, current, originals, indexVars, today,
                 crashes, histVars>>

(* Best-effort removal of a document from both indexes: some of its chunks *)
(* may stay.                                                               *)
Unindex(d) ==
  /\ \E left \in SUBSET vec[d] : vec' = [vec EXCEPT ![d] = left]
  /\ \E left \in SUBSET bm25[d] : bm25' = [bm25 EXCEPT ![d] = left]

Undo(t) ==
  /\ pc[t] = "undo"
  /\ Unindex(work[t])
  /\ Goto(t, "checkpoint")
  /\ UNCHANGED <<rowVars, families, current, originals, today, crashes,
                 histVars>>

(* Mutant: the chunks are marked and the document is forgotten. *)
CheckpointForgets(t) ==
  /\ pc[t] = "checkpoint"
  /\ chunks' = [chunks EXCEPT ![work[t]] = IF Exists(work[t]) THEN "inactive" ELSE @]
  /\ End(t)
  /\ UNCHANGED <<snap, status, quality, review, families, current, originals,
                 indexVars, today, crashes, histVars>>

(* The failure is committed after the rollback; `.one()` raises if the row *)
(* is gone.                                                                *)
Checkpoint(t) ==
  /\ pc[t] = "checkpoint"
  /\ IF Exists(work[t])
     THEN /\ status' = [status EXCEPT ![work[t]] = "failed"]
          /\ chunks' = [chunks EXCEPT ![work[t]] = "inactive"]
     ELSE UNCHANGED <<status, chunks>>
  /\ End(t)
  /\ UNCHANGED <<snap, quality, review, families, current, originals,
                 indexVars, today, crashes, histVars>>

(* Mutant: a failing checkpoint is tried again, without end. *)
CheckpointRetries(t) ==
  /\ DbFaults
  /\ pc[t] = "checkpoint"
  /\ Exists(work[t])
  /\ Goto(t, "undo")
  /\ UNCHANGED <<rowVars, families, current, originals, indexVars, today,
                 crashes, histVars>>

CheckpointAborts(t) ==
  /\ DbFaults
  /\ pc[t] = "checkpoint"
  /\ Exists(work[t])
  /\ End(t)
  /\ abandoned' = abandoned \union {work[t]}
  /\ UNCHANGED <<rowVars, families, current, originals, indexVars, today,
                 crashes, halfDeleted>>

(* Mutant: the wrong generation is taken out of the indexes. *)
RetireNew(t) ==
  /\ pc[t] = "retire"
  /\ Unindex(work[t])
  /\ End(t)
  /\ UNCHANGED <<rowVars, families, current, originals, today, crashes,
                 histVars>>

Retire(t) ==
  /\ pc[t] = "retire"
  /\ Unindex(prev[t])
  /\ End(t)
  /\ UNCHANGED <<rowVars, families, current, originals, today, crashes,
                 histVars>>

----------------------------------------------------------------------------
(* review_document *)

Pending(d) == Exists(d) /\ review[d] = "pending_review"

Approve(d) ==
  /\ LoopFree
  /\ Pending(d)
  /\ status[d] = "ready"
  /\ quality[d] = "passed"
  /\ EffectiveOf[snap[d].source] <= today
  /\ today <= ExpiryOf[snap[d].source]
  /\ current' = [current EXCEPT ![Family(d)] = d]
  /\ review' = [review EXCEPT ![d] = "approved"]
  /\ UNCHANGED <<snap, status, quality, chunks, families, originals, indexVars,
                 taskVars, today, crashes, histVars>>

Reject(d) ==
  /\ LoopFree
  /\ Pending(d)
  /\ review' = [review EXCEPT ![d] = "rejected"]
  /\ UNCHANGED <<snap, status, quality, chunks, families, current, originals,
                 indexVars, taskVars, today, crashes, histVars>>

----------------------------------------------------------------------------
(* delete_document: both indexes first, then the row, then the original *)

(* Mutant: nothing protects the current document. *)
DeleteAny(t, d) ==
  /\ LoopFree
  /\ Exists(d)
  /\ Begin(t, "del_index", d, None)
  /\ UNCHANGED <<rowVars, families, current, originals, indexVars, today,
                 crashes, histVars>>

Delete(t, d) ==
  /\ LoopFree
  /\ Exists(d)
  /\ ~IsCurrent(d)
  /\ Begin(t, "del_index", d, None)
  /\ UNCHANGED <<rowVars, families, current, originals, indexVars, today,
                 crashes, histVars>>

DeleteIndexed(t) ==
  /\ pc[t] = "del_index"
  /\ Unindex(work[t])
  /\ Goto(t, "del_row")
  /\ UNCHANGED <<rowVars, families, current, originals, today, crashes,
                 histVars>>

(* Mutant: only the versions of the same family are looked at. *)
LastInFamily(d) ==
  \A e \in Rows \ {d} : Family(e) = Family(d) => File(e) # File(d)

(* No other row was imported from the same file. *)
LastReference(d) == \A e \in Rows \ {d} : File(e) # File(d)

(* The row is gone for good, and the original goes with its last reference *)
(* unless an OSError (or a crash before the unlink) leaves it.             *)
DeleteRow(t) ==
  LET d == work[t] IN
  /\ pc[t] = "del_row"
  /\ snap' = [snap EXCEPT ![d] = NoSnapshot]
  /\ status' = [status EXCEPT ![d] = "deleted"]
  /\ quality' = [quality EXCEPT ![d] = "unknown"]
  /\ review' = [review EXCEPT ![d] = "pending_review"]
  /\ chunks' = [chunks EXCEPT ![d] = "none"]
  /\ \/ /\ LastReference(d)
        /\ DeleteOriginal(File(d))
     \/ UNCHANGED originals
  /\ End(t)
  /\ abandoned' = abandoned \ {d}
  /\ halfDeleted' = halfDeleted \ {d}
  /\ UNCHANGED <<families, current, indexVars, today, crashes>>

DeleteRowAborts(t) ==
  /\ DbFaults
  /\ pc[t] = "del_row"
  /\ End(t)
  /\ halfDeleted' = halfDeleted \union {work[t]}
  /\ UNCHANGED <<rowVars, families, current, originals, indexVars, today,
                 crashes, abandoned>>

----------------------------------------------------------------------------
(* The process dies and restarts: requests are gone, the vector store and  *)
(* the database persist, lifespan rebuilds BM25 from the active chunks of  *)
(* ready documents.                                                        *)
Processing(t) == pc[t] \in {"parse", "embed", "vectors", "bm25", "publish",
                            "undo", "checkpoint"}

CrashRestart ==
  /\ crashes < MaxCrashes
  /\ crashes' = crashes + 1
  /\ pc' = [t \in Tasks |-> "idle"]
  /\ work' = [t \in Tasks |-> None]
  /\ prev' = [t \in Tasks |-> None]
  /\ bm25' = [d \in Docs |-> IF status[d] = "ready" /\ chunks[d] = "active"
                             THEN Chunks ELSE {}]
  /\ abandoned' = abandoned \union {work[t] : t \in {u \in Tasks : Processing(u)}}
  /\ halfDeleted' = halfDeleted \union
       {work[t] : t \in {u \in Tasks : pc[u] \in {"del_index", "del_row"}}}
  /\ UNCHANGED <<rowVars, families, current, originals, vec, today>>

Tick ==
  /\ today < LastDay
  /\ today' = today + 1
  /\ UNCHANGED <<rowVars, families, current, originals, indexVars, taskVars,
                 crashes, histVars>>

----------------------------------------------------------------------------
Process(t) ==
  \/ ParseFails(t) \/ ParseNeedsReview(t) \/ ParsePasses(t) \/ ParseAborts(t)
  \/ EmbedFails(t) \/ EmbedDone(t)
  \/ AddVector(t) \/ AddBm25(t) \/ IndexFails(t)
  \/ PublishUpload(t) \/ PublishReindex(t) \/ PublishRefused(t)
  \/ PublishFails(t)
  \/ Undo(t) \/ Checkpoint(t) \/ CheckpointAborts(t) \/ Retire(t)

Remove(t) ==
  DeleteIndexed(t) \/ DeleteRow(t) \/ DeleteRowAborts(t)

Request(t) ==
  \/ \E f \in Families, s \in Sources : Upload(t, f, s)
  \/ \E d \in Docs : Reindex(t, d) \/ Delete(t, d)

Next ==
  \/ \E t \in Tasks : Request(t) \/ Process(t) \/ Remove(t)
  \/ \E f \in Families, s \in Sources : UploadAborts(f, s)
  \/ \E d \in Docs : Approve(d) \/ Reject(d)
  \/ CrashRestart
  \/ Tick

Spec == Init /\ [][Next]_vars

(* The event loop runs a request that holds it, and every embedding call   *)
(* returns or fails (its retries are bounded); nothing makes a user act.   *)
(* A suspended request competes for the loop with new requests, so the     *)
(* resumption after an await is strongly fair: the loop serves its ready   *)
(* callbacks in order.                                                     *)
Fairness == \A t \in Tasks : /\ WF_vars(Process(t) \/ Remove(t))
                             /\ SF_vars(EmbedFails(t) \/ EmbedDone(t))

FairSpec == Spec /\ Fairness
----------------------------------------------------------------------------
Statuses == {"unused", "processing", "ready", "review_required", "failed",
             "deleted"}
Labels == {"idle", "parse", "embed", "vectors", "bm25", "publish", "undo",
           "checkpoint", "retire", "del_index", "del_row"}

(* Every variable has its type. *)
TypeOK ==
  /\ snap \in [Docs -> Snapshot \union {NoSnapshot}]
  /\ status \in [Docs -> Statuses]
  /\ quality \in [Docs -> {"unknown", "passed", "review_required", "failed"}]
  /\ review \in [Docs -> {"pending_review", "approved", "rejected"}]
  /\ chunks \in [Docs -> {"none", "inactive", "active"}]
  /\ families \in SUBSET Families
  /\ current \in [Families -> Docs \union {None}]
  /\ originals \in SUBSET Files
  /\ vec \in [Docs -> SUBSET Chunks]
  /\ bm25 \in [Docs -> SUBSET Chunks]
  /\ pc \in [Tasks -> Labels]
  /\ work \in [Tasks -> Docs \union {None}]
  /\ prev \in [Tasks -> Docs \union {None}]
  /\ today \in 0..LastDay
  /\ crashes \in 0..MaxCrashes
  /\ abandoned \in SUBSET Docs
  /\ halfDeleted \in SUBSET Docs

(* What governed search asks of a document besides its dates.              *)
Servable(d) ==
  /\ status[d] = "ready"
  /\ review[d] = "approved"
  /\ quality[d] = "passed"
  /\ chunks[d] = "active"

(* The document a family points at always exists, belongs to the family,   *)
(* was approved after passing the quality gate and has its chunks active:  *)
(* no deletion, failed reindex, late reindex or crash leaves the pointer   *)
(* on anything else (search_knowledge would then answer NO_RESULTS).       *)
CurrentIsServable ==
  \A f \in Families : current[f] # None =>
    Servable(current[f]) /\ Family(current[f]) = f

(* Every chunk of the current document is in both indexes, whatever failed *)
(* or died on the way, unless a deletion was cut short between the indexes *)
(* and the row of that very document.                                      *)
CurrentIsIndexed ==
  \A f \in Families : current[f] \notin halfDeleted \union {None} =>
    vec[current[f]] = Chunks /\ bm25[current[f]] = Chunks

(* What README.md:8 says of a version that was approved: it is now the     *)
(* current version employees can retrieve, so some index knows it.  The    *)
(* code does not keep this: see halfDeleted.                               *)
ApprovedIsRetrievable ==
  \A f \in Families : current[f] # None =>
    vec[current[f]] \union bm25[current[f]] # {}

(* Two index generations of one version never have active chunks at once:  *)
(* the switch is one commit, and a late or concurrent reindex is refused.  *)
OneActiveGeneration ==
  \A d, e \in Rows :
    /\ Family(d) = Family(e)
    /\ snap[d].version = snap[e].version
    /\ chunks[d] = "active"
    /\ chunks[e] = "active"
    => d = e

(* uq_documents_family_version_generation is never hit, and one version of *)
(* a family always stands for one source: numbers given out again after a  *)
(* deletion never meet a row that still holds them.                        *)
SnapshotsAreDistinct ==
  \A d, e \in Rows : Family(d) = Family(e) /\ d # e =>
    /\ <<snap[d].version, snap[d].gen>> # <<snap[e].version, snap[e].gen>>
    /\ snap[d].version = snap[e].version <=> snap[d].source = snap[e].source

(* No deletion takes away the original another document was imported from: *)
(* the file stays as long as a row refers to it.                           *)
OriginalRetained == \A d \in Rows : OriginalAvailable(d)

HasWorker ==
  \A d \in Docs : status[d] = "processing" =>
    d \in abandoned \/ \E t \in Tasks : Processing(t) /\ work[t] = d

OneWorker ==
  \A t, u \in Tasks :
    Processing(t) /\ Processing(u) /\ work[t] = work[u] => t = u

(* A row says "processing" only while a request works on it or after one   *)
(* ended half-way, and no two requests process the same row.               *)
ProcessingHasWorker == HasWorker /\ OneWorker

PointerMove ==
  \A f \in Families : current'[f] # current[f] =>
    /\ current'[f] # None
    /\ \/ Pending(current'[f])
       \/ /\ status[current'[f]] = "processing"
          /\ current[f] # None
          /\ snap[current'[f]].source = snap[current[f]].source
          /\ snap[current'[f]].gen > snap[current[f]].gen

(* The pointer of a family moves in two ways only: a review takes it to a  *)
(* document that was pending, or a reindex takes it to a later generation  *)
(* of the very source it pointed at.  It is never cleared, and a document  *)
(* it left never gets it back.                                             *)
PointerMoves == [][PointerMove]_vars

(* Unless a crash or a failing database cuts its request short, a document *)
(* does not stay "processing" for ever.                                    *)
ProcessingEnds ==
  \A d \in Docs :
    status[d] = "processing" ~> (status[d] # "processing" \/ d \in abandoned)

----------------------------------------------------------------------------
(* The inductive invariant from which the safety properties are proved.    *)

HoldsLoop(t) == pc[t] \notin {"idle", "embed"}

(* One request at a time holds the loop. *)
OneHolder == \A t, u \in Tasks : HoldsLoop(t) /\ HoldsLoop(u) => t = u

(* What a request relies on between two of its steps. *)
WorkInHand ==
  \A t \in Tasks :
    /\ pc[t] # "idle" => work[t] \in Docs
    /\ Processing(t) => status[work[t]] \in {"processing", "deleted"}
    /\ pc[t] \in {"parse", "vectors", "bm25", "publish"} =>
         status[work[t]] = "processing"
    /\ pc[t] \in {"embed", "vectors", "bm25", "publish"} =>
         status[work[t]] = "deleted" \/ quality[work[t]] = "passed"
    /\ pc[t] \in {"bm25", "publish"} => vec[work[t]] = Chunks
    /\ pc[t] = "publish" => bm25[work[t]] = Chunks
    /\ pc[t] = "retire" => prev[t] \in Docs /\ chunks[prev[t]] = "inactive"
    /\ pc[t] \in {"del_index", "del_row"} =>
         Exists(work[t]) /\ ~IsCurrent(work[t])

(* A row carries a snapshot of a known family and waits for review only in *)
(* its first generation; its chunks are active only when it is ready, and  *)
(* a ready row lost them only after its approval.                          *)
RowsConsistent ==
  /\ \A d \in Rows : snap[d] \in Snapshot /\ Family(d) \in families
  /\ \A d \in Docs : Pending(d) => snap[d].gen = 1
  /\ \A d \in Docs : chunks[d] = "active" => status[d] = "ready"
  /\ \A d \in Docs : status[d] = "ready" =>
       /\ quality[d] = "passed"
       /\ review[d] # "approved" => chunks[d] = "active"

(* A reindex rebuilds the version of the document it replaces, under its   *)
(* approval; an upload in flight is alone in its version.                  *)
LineageOf(t) ==
  LET d == work[t] IN
  IF prev[t] = None
  THEN \A e \in Rows \ {d} :
         ~(Family(e) = Family(d) /\ snap[e].version = snap[d].version)
  ELSE /\ review[d] = "approved"
       /\ prev[t] \in Docs
       /\ status[prev[t]] # "unused"
       /\ Exists(prev[t]) =>
            /\ snap[d] = [snap[prev[t]] EXCEPT !.gen = snap[d].gen]
            /\ snap[d].gen > snap[prev[t]].gen

Lineage == \A t \in Tasks : Processing(t) /\ Exists(work[t]) => LineageOf(t)

(* The chunks of a ready document are indexed until a deletion begins to   *)
(* take them out.                                                          *)
ActiveIsIndexed ==
  \A d \in Docs \ halfDeleted :
    /\ chunks[d] = "active"
    /\ \A t \in Tasks : ~(pc[t] = "del_row" /\ work[t] = d)
    => vec[d] = Chunks /\ bm25[d] = Chunks

IInv ==
  /\ OneHolder
  /\ WorkInHand
  /\ OneWorker
  /\ RowsConsistent
  /\ Lineage
  /\ ActiveIsIndexed
  /\ CurrentIsServable
  /\ OneActiveGeneration
  /\ SnapshotsAreDistinct

----------------------------------------------------------------------------
(* What employees see of all this: which sources wait, which is in force.  *)
Proposed == {<<Family(d), snap[d].source>> : d \in {e \in Docs : Pending(e)}}
Served ==
  [f \in Families |-> IF current[f] = None THEN None
                      ELSE snap[current[f]].source]

Publication ==
  INSTANCE PolicyPublication WITH proposed <- Proposed, served <- Served

(* Governance as promised: what is in force changes by an approval of what *)
(* waited for one, and by nothing else.  Reindexing, its failures, its     *)
(* races with a review, deletions and restarts leave it alone.             *)
PublicationSpec == Publication!Spec
=============================================================================
