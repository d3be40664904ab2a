----------------------- MODULE DocumentLifecycle_proofs -----------------------
(***************************************************************************)
(* Theorems about DocumentLifecycle, for any sets of documents, families,  *)
(* sources, chunks and concurrent requests, with crashes and failing       *)
(* commits.                                                                *)
(*                                                                         *)
(* There is one lemma for each part of the inductive invariant; its steps  *)
(* are the actions that change a variable the part mentions, and one step  *)
(* stands for all the others.  At the end come the theorems about          *)
(* GovernedSearch, for any number of searches, any validity dates and      *)
(* audiences and any candidate limit: a search only reads the lifecycle.   *)
(***************************************************************************)
EXTENDS GovernedSearch, FiniteSetTheorems, TLAPS

(* Version and generation numbers are naturals. *)
LEMMA NumbersAreNat == Numbers \subseteq Nat
<1>1. Cardinality(Docs) \in Nat
  BY DataAssumption, FS_CardinalityType
<1>2. QED
  BY <1>1 DEF Numbers

(* Every step keeps the types. *)
LEMMA TypeOKStep ==
  TypeOK /\ WorkInHand /\ RowsConsistent /\ [Next]_vars => TypeOK'
<1> SUFFICES ASSUME TypeOK, WorkInHand, RowsConsistent, [Next]_vars
             PROVE  TypeOK'
  OBVIOUS
<1> USE DataAssumption
<1> USE DEF TypeOK, WorkInHand, Processing, Statuses, Labels, rowVars,
            indexVars, taskVars, histVars, Exists
<1>1. ASSUME NEW t \in Tasks, NEW f \in Families, NEW s \in Sources, Upload(t,
             f, s)
      PROVE  TypeOK'
  BY <1>1, NumbersAreNat DEF Upload, StoreOriginal, Insert, Begin, Snapshot
<1>2. ASSUME NEW f \in Families, NEW s \in Sources, UploadAborts(f, s)
      PROVE  TypeOK'
  BY <1>2 DEF UploadAborts, StoreOriginal
<1>3. ASSUME NEW t \in Tasks, NEW c \in Docs, Reindex(t, c) PROVE TypeOK'
  <2>1. PICK d \in Docs, g \in Numbers :
          Insert(t, d, [snap[c] EXCEPT !.gen = g], "approved", c)
    BY <1>3 DEF Reindex
  <2>2. [snap[c] EXCEPT !.gen = g] \in Snapshot
    <3>1. snap[c] \in Snapshot
      BY <1>3 DEF Reindex, RowsConsistent, Rows
    <3>2. QED
      BY <3>1, NumbersAreNat DEF Snapshot
  <2>3. snap' \in [Docs -> Snapshot \union {NoSnapshot}]
    BY <2>1, <2>2 DEF Insert
  <2>4. QED
    BY <1>3, <2>1, <2>3 DEF Reindex, Insert, Begin
<1>4. ASSUME NEW t \in Tasks, NEW d \in Docs, Delete(t, d) PROVE TypeOK'
  BY <1>4 DEF Delete, Begin
<1>5. ASSUME NEW t \in Tasks, ParseFails(t) PROVE TypeOK'
  BY <1>5 DEF ParseFails, End
<1>6. ASSUME NEW t \in Tasks, ParseNeedsReview(t) PROVE TypeOK'
  BY <1>6 DEF ParseNeedsReview, End
<1>7. ASSUME NEW t \in Tasks, ParsePasses(t) PROVE TypeOK'
  BY <1>7 DEF ParsePasses, Goto
<1>8. ASSUME NEW t \in Tasks, ParseAborts(t) PROVE TypeOK'
  BY <1>8 DEF ParseAborts, End
<1>9. ASSUME NEW t \in Tasks, EmbedFails(t) PROVE TypeOK'
  BY <1>9 DEF EmbedFails, Goto
<1>10. ASSUME NEW t \in Tasks, EmbedDone(t) PROVE TypeOK'
  BY <1>10 DEF EmbedDone, Goto
<1>11. ASSUME NEW t \in Tasks, AddVector(t) PROVE TypeOK'
  BY <1>11 DEF AddVector, Goto
<1>12. ASSUME NEW t \in Tasks, AddBm25(t) PROVE TypeOK'
  BY <1>12 DEF AddBm25, Goto
<1>13. ASSUME NEW t \in Tasks, IndexFails(t) PROVE TypeOK'
  BY <1>13 DEF IndexFails, Goto
<1>14. ASSUME NEW t \in Tasks, PublishFails(t) PROVE TypeOK'
  BY <1>14 DEF PublishFails, Goto
<1>15. ASSUME NEW t \in Tasks, PublishUpload(t) PROVE TypeOK'
  BY <1>15 DEF PublishUpload, End
<1>16. ASSUME NEW t \in Tasks, PublishReindex(t) PROVE TypeOK'
  BY <1>16 DEF PublishReindex, Goto
<1>17. ASSUME NEW t \in Tasks, PublishRefused(t) PROVE TypeOK'
  BY <1>17 DEF PublishRefused, Goto
<1>18. ASSUME NEW t \in Tasks, Undo(t) PROVE TypeOK'
  BY <1>18 DEF Undo, Unindex, Goto
<1>19. ASSUME NEW t \in Tasks, Checkpoint(t) PROVE TypeOK'
  BY <1>19 DEF Checkpoint, End
<1>20. ASSUME NEW t \in Tasks, CheckpointAborts(t) PROVE TypeOK'
  BY <1>20 DEF CheckpointAborts, End
<1>21. ASSUME NEW t \in Tasks, Retire(t) PROVE TypeOK'
  BY <1>21 DEF Retire, Unindex, End
<1>22. ASSUME NEW t \in Tasks, DeleteIndexed(t) PROVE TypeOK'
  BY <1>22 DEF DeleteIndexed, Unindex, Goto
<1>23. ASSUME NEW t \in Tasks, DeleteRow(t) PROVE TypeOK'
  BY <1>23 DEF DeleteRow, DeleteOriginal, End
<1>24. ASSUME NEW t \in Tasks, DeleteRowAborts(t) PROVE TypeOK'
  BY <1>24 DEF DeleteRowAborts, End
<1>25. ASSUME NEW d \in Docs, Approve(d) PROVE TypeOK'
  BY <1>25 DEF Approve, Pending, Family, Snapshot
<1>26. ASSUME NEW d \in Docs, Reject(d) PROVE TypeOK'
  BY <1>26 DEF Reject, Pending
<1>27. ASSUME CrashRestart PROVE TypeOK'
  BY <1>27 DEF CrashRestart
<1>28. ASSUME Tick PROVE TypeOK'
  BY <1>28 DEF Tick
<1>29. CASE UNCHANGED vars
  BY <1>29 DEF vars
<1>30. QED
  BY <1>1, <1>2, <1>3, <1>4, <1>5, <1>6, <1>7, <1>8, <1>9, <1>10, <1>11,
     <1>12, <1>13, <1>14, <1>15, <1>16, <1>17, <1>18, <1>19, <1>20, <1>21,
     <1>22, <1>23, <1>24, <1>25, <1>26, <1>27, <1>28, <1>29
     DEF Next, vars, Request, Process, Remove

(* One request holds the loop: only a resumption or a new request takes it,*)
(* and both wait until it is free.                                         *)
LEMMA OneHolderStep ==
  TypeOK /\ OneHolder /\ [Next]_vars => OneHolder'
<1> SUFFICES ASSUME TypeOK, OneHolder, [Next]_vars
             PROVE  OneHolder'
  OBVIOUS
<1> USE DEF OneHolder, HoldsLoop, LoopFree, TypeOK, Goto, End, Begin, rowVars,
            indexVars, taskVars, histVars
<1>1. ASSUME NEW t \in Tasks, NEW f \in Families, NEW s \in Sources, Upload(t,
             f, s)
      PROVE  OneHolder'
  BY <1>1 DEF Upload, Insert, Begin
<1>2. ASSUME NEW t \in Tasks, NEW c \in Docs, Reindex(t, c) PROVE OneHolder'
  BY <1>2 DEF Reindex, Insert, Begin
<1>3. ASSUME NEW t \in Tasks, NEW d \in Docs, Delete(t, d) PROVE OneHolder'
  BY <1>3 DEF Delete, Begin
<1>4. ASSUME NEW t \in Tasks, ParseFails(t) PROVE OneHolder'
  BY <1>4 DEF ParseFails, End
<1>5. ASSUME NEW t \in Tasks, ParseNeedsReview(t) PROVE OneHolder'
  BY <1>5 DEF ParseNeedsReview, End
<1>6. ASSUME NEW t \in Tasks, ParsePasses(t) PROVE OneHolder'
  BY <1>6 DEF ParsePasses, Goto
<1>7. ASSUME NEW t \in Tasks, ParseAborts(t) PROVE OneHolder'
  BY <1>7 DEF ParseAborts, End
<1>8. ASSUME NEW t \in Tasks, EmbedFails(t) PROVE OneHolder'
  BY <1>8 DEF EmbedFails, Goto
<1>9. ASSUME NEW t \in Tasks, EmbedDone(t) PROVE OneHolder'
  BY <1>9 DEF EmbedDone, Goto
<1>10. ASSUME NEW t \in Tasks, AddVector(t) PROVE OneHolder'
  BY <1>10 DEF AddVector, Goto
<1>11. ASSUME NEW t \in Tasks, AddBm25(t) PROVE OneHolder'
  BY <1>11 DEF AddBm25, Goto
<1>12. ASSUME NEW t \in Tasks, IndexFails(t) PROVE OneHolder'
  BY <1>12 DEF IndexFails, Goto
<1>13. ASSUME NEW t \in Tasks, PublishFails(t) PROVE OneHolder'
  BY <1>13 DEF PublishFails, Goto
<1>14. ASSUME NEW t \in Tasks, PublishUpload(t) PROVE OneHolder'
  BY <1>14 DEF PublishUpload, End
<1>15. ASSUME NEW t \in Tasks, PublishReindex(t) PROVE OneHolder'
  BY <1>15 DEF PublishReindex, Goto
<1>16. ASSUME NEW t \in Tasks, PublishRefused(t) PROVE OneHolder'
  BY <1>16 DEF PublishRefused, Goto
<1>17. ASSUME NEW t \in Tasks, Undo(t) PROVE OneHolder'
  BY <1>17 DEF Undo, Unindex, Goto
<1>18. ASSUME NEW t \in Tasks, Checkpoint(t) PROVE OneHolder'
  BY <1>18 DEF Checkpoint, End
<1>19. ASSUME NEW t \in Tasks, CheckpointAborts(t) PROVE OneHolder'
  BY <1>19 DEF CheckpointAborts, End
<1>20. ASSUME NEW t \in Tasks, Retire(t) PROVE OneHolder'
  BY <1>20 DEF Retire, Unindex, End
<1>21. ASSUME NEW t \in Tasks, DeleteIndexed(t) PROVE OneHolder'
  BY <1>21 DEF DeleteIndexed, Unindex, Goto
<1>22. ASSUME NEW t \in Tasks, DeleteRow(t) PROVE OneHolder'
  BY <1>22 DEF DeleteRow, End
<1>23. ASSUME NEW t \in Tasks, DeleteRowAborts(t) PROVE OneHolder'
  BY <1>23 DEF DeleteRowAborts, End
<1>24. ASSUME CrashRestart PROVE OneHolder'
  BY <1>24 DEF CrashRestart
<1>25. CASE UNCHANGED pc
  BY <1>25
<1>26. QED
  BY <1>1, <1>2, <1>3, <1>4, <1>5, <1>6, <1>7, <1>8, <1>9, <1>10, <1>11,
     <1>12, <1>13, <1>14, <1>15, <1>16, <1>17, <1>18, <1>19, <1>20, <1>21,
     <1>22, <1>23, <1>24, <1>25
     DEF Next, vars, Request, Process, Remove, UploadAborts, Approve, Reject,
         Tick

(* What a request relies on survives the steps of the others. *)
LEMMA WorkInHandStep ==
  TypeOK /\ OneHolder /\ OneWorker /\ RowsConsistent /\ WorkInHand /\
  [Next]_vars => WorkInHand'
<1> SUFFICES ASSUME TypeOK, OneHolder, OneWorker, RowsConsistent, WorkInHand,
                    [Next]_vars
             PROVE  WorkInHand'
  OBVIOUS
<1> USE DEF OneHolder, OneWorker, HoldsLoop, LoopFree, WorkInHand, Processing,
            Rows, Family, TypeOK, Exists, IsCurrent, rowVars, indexVars,
            taskVars, histVars
<1>1. ASSUME NEW t \in Tasks, NEW f \in Families, NEW s \in Sources, Upload(t,
             f, s)
      PROVE  WorkInHand'
  BY <1>1 DEF Upload, Insert, Begin
<1>2. ASSUME NEW t \in Tasks, NEW c \in Docs, Reindex(t, c) PROVE WorkInHand'
  BY <1>2 DEF Reindex, Insert, Begin
<1>3. ASSUME NEW t \in Tasks, NEW d \in Docs, Delete(t, d) PROVE WorkInHand'
  BY <1>3 DEF Delete, Begin
<1>4. ASSUME NEW t \in Tasks, ParseFails(t) PROVE WorkInHand'
  BY <1>4 DEF ParseFails, End
<1>5. ASSUME NEW t \in Tasks, ParseNeedsReview(t) PROVE WorkInHand'
  BY <1>5 DEF ParseNeedsReview, End
<1>6. ASSUME NEW t \in Tasks, ParsePasses(t) PROVE WorkInHand'
  BY <1>6 DEF ParsePasses, Goto
<1>7. ASSUME NEW t \in Tasks, ParseAborts(t) PROVE WorkInHand'
  BY <1>7 DEF ParseAborts, End
<1>8. ASSUME NEW t \in Tasks, EmbedFails(t) PROVE WorkInHand'
  BY <1>8 DEF EmbedFails, Goto
<1>9. ASSUME NEW t \in Tasks, EmbedDone(t) PROVE WorkInHand'
  BY <1>9 DEF EmbedDone, Goto
<1>10. ASSUME NEW t \in Tasks, AddVector(t) PROVE WorkInHand'
  BY <1>10 DEF AddVector, Goto
<1>11. ASSUME NEW t \in Tasks, AddBm25(t) PROVE WorkInHand'
  BY <1>11 DEF AddBm25, Goto
<1>12. ASSUME NEW t \in Tasks, IndexFails(t) PROVE WorkInHand'
  BY <1>12 DEF IndexFails, Goto
<1>13. ASSUME NEW t \in Tasks, PublishFails(t) PROVE WorkInHand'
  BY <1>13 DEF PublishFails, Goto
<1>14. ASSUME NEW t \in Tasks, PublishUpload(t) PROVE WorkInHand'
  BY <1>14 DEF PublishUpload, End
<1>15. ASSUME NEW t \in Tasks, PublishReindex(t) PROVE WorkInHand'
  BY <1>15 DEF PublishReindex, Goto
<1>16. ASSUME NEW t \in Tasks, PublishRefused(t) PROVE WorkInHand'
  BY <1>16 DEF PublishRefused, Goto
<1>17. ASSUME NEW t \in Tasks, Undo(t) PROVE WorkInHand'
  BY <1>17 DEF Undo, Unindex, Goto
<1>18. ASSUME NEW t \in Tasks, Checkpoint(t) PROVE WorkInHand'
  BY <1>18 DEF Checkpoint, End
<1>19. ASSUME NEW t \in Tasks, CheckpointAborts(t) PROVE WorkInHand'
  BY <1>19 DEF CheckpointAborts, End
<1>20. ASSUME NEW t \in Tasks, Retire(t) PROVE WorkInHand'
  BY <1>20 DEF Retire, Unindex, End
<1>21. ASSUME NEW t \in Tasks, DeleteIndexed(t) PROVE WorkInHand'
  BY <1>21 DEF DeleteIndexed, Unindex, Goto
<1>22. ASSUME NEW t \in Tasks, DeleteRow(t) PROVE WorkInHand'
  BY <1>22 DEF DeleteRow, End
<1>23. ASSUME NEW t \in Tasks, DeleteRowAborts(t) PROVE WorkInHand'
  BY <1>23 DEF DeleteRowAborts, End
<1>24. ASSUME NEW d \in Docs, Approve(d) PROVE WorkInHand'
  BY <1>24 DEF Approve, Pending
<1>25. ASSUME CrashRestart PROVE WorkInHand'
  BY <1>25 DEF CrashRestart
<1>26. CASE UNCHANGED <<pc, work, prev, status, quality, vec, bm25, chunks,
                        snap, current>>
  BY <1>26
<1>27. QED
  BY <1>1, <1>2, <1>3, <1>4, <1>5, <1>6, <1>7, <1>8, <1>9, <1>10, <1>11,
     <1>12, <1>13, <1>14, <1>15, <1>16, <1>17, <1>18, <1>19, <1>20, <1>21,
     <1>22, <1>23, <1>24, <1>25, <1>26
     DEF Next, vars, Request, Process, Remove, UploadAborts, Reject, Tick

(* A new request works on a new row. *)
LEMMA OneWorkerStep ==
  TypeOK /\ WorkInHand /\ OneWorker /\ [Next]_vars => OneWorker'
<1> SUFFICES ASSUME TypeOK, WorkInHand, OneWorker, [Next]_vars
             PROVE  OneWorker'
  OBVIOUS
<1> USE DEF OneWorker, WorkInHand, Processing, TypeOK, Exists, HoldsLoop,
            rowVars, indexVars, taskVars, histVars
<1>1. ASSUME NEW t \in Tasks, NEW f \in Families, NEW s \in Sources, Upload(t,
             f, s)
      PROVE  OneWorker'
  BY <1>1 DEF Upload, Insert, Begin
<1>2. ASSUME NEW t \in Tasks, NEW c \in Docs, Reindex(t, c) PROVE OneWorker'
  BY <1>2 DEF Reindex, Insert, Begin
<1>3. ASSUME NEW t \in Tasks, NEW d \in Docs, Delete(t, d) PROVE OneWorker'
  BY <1>3 DEF Delete, Begin
<1>4. ASSUME NEW t \in Tasks, ParseFails(t) PROVE OneWorker'
  BY <1>4 DEF ParseFails, End
<1>5. ASSUME NEW t \in Tasks, ParseNeedsReview(t) PROVE OneWorker'
  BY <1>5 DEF ParseNeedsReview, End
<1>6. ASSUME NEW t \in Tasks, ParsePasses(t) PROVE OneWorker'
  BY <1>6 DEF ParsePasses, Goto
<1>7. ASSUME NEW t \in Tasks, ParseAborts(t) PROVE OneWorker'
  BY <1>7 DEF ParseAborts, End
<1>8. ASSUME NEW t \in Tasks, EmbedFails(t) PROVE OneWorker'
  BY <1>8 DEF EmbedFails, Goto
<1>9. ASSUME NEW t \in Tasks, EmbedDone(t) PROVE OneWorker'
  BY <1>9 DEF EmbedDone, Goto
<1>10. ASSUME NEW t \in Tasks, AddVector(t) PROVE OneWorker'
  BY <1>10 DEF AddVector, Goto
<1>11. ASSUME NEW t \in Tasks, AddBm25(t) PROVE OneWorker'
  BY <1>11 DEF AddBm25, Goto
<1>12. ASSUME NEW t \in Tasks, IndexFails(t) PROVE OneWorker'
  BY <1>12 DEF IndexFails, Goto
<1>13. ASSUME NEW t \in Tasks, PublishFails(t) PROVE OneWorker'
  BY <1>13 DEF PublishFails, Goto
<1>14. ASSUME NEW t \in Tasks, PublishUpload(t) PROVE OneWorker'
  BY <1>14 DEF PublishUpload, End
<1>15. ASSUME NEW t \in Tasks, PublishReindex(t) PROVE OneWorker'
  BY <1>15 DEF PublishReindex, Goto
<1>16. ASSUME NEW t \in Tasks, PublishRefused(t) PROVE OneWorker'
  BY <1>16 DEF PublishRefused, Goto
<1>17. ASSUME NEW t \in Tasks, Undo(t) PROVE OneWorker'
  BY <1>17 DEF Undo, Unindex, Goto
<1>18. ASSUME NEW t \in Tasks, Checkpoint(t) PROVE OneWorker'
  BY <1>18 DEF Checkpoint, End
<1>19. ASSUME NEW t \in Tasks, CheckpointAborts(t) PROVE OneWorker'
  BY <1>19 DEF CheckpointAborts, End
<1>20. ASSUME NEW t \in Tasks, Retire(t) PROVE OneWorker'
  BY <1>20 DEF Retire, Unindex, End
<1>21. ASSUME NEW t \in Tasks, DeleteIndexed(t) PROVE OneWorker'
  BY <1>21 DEF DeleteIndexed, Unindex, Goto
<1>22. ASSUME NEW t \in Tasks, DeleteRow(t) PROVE OneWorker'
  BY <1>22 DEF DeleteRow, End
<1>23. ASSUME NEW t \in Tasks, DeleteRowAborts(t) PROVE OneWorker'
  BY <1>23 DEF DeleteRowAborts, End
<1>24. ASSUME CrashRestart PROVE OneWorker'
  BY <1>24 DEF CrashRestart
<1>25. CASE UNCHANGED <<pc, work>>
  BY <1>25
<1>26. QED
  BY <1>1, <1>2, <1>3, <1>4, <1>5, <1>6, <1>7, <1>8, <1>9, <1>10, <1>11,
     <1>12, <1>13, <1>14, <1>15, <1>16, <1>17, <1>18, <1>19, <1>20, <1>21,
     <1>22, <1>23, <1>24, <1>25
     DEF Next, vars, Request, Process, Remove, UploadAborts, Approve, Reject,
         Tick

(* Rows stay well formed. *)
LEMMA RowsConsistentStep ==
  TypeOK /\ WorkInHand /\ CurrentIsServable /\ RowsConsistent /\
  [Next]_vars => RowsConsistent'
<1> SUFFICES ASSUME TypeOK, WorkInHand, CurrentIsServable, RowsConsistent,
                    [Next]_vars
             PROVE  RowsConsistent'
  OBVIOUS
<1> USE DEF RowsConsistent, Pending, WorkInHand, Processing, Rows, Family,
            TypeOK, Exists, rowVars, indexVars, taskVars, histVars
<1>1. ASSUME NEW t \in Tasks, NEW f \in Families, NEW s \in Sources, Upload(t,
             f, s)
      PROVE  RowsConsistent'
  BY <1>1, NumbersAreNat DEF Upload, Insert, Begin, Snapshot
<1>2. ASSUME NEW t \in Tasks, NEW c \in Docs, Reindex(t, c)
      PROVE  RowsConsistent'
  <2>1. PICK d \in Docs, g \in Numbers :
          Insert(t, d, [snap[c] EXCEPT !.gen = g], "approved", c)
    BY <1>2 DEF Reindex
  <2>2. /\ ~Exists(d)
        /\ snap' = [snap EXCEPT ![d] = [snap[c] EXCEPT !.gen = g]]
        /\ status' = [status EXCEPT ![d] = "processing"]
        /\ review' = [review EXCEPT ![d] = "approved"]
        /\ UNCHANGED <<quality, chunks, families>>
    BY <1>2, <2>1 DEF Reindex, Insert
  <2>3. snap[c] \in Snapshot /\ snap[c].family \in families
    BY <1>2 DEF Reindex
  <2>4. /\ [snap[c] EXCEPT !.gen = g] \in Snapshot
        /\ [snap[c] EXCEPT !.gen = g].family = snap[c].family
    BY <2>3, NumbersAreNat DEF Snapshot
  <2>5. QED
    BY <2>2, <2>3, <2>4
<1>3. ASSUME NEW t \in Tasks, ParseFails(t) PROVE RowsConsistent'
  BY <1>3 DEF ParseFails, End
<1>4. ASSUME NEW t \in Tasks, ParseNeedsReview(t) PROVE RowsConsistent'
  BY <1>4 DEF ParseNeedsReview, End
<1>5. ASSUME NEW t \in Tasks, ParsePasses(t) PROVE RowsConsistent'
  BY <1>5 DEF ParsePasses, Goto
<1>6. ASSUME NEW t \in Tasks, PublishUpload(t) PROVE RowsConsistent'
  BY <1>6 DEF PublishUpload, End
<1>7. ASSUME NEW t \in Tasks, PublishReindex(t) PROVE RowsConsistent'
  BY <1>7, NoneAssumption DEF PublishReindex, Goto, CurrentIsServable, Servable
<1>8. ASSUME NEW t \in Tasks, Checkpoint(t) PROVE RowsConsistent'
  BY <1>8 DEF Checkpoint, End
<1>9. ASSUME NEW t \in Tasks, DeleteRow(t) PROVE RowsConsistent'
  BY <1>9 DEF DeleteRow, End
<1>10. ASSUME NEW d \in Docs, Approve(d) PROVE RowsConsistent'
  BY <1>10 DEF Approve, Pending
<1>11. ASSUME NEW d \in Docs, Reject(d) PROVE RowsConsistent'
  BY <1>11 DEF Reject, Pending
<1>12. CASE UNCHANGED <<snap, families, chunks, status, quality, review>>
  BY <1>12
<1>13. QED
  BY <1>1, <1>2, <1>3, <1>4, <1>5, <1>6, <1>7, <1>8, <1>9, <1>10, <1>11, <1>12
     DEF Next, vars, Request, Process, Remove, UploadAborts, Delete,
         ParseAborts, EmbedFails, EmbedDone, AddVector, AddBm25, IndexFails,
         PublishFails, PublishRefused, Undo, CheckpointAborts, Retire,
         DeleteIndexed, DeleteRowAborts, CrashRestart, Tick

(* An upload stays alone in its version, a reindex keeps its origin. *)
LEMMA LineageStep ==
  TypeOK /\ OneHolder /\ WorkInHand /\ OneWorker /\ RowsConsistent /\ Lineage /\
  [Next]_vars => Lineage'
<1> SUFFICES ASSUME TypeOK, OneHolder, WorkInHand, OneWorker, RowsConsistent,
                    Lineage, [Next]_vars
             PROVE  Lineage'
  OBVIOUS
<1> USE DEF Lineage, LineageOf, OneHolder, OneWorker, HoldsLoop, LoopFree,
            WorkInHand, RowsConsistent, Processing, Rows, Family, TypeOK,
            Exists, IsCurrent, rowVars, indexVars, taskVars, histVars
<1>1. ASSUME NEW t \in Tasks, NEW f \in Families, NEW s \in Sources, Upload(t,
             f, s)
      PROVE  Lineage'
  <2>1. PICK d \in Docs, v \in Numbers :
          /\ NextVersion(f, v)
          /\ Insert(t, d,
               [family |-> f, source |-> s, version |-> v, gen |-> 1],
               "pending_review", None)
    BY <1>1 DEF Upload
  <2>2. /\ ~Exists(d) /\ d \notin Rows /\ v \in Nat
        /\ status[d] = "unused"
        /\ snap' = [snap EXCEPT ![d] =
                     [family |-> f, source |-> s, version |-> v, gen |-> 1]]
        /\ status' = [status EXCEPT ![d] = "processing"]
        /\ review' = [review EXCEPT ![d] = "pending_review"]
        /\ pc[t] = "idle"
        /\ pc' = [pc EXCEPT ![t] = "parse"]
        /\ work' = [work EXCEPT ![t] = d]
        /\ prev' = [prev EXCEPT ![t] = None]
    BY <2>1, NumbersAreNat DEF Insert, Begin
  <2>3. \A e \in Rows : snap[e].family = f =>
          snap[e].version < v /\ snap[e].version \in Nat
    BY <2>1 DEF NextVersion, IsNext, Snapshot
  <2>4. Rows' = Rows \union {d}
    BY <2>2
  <2>5. SUFFICES ASSUME NEW u \in Tasks, Processing(u)', Exists(work[u])'
                 PROVE  LineageOf(u)'
    BY DEF Lineage
  <2>6. CASE u = t
    BY <2>2, <2>3, <2>4, <2>6 DEF LineageOf
  <2>7. CASE u # t
    <3>1. /\ Processing(u) /\ status[work[u]] = "processing"
          /\ work'[u] = work[u] /\ prev'[u] = prev[u]
          /\ work[u] \in Docs /\ work[u] # d /\ work[u] \in Rows
      BY <2>2, <2>5, <2>7 DEF WorkInHand
    <3>2. LineageOf(u)
      BY <3>1 DEF Lineage
    <3>3. CASE prev[u] = None
      <4>1. snap[work[u]].family = f => snap[work[u]].version < v
        BY <2>3, <3>1
      <4>2. QED
        BY <2>2, <2>4, <3>1, <3>2, <3>3, <4>1 DEF LineageOf
    <3>4. CASE prev[u] # None
      BY <2>2, <3>1, <3>2, <3>4 DEF LineageOf
    <3>5. QED
      BY <3>3, <3>4
  <2>8. QED
    BY <2>6, <2>7
<1>2. ASSUME NEW t \in Tasks, NEW c \in Docs, Reindex(t, c) PROVE Lineage'
  <2>1. PICK d \in Docs, g \in Numbers :
          /\ NextGeneration(c, g)
          /\ Insert(t, d, [snap[c] EXCEPT !.gen = g], "approved", c)
    BY <1>2 DEF Reindex
  <2>2. /\ ~Exists(d) /\ d \notin Rows /\ d # c
        /\ status[d] = "unused"
        /\ snap' = [snap EXCEPT ![d] = [snap[c] EXCEPT !.gen = g]]
        /\ status' = [status EXCEPT ![d] = "processing"]
        /\ review' = [review EXCEPT ![d] = "approved"]
        /\ pc[t] = "idle"
        /\ pc' = [pc EXCEPT ![t] = "parse"]
        /\ work' = [work EXCEPT ![t] = d]
        /\ prev' = [prev EXCEPT ![t] = c]
    BY <1>2, <2>1 DEF Reindex, Insert, Begin
  <2>3. /\ c \in Rows /\ snap[c] \in Snapshot /\ c # None
        /\ status[c] = "ready"
    BY <1>2, NoneAssumption DEF Reindex
  <2>4. Rows' = Rows \union {d}
    BY <2>2
  <2>5. /\ snap'[d] = [snap'[c] EXCEPT !.gen = snap'[d].gen]
        /\ snap'[d].family = snap[c].family
        /\ snap'[d].version = snap[c].version
        /\ snap'[d].gen = g
        /\ \A e \in Rows : snap'[e] = snap[e]
    BY <2>2, <2>3 DEF Snapshot
  <2>6. g > snap[c].gen
    BY <2>1, <2>3 DEF NextGeneration, IsNext
  <2>7. SUFFICES ASSUME NEW u \in Tasks, Processing(u)', Exists(work[u])'
                 PROVE  LineageOf(u)'
    BY DEF Lineage
  <2>8. CASE u = t
    BY <2>2, <2>3, <2>5, <2>8, <2>6 DEF LineageOf
  <2>9. CASE u # t
    <3>1. /\ Processing(u) /\ status[work[u]] = "processing"
          /\ work'[u] = work[u] /\ prev'[u] = prev[u]
          /\ work[u] \in Docs /\ work[u] # d /\ work[u] # c /\ work[u] \in Rows
      BY <2>2, <2>3, <2>7, <2>9 DEF WorkInHand
    <3>2. LineageOf(u)
      BY <3>1 DEF Lineage
    <3>3. CASE prev[u] = None
      <4>1. ~(snap[c].family = snap[work[u]].family /\
              snap[c].version = snap[work[u]].version)
        BY <2>3, <3>1, <3>2, <3>3 DEF LineageOf
      <4>2. QED
        BY <2>2, <2>5, <2>4, <3>1, <3>2, <3>3, <4>1 DEF LineageOf
    <3>4. CASE prev[u] # None
      BY <2>2, <3>1, <3>2, <3>4 DEF LineageOf
    <3>5. QED
      BY <3>3, <3>4
  <2>10. QED
    BY <2>8, <2>9
<1>3. ASSUME NEW t \in Tasks, NEW d \in Docs, Delete(t, d) PROVE Lineage'
  BY <1>3 DEF Delete, Begin
<1>4. ASSUME NEW t \in Tasks, ParseFails(t) PROVE Lineage'
  BY <1>4 DEF ParseFails, End
<1>5. ASSUME NEW t \in Tasks, ParseNeedsReview(t) PROVE Lineage'
  BY <1>5 DEF ParseNeedsReview, End
<1>6. ASSUME NEW t \in Tasks, ParsePasses(t) PROVE Lineage'
  BY <1>6 DEF ParsePasses, Goto
<1>7. ASSUME NEW t \in Tasks, ParseAborts(t) PROVE Lineage'
  BY <1>7 DEF ParseAborts, End
<1>8. ASSUME NEW t \in Tasks, EmbedFails(t) PROVE Lineage'
  BY <1>8 DEF EmbedFails, Goto
<1>9. ASSUME NEW t \in Tasks, EmbedDone(t) PROVE Lineage'
  BY <1>9 DEF EmbedDone, Goto
<1>10. ASSUME NEW t \in Tasks, AddVector(t) PROVE Lineage'
  BY <1>10 DEF AddVector, Goto
<1>11. ASSUME NEW t \in Tasks, AddBm25(t) PROVE Lineage'
  BY <1>11 DEF AddBm25, Goto
<1>12. ASSUME NEW t \in Tasks, IndexFails(t) PROVE Lineage'
  BY <1>12 DEF IndexFails, Goto
<1>13. ASSUME NEW t \in Tasks, PublishFails(t) PROVE Lineage'
  BY <1>13 DEF PublishFails, Goto
<1>14. ASSUME NEW t \in Tasks, PublishUpload(t) PROVE Lineage'
  BY <1>14 DEF PublishUpload, End
<1>15. ASSUME NEW t \in Tasks, PublishReindex(t) PROVE Lineage'
  BY <1>15 DEF PublishReindex, Goto
<1>16. ASSUME NEW t \in Tasks, PublishRefused(t) PROVE Lineage'
  BY <1>16 DEF PublishRefused, Goto
<1>17. ASSUME NEW t \in Tasks, Undo(t) PROVE Lineage'
  BY <1>17 DEF Undo, Unindex, Goto
<1>18. ASSUME NEW t \in Tasks, Checkpoint(t) PROVE Lineage'
  BY <1>18 DEF Checkpoint, End
<1>19. ASSUME NEW t \in Tasks, CheckpointAborts(t) PROVE Lineage'
  BY <1>19 DEF CheckpointAborts, End
<1>20. ASSUME NEW t \in Tasks, Retire(t) PROVE Lineage'
  BY <1>20 DEF Retire, Unindex, End
<1>21. ASSUME NEW t \in Tasks, DeleteIndexed(t) PROVE Lineage'
  BY <1>21 DEF DeleteIndexed, Unindex, Goto
<1>22. ASSUME NEW t \in Tasks, DeleteRow(t) PROVE Lineage'
  <2>1. /\ work[t] \in Docs
        /\ status' = [status EXCEPT ![work[t]] = "deleted"]
        /\ snap' = [snap EXCEPT ![work[t]] = NoSnapshot]
        /\ review' = [review EXCEPT ![work[t]] = "pending_review"]
        /\ pc' = [pc EXCEPT ![t] = "idle"]
        /\ work' = [work EXCEPT ![t] = None]
        /\ prev' = [prev EXCEPT ![t] = None]
    BY <1>22 DEF DeleteRow, End
  <2>2. /\ Rows' = Rows \ {work[t]}
        /\ Exists(work[t])
    BY <1>22, <2>1 DEF DeleteRow
  <2>3. SUFFICES ASSUME NEW u \in Tasks, Processing(u)', Exists(work[u])'
                 PROVE  LineageOf(u)'
    BY DEF Lineage
  <2>4. /\ u # t /\ Processing(u) /\ Exists(work[u]) /\ work[u] # work[t]
        /\ work'[u] = work[u] /\ prev'[u] = prev[u] /\ work[u] \in Docs
    BY <2>1, <2>3
  <2>5. LineageOf(u)
    BY <2>4 DEF Lineage
  <2>6. QED
    BY <2>1, <2>2, <2>4, <2>5 DEF LineageOf
<1>23. ASSUME NEW t \in Tasks, DeleteRowAborts(t) PROVE Lineage'
  BY <1>23 DEF DeleteRowAborts, End
<1>24. ASSUME NEW d \in Docs, Approve(d) PROVE Lineage'
  BY <1>24 DEF Approve, Pending
<1>25. ASSUME NEW d \in Docs, Reject(d) PROVE Lineage'
  BY <1>25 DEF Reject, Pending
<1>26. ASSUME CrashRestart PROVE Lineage'
  BY <1>26 DEF CrashRestart
<1>27. CASE UNCHANGED <<pc, work, prev, status, snap, review>>
  BY <1>27
<1>28. QED
  BY ZenonT(20), <1>1, <1>2, <1>3, <1>4, <1>5, <1>6, <1>7, <1>8, <1>9, <1>10, <1>11,
     <1>12, <1>13, <1>14, <1>15, <1>16, <1>17, <1>18, <1>19, <1>20, <1>21,
     <1>22, <1>23, <1>24, <1>25, <1>26, <1>27
     DEF Next, vars, Request, Process, Remove, UploadAborts, Tick

(* Active chunks stay indexed. *)
LEMMA ActiveIsIndexedStep ==
  TypeOK /\ WorkInHand /\ OneHolder /\ RowsConsistent /\ ActiveIsIndexed /\
  [Next]_vars => ActiveIsIndexed'
<1> SUFFICES ASSUME TypeOK, WorkInHand, OneHolder, RowsConsistent,
                    ActiveIsIndexed, [Next]_vars
             PROVE  ActiveIsIndexed'
  OBVIOUS
<1> USE DEF ActiveIsIndexed, RowsConsistent, OneHolder, HoldsLoop, LoopFree,
            WorkInHand, Processing, Rows, Family, TypeOK, Exists, IsCurrent,
            rowVars, indexVars, taskVars, histVars
<1>1. ASSUME NEW t \in Tasks, NEW f \in Families, NEW s \in Sources, Upload(t,
             f, s)
      PROVE  ActiveIsIndexed'
  BY <1>1 DEF Upload, Insert, Begin
<1>2. ASSUME NEW t \in Tasks, NEW c \in Docs, Reindex(t, c)
      PROVE  ActiveIsIndexed'
  BY <1>2 DEF Reindex, Insert, Begin
<1>3. ASSUME NEW t \in Tasks, NEW d \in Docs, Delete(t, d)
      PROVE  ActiveIsIndexed'
  BY <1>3 DEF Delete, Begin
<1>4. ASSUME NEW t \in Tasks, ParseFails(t) PROVE ActiveIsIndexed'
  BY <1>4 DEF ParseFails, End
<1>5. ASSUME NEW t \in Tasks, ParseNeedsReview(t) PROVE ActiveIsIndexed'
  BY <1>5 DEF ParseNeedsReview, End
<1>6. ASSUME NEW t \in Tasks, ParsePasses(t) PROVE ActiveIsIndexed'
  BY <1>6 DEF ParsePasses, Goto
<1>7. ASSUME NEW t \in Tasks, ParseAborts(t) PROVE ActiveIsIndexed'
  BY <1>7 DEF ParseAborts, End
<1>8. ASSUME NEW t \in Tasks, EmbedFails(t) PROVE ActiveIsIndexed'
  BY <1>8 DEF EmbedFails, Goto
<1>9. ASSUME NEW t \in Tasks, EmbedDone(t) PROVE ActiveIsIndexed'
  BY <1>9 DEF EmbedDone, Goto
<1>10. ASSUME NEW t \in Tasks, AddVector(t) PROVE ActiveIsIndexed'
  BY <1>10 DEF AddVector, Goto
<1>11. ASSUME NEW t \in Tasks, AddBm25(t) PROVE ActiveIsIndexed'
  BY <1>11 DEF AddBm25, Goto
<1>12. ASSUME NEW t \in Tasks, IndexFails(t) PROVE ActiveIsIndexed'
  BY <1>12 DEF IndexFails, Goto
<1>13. ASSUME NEW t \in Tasks, PublishFails(t) PROVE ActiveIsIndexed'
  BY <1>13 DEF PublishFails, Goto
<1>14. ASSUME NEW t \in Tasks, PublishUpload(t) PROVE ActiveIsIndexed'
  BY <1>14 DEF PublishUpload, End
<1>15. ASSUME NEW t \in Tasks, PublishReindex(t) PROVE ActiveIsIndexed'
  BY <1>15 DEF PublishReindex, Goto
<1>16. ASSUME NEW t \in Tasks, PublishRefused(t) PROVE ActiveIsIndexed'
  BY <1>16 DEF PublishRefused, Goto
<1>17. ASSUME NEW t \in Tasks, Undo(t) PROVE ActiveIsIndexed'
  BY <1>17 DEF Undo, Unindex, Goto
<1>18. ASSUME NEW t \in Tasks, Checkpoint(t) PROVE ActiveIsIndexed'
  BY <1>18 DEF Checkpoint, End
<1>19. ASSUME NEW t \in Tasks, CheckpointAborts(t) PROVE ActiveIsIndexed'
  BY <1>19 DEF CheckpointAborts, End
<1>20. ASSUME NEW t \in Tasks, Retire(t) PROVE ActiveIsIndexed'
  BY <1>20 DEF Retire, Unindex, End
<1>21. ASSUME NEW t \in Tasks, DeleteIndexed(t) PROVE ActiveIsIndexed'
  BY <1>21 DEF DeleteIndexed, Unindex, Goto
<1>22. ASSUME NEW t \in Tasks, DeleteRow(t) PROVE ActiveIsIndexed'
  BY <1>22 DEF DeleteRow, End
<1>23. ASSUME NEW t \in Tasks, DeleteRowAborts(t) PROVE ActiveIsIndexed'
  BY <1>23 DEF DeleteRowAborts, End
<1>24. ASSUME CrashRestart PROVE ActiveIsIndexed'
  BY <1>24 DEF CrashRestart
<1>25. CASE UNCHANGED <<halfDeleted, chunks, pc, work, vec, bm25>>
  BY <1>25
<1>26. QED
  BY <1>1, <1>2, <1>3, <1>4, <1>5, <1>6, <1>7, <1>8, <1>9, <1>10, <1>11,
     <1>12, <1>13, <1>14, <1>15, <1>16, <1>17, <1>18, <1>19, <1>20, <1>21,
     <1>22, <1>23, <1>24, <1>25
     DEF Next, vars, Request, Process, Remove, UploadAborts, Approve, Reject,
         Tick

(* The pointer stays on a servable document. *)
LEMMA CurrentIsServableStep ==
  TypeOK /\ WorkInHand /\ RowsConsistent /\ Lineage /\ CurrentIsServable /\
  [Next]_vars => CurrentIsServable'
<1> SUFFICES ASSUME TypeOK, WorkInHand, RowsConsistent, Lineage,
                    CurrentIsServable, [Next]_vars
             PROVE  CurrentIsServable'
  OBVIOUS
<1> USE DEF CurrentIsServable, Servable, WorkInHand, Processing, Rows, Family,
            TypeOK, Exists, IsCurrent, rowVars, indexVars, taskVars, histVars
<1>1. ASSUME NEW t \in Tasks, NEW f \in Families, NEW s \in Sources, Upload(t,
             f, s)
      PROVE  CurrentIsServable'
  BY <1>1 DEF Upload, Insert, Begin
<1>2. ASSUME NEW t \in Tasks, NEW c \in Docs, Reindex(t, c)
      PROVE  CurrentIsServable'
  BY <1>2 DEF Reindex, Insert, Begin
<1>3. ASSUME NEW t \in Tasks, ParseFails(t) PROVE CurrentIsServable'
  BY <1>3 DEF ParseFails, End
<1>4. ASSUME NEW t \in Tasks, ParseNeedsReview(t) PROVE CurrentIsServable'
  BY <1>4 DEF ParseNeedsReview, End
<1>5. ASSUME NEW t \in Tasks, ParsePasses(t) PROVE CurrentIsServable'
  BY <1>5 DEF ParsePasses, Goto
<1>6. ASSUME NEW t \in Tasks, PublishUpload(t) PROVE CurrentIsServable'
  BY <1>6 DEF PublishUpload, End
<1>7. ASSUME NEW t \in Tasks, PublishReindex(t) PROVE CurrentIsServable'
  <2> DEFINE d == work[t]
  <2>1. /\ d \in Docs /\ status[d] = "processing" /\ quality[d] = "passed"
        /\ snap[d].family \in Families
    BY <1>7 DEF PublishReindex, RowsConsistent, Snapshot
  <2>2. review[d] = "approved"
    BY <1>7, <2>1 DEF PublishReindex, Lineage, LineageOf
  <2>3. /\ current' = [current EXCEPT ![snap[d].family] = d]
        /\ status' = [status EXCEPT ![d] = "ready"]
        /\ chunks' = [chunks EXCEPT ![d] = "active", ![prev[t]] = "inactive"]
        /\ current[snap[d].family] = prev[t] /\ prev[t] # None
        /\ UNCHANGED <<snap, quality, review>>
    BY <1>7 DEF PublishReindex
  <2>4. QED
    BY <2>1, <2>2, <2>3, NoneAssumption
<1>8. ASSUME NEW t \in Tasks, Checkpoint(t) PROVE CurrentIsServable'
  BY <1>8 DEF Checkpoint, End
<1>9. ASSUME NEW t \in Tasks, DeleteRow(t) PROVE CurrentIsServable'
  BY <1>9 DEF DeleteRow, End
<1>10. ASSUME NEW d \in Docs, Approve(d) PROVE CurrentIsServable'
  BY <1>10 DEF Approve, Pending, RowsConsistent
<1>11. ASSUME NEW d \in Docs, Reject(d) PROVE CurrentIsServable'
  BY <1>11 DEF Reject, Pending
<1>12. CASE UNCHANGED <<current, status, review, quality, chunks, snap>>
  BY <1>12
<1>13. QED
  BY <1>1, <1>2, <1>3, <1>4, <1>5, <1>6, <1>7, <1>8, <1>9, <1>10, <1>11, <1>12
     DEF Next, vars, Request, Process, Remove, UploadAborts, Delete,
         ParseAborts, EmbedFails, EmbedDone, AddVector, AddBm25, IndexFails,
         PublishFails, PublishRefused, Undo, CheckpointAborts, Retire,
         DeleteIndexed, DeleteRowAborts, CrashRestart, Tick

(* The switch of generations leaves one active. *)
LEMMA OneActiveGenerationStep ==
  TypeOK /\ WorkInHand /\ RowsConsistent /\ Lineage /\ CurrentIsServable /\
  OneActiveGeneration /\
  [Next]_vars => OneActiveGeneration'
<1> SUFFICES ASSUME TypeOK, WorkInHand, RowsConsistent, Lineage,
                    CurrentIsServable, OneActiveGeneration, [Next]_vars
             PROVE  OneActiveGeneration'
  OBVIOUS
<1> USE DEF OneActiveGeneration, WorkInHand, RowsConsistent, Processing, Rows,
            Family, TypeOK, Exists, IsCurrent, rowVars, indexVars, taskVars,
            histVars
<1>1. ASSUME NEW t \in Tasks, NEW f \in Families, NEW s \in Sources, Upload(t,
             f, s)
      PROVE  OneActiveGeneration'
  BY <1>1 DEF Upload, Insert, Begin
<1>2. ASSUME NEW t \in Tasks, NEW c \in Docs, Reindex(t, c)
      PROVE  OneActiveGeneration'
  BY <1>2 DEF Reindex, Insert, Begin
<1>3. ASSUME NEW t \in Tasks, ParseFails(t) PROVE OneActiveGeneration'
  BY <1>3 DEF ParseFails, End
<1>4. ASSUME NEW t \in Tasks, ParseNeedsReview(t) PROVE OneActiveGeneration'
  BY <1>4 DEF ParseNeedsReview, End
<1>5. ASSUME NEW t \in Tasks, ParsePasses(t) PROVE OneActiveGeneration'
  BY <1>5 DEF ParsePasses, Goto
<1>6. ASSUME NEW t \in Tasks, PublishUpload(t) PROVE OneActiveGeneration'
  <2> DEFINE d == work[t]
  <2>1. d \in Docs /\ status[d] = "processing" /\ prev[t] = None
    BY <1>6 DEF PublishUpload
  <2>2. \A e \in Docs \ {d} : Exists(e) =>
          ~(snap[e].family = snap[d].family /\ snap[e].version = snap[d].version)
    <3>1. LineageOf(t)
      BY <1>6, <2>1 DEF PublishUpload, Lineage
    <3>2. QED
      BY <2>1, <3>1 DEF LineageOf
  <2>3. /\ status' = [status EXCEPT ![d] = "ready"]
        /\ chunks' = [chunks EXCEPT ![d] = "active"]
        /\ UNCHANGED snap
    BY <1>6 DEF PublishUpload
  <2>4. QED
    BY <2>1, <2>2, <2>3
<1>7. ASSUME NEW t \in Tasks, PublishReindex(t) PROVE OneActiveGeneration'
  <2> DEFINE d == work[t]
              p == prev[t]
  <2>1. /\ d \in Docs /\ status[d] = "processing" /\ p # None
        /\ snap[d].family \in Families /\ current[snap[d].family] = p
    BY <1>7 DEF PublishReindex, Snapshot
  <2>2. /\ p \in Docs /\ status[p] = "ready" /\ chunks[p] = "active"
        /\ snap[p].family = snap[d].family
    BY <2>1 DEF CurrentIsServable, Servable
  <2>3. snap[d].version = snap[p].version
    <3>1. snap[p] \in Snapshot
      BY <2>2
    <3>2. snap[d] = [snap[p] EXCEPT !.gen = snap[d].gen]
      BY <1>7, <2>1, <2>2 DEF PublishReindex, Lineage, LineageOf
    <3>3. QED
      BY <3>1, <3>2 DEF Snapshot
  <2>4. /\ status' = [status EXCEPT ![d] = "ready"]
        /\ chunks' = [chunks EXCEPT ![d] = "active", ![p] = "inactive"]
        /\ UNCHANGED snap
    BY <1>7 DEF PublishReindex
  <2>5. QED
    BY <2>1, <2>2, <2>3, <2>4
<1>8. ASSUME NEW t \in Tasks, Checkpoint(t) PROVE OneActiveGeneration'
  BY <1>8 DEF Checkpoint, End
<1>9. ASSUME NEW t \in Tasks, DeleteRow(t) PROVE OneActiveGeneration'
  BY <1>9 DEF DeleteRow, End
<1>10. CASE UNCHANGED <<status, chunks, snap>>
  BY <1>10
<1>11. QED
  BY <1>1, <1>2, <1>3, <1>4, <1>5, <1>6, <1>7, <1>8, <1>9, <1>10
     DEF Next, vars, Request, Process, Remove, UploadAborts, Delete,
         ParseAborts, EmbedFails, EmbedDone, AddVector, AddBm25, IndexFails,
         PublishFails, PublishRefused, Undo, CheckpointAborts, Retire,
         DeleteIndexed, DeleteRowAborts, Approve, Reject, CrashRestart, Tick

(* New numbers are new. *)
LEMMA SnapshotsAreDistinctStep ==
  TypeOK /\ WorkInHand /\ RowsConsistent /\ SnapshotsAreDistinct /\
  [Next]_vars => SnapshotsAreDistinct'
<1> SUFFICES ASSUME TypeOK, WorkInHand, RowsConsistent, SnapshotsAreDistinct,
                    [Next]_vars
             PROVE  SnapshotsAreDistinct'
  OBVIOUS
<1> USE DEF SnapshotsAreDistinct, WorkInHand, Processing, RowsConsistent,
            Rows, Family, TypeOK, Exists, IsCurrent, rowVars, indexVars,
            taskVars, histVars
<1>1. ASSUME NEW t \in Tasks, NEW f \in Families, NEW s \in Sources, Upload(t,
             f, s)
      PROVE  SnapshotsAreDistinct'
  <2>1. PICK d \in Docs, v \in Numbers :
          /\ NextVersion(f, v)
          /\ Insert(t, d,
               [family |-> f, source |-> s, version |-> v, gen |-> 1],
               "pending_review", None)
    BY <1>1 DEF Upload
  <2>2. /\ ~Exists(d) /\ d \notin Rows /\ v \in Nat
        /\ snap' = [snap EXCEPT ![d] =
                     [family |-> f, source |-> s, version |-> v, gen |-> 1]]
        /\ status' = [status EXCEPT ![d] = "processing"]
    BY <2>1, NumbersAreNat DEF Insert
  <2>3. \A e \in Rows : snap[e].family = f =>
          snap[e].version < v /\ snap[e].source # s /\ snap[e].version \in Nat
    BY <1>1, <2>1 DEF Upload, Importable, NextVersion, IsNext, Snapshot
  <2>4. Rows' = Rows \union {d}
    BY <2>2
  <2>5. QED
    BY <2>2, <2>3, <2>4
<1>2. ASSUME NEW t \in Tasks, NEW c \in Docs, Reindex(t, c)
      PROVE  SnapshotsAreDistinct'
  <2>1. PICK d \in Docs, g \in Numbers :
          /\ NextGeneration(c, g)
          /\ Insert(t, d, [snap[c] EXCEPT !.gen = g], "approved", c)
    BY <1>2 DEF Reindex
  <2>2. /\ ~Exists(d) /\ d \notin Rows /\ g \in Nat
        /\ snap' = [snap EXCEPT ![d] = [snap[c] EXCEPT !.gen = g]]
        /\ status' = [status EXCEPT ![d] = "processing"]
    BY <2>1, NumbersAreNat DEF Insert
  <2>3. c \in Rows /\ snap[c] \in Snapshot
    BY <1>2 DEF Reindex
  <2>4. /\ snap'[d].family = snap[c].family /\ snap'[d].gen = g
        /\ snap'[d].version = snap[c].version
        /\ snap'[d].source = snap[c].source
        /\ \A e \in Rows : snap'[e] = snap[e]
    BY <2>2, <2>3 DEF Snapshot
  <2>5. \A e \in Rows :
          snap[e].family = snap[c].family /\ snap[e].version = snap[c].version =>
            snap[e].gen < g /\ snap[e].gen \in Nat
    BY <2>1 DEF NextGeneration, IsNext, Snapshot
  <2>6. \A e \in Rows : snap[e].family = snap[c].family =>
          (snap[e].version = snap[c].version <=> snap[e].source = snap[c].source)
    BY <2>3
  <2>7. Rows' = Rows \union {d}
    BY <2>2
  <2>8. QED
    BY <2>2, <2>4, <2>5, <2>6, <2>7
<1>3. ASSUME NEW t \in Tasks, ParseFails(t) PROVE SnapshotsAreDistinct'
  BY <1>3 DEF ParseFails, End
<1>4. ASSUME NEW t \in Tasks, ParseNeedsReview(t) PROVE SnapshotsAreDistinct'
  BY <1>4 DEF ParseNeedsReview, End
<1>5. ASSUME NEW t \in Tasks, PublishUpload(t) PROVE SnapshotsAreDistinct'
  BY <1>5 DEF PublishUpload, End
<1>6. ASSUME NEW t \in Tasks, PublishReindex(t) PROVE SnapshotsAreDistinct'
  BY <1>6 DEF PublishReindex, Goto
<1>7. ASSUME NEW t \in Tasks, Checkpoint(t) PROVE SnapshotsAreDistinct'
  BY <1>7 DEF Checkpoint, End
<1>8. ASSUME NEW t \in Tasks, DeleteRow(t) PROVE SnapshotsAreDistinct'
  BY <1>8 DEF DeleteRow, End
<1>9. CASE UNCHANGED <<status, snap>>
  BY <1>9
<1>10. QED
  BY <1>1, <1>2, <1>3, <1>4, <1>5, <1>6, <1>7, <1>8, <1>9
     DEF Next, vars, Request, Process, Remove, UploadAborts, Delete,
         ParsePasses, ParseAborts, EmbedFails, EmbedDone, AddVector, AddBm25,
         IndexFails, PublishFails, PublishRefused, Undo, CheckpointAborts,
         Retire, DeleteIndexed, DeleteRowAborts, Approve, Reject,
         CrashRestart, Tick

(* A row in processing has a worker, or has lost it for good.              *)
LEMMA HasWorkerStep ==
  TypeOK /\ WorkInHand /\ HasWorker /\ [Next]_vars => HasWorker'
<1> SUFFICES ASSUME TypeOK, WorkInHand, HasWorker, [Next]_vars
             PROVE  HasWorker'
  OBVIOUS
<1> USE DEF HasWorker, WorkInHand, Processing, TypeOK, Exists, HoldsLoop,
            rowVars, indexVars, taskVars, histVars
<1>1. ASSUME NEW t \in Tasks, NEW f \in Families, NEW s \in Sources, Upload(t,
             f, s)
      PROVE  HasWorker'
  BY <1>1 DEF Upload, Insert, Begin
<1>2. ASSUME NEW t \in Tasks, NEW c \in Docs, Reindex(t, c) PROVE HasWorker'
  BY <1>2 DEF Reindex, Insert, Begin
<1>3. ASSUME NEW t \in Tasks, NEW d \in Docs, Delete(t, d) PROVE HasWorker'
  BY <1>3 DEF Delete, Begin
<1>4. ASSUME NEW t \in Tasks, ParseFails(t) PROVE HasWorker'
  BY <1>4 DEF ParseFails, End
<1>5. ASSUME NEW t \in Tasks, ParseNeedsReview(t) PROVE HasWorker'
  BY <1>5 DEF ParseNeedsReview, End
<1>6. ASSUME NEW t \in Tasks, ParsePasses(t) PROVE HasWorker'
  BY <1>6 DEF ParsePasses, Goto
<1>7. ASSUME NEW t \in Tasks, ParseAborts(t) PROVE HasWorker'
  BY <1>7 DEF ParseAborts, End
<1>8. ASSUME NEW t \in Tasks, EmbedFails(t) PROVE HasWorker'
  BY <1>8 DEF EmbedFails, Goto
<1>9. ASSUME NEW t \in Tasks, EmbedDone(t) PROVE HasWorker'
  BY <1>9 DEF EmbedDone, Goto
<1>10. ASSUME NEW t \in Tasks, AddVector(t) PROVE HasWorker'
  BY <1>10 DEF AddVector, Goto
<1>11. ASSUME NEW t \in Tasks, AddBm25(t) PROVE HasWorker'
  BY <1>11 DEF AddBm25, Goto
<1>12. ASSUME NEW t \in Tasks, IndexFails(t) PROVE HasWorker'
  BY <1>12 DEF IndexFails, Goto
<1>13. ASSUME NEW t \in Tasks, PublishFails(t) PROVE HasWorker'
  BY <1>13 DEF PublishFails, Goto
<1>14. ASSUME NEW t \in Tasks, PublishUpload(t) PROVE HasWorker'
  BY <1>14 DEF PublishUpload, End
<1>15. ASSUME NEW t \in Tasks, PublishReindex(t) PROVE HasWorker'
  BY <1>15 DEF PublishReindex, Goto
<1>16. ASSUME NEW t \in Tasks, PublishRefused(t) PROVE HasWorker'
  BY <1>16 DEF PublishRefused, Goto
<1>17. ASSUME NEW t \in Tasks, Undo(t) PROVE HasWorker'
  BY <1>17 DEF Undo, Unindex, Goto
<1>18. ASSUME NEW t \in Tasks, Checkpoint(t) PROVE HasWorker'
  BY <1>18 DEF Checkpoint, End
<1>19. ASSUME NEW t \in Tasks, CheckpointAborts(t) PROVE HasWorker'
  BY <1>19 DEF CheckpointAborts, End
<1>20. ASSUME NEW t \in Tasks, Retire(t) PROVE HasWorker'
  BY <1>20 DEF Retire, Unindex, End
<1>21. ASSUME NEW t \in Tasks, DeleteIndexed(t) PROVE HasWorker'
  BY <1>21 DEF DeleteIndexed, Unindex, Goto
<1>22. ASSUME NEW t \in Tasks, DeleteRow(t) PROVE HasWorker'
  BY <1>22 DEF DeleteRow, End
<1>23. ASSUME NEW t \in Tasks, DeleteRowAborts(t) PROVE HasWorker'
  BY <1>23 DEF DeleteRowAborts, End
<1>24. ASSUME CrashRestart PROVE HasWorker'
  BY <1>24 DEF CrashRestart
<1>25. CASE UNCHANGED <<pc, work, status, abandoned>>
  BY <1>25
<1>26. QED
  BY <1>1, <1>2, <1>3, <1>4, <1>5, <1>6, <1>7, <1>8, <1>9, <1>10, <1>11,
     <1>12, <1>13, <1>14, <1>15, <1>16, <1>17, <1>18, <1>19, <1>20, <1>21,
     <1>22, <1>23, <1>24, <1>25
     DEF Next, vars, Request, Process, Remove, UploadAborts, Approve, Reject,
         Tick

(* An original stays while a row refers to it. *)
LEMMA OriginalRetainedStep ==
  TypeOK /\ WorkInHand /\ OriginalRetained /\ [Next]_vars => OriginalRetained'
<1> SUFFICES ASSUME TypeOK, WorkInHand, OriginalRetained, [Next]_vars
             PROVE  OriginalRetained'
  OBVIOUS
<1> USE DEF OriginalRetained, OriginalAvailable, WorkInHand, Processing, Rows, Family, File,
            TypeOK, Exists, IsCurrent, rowVars, indexVars, taskVars, histVars
<1>1. ASSUME NEW t \in Tasks, NEW f \in Families, NEW s \in Sources, Upload(t,
             f, s)
      PROVE  OriginalRetained'
  BY <1>1 DEF Upload, StoreOriginal, Insert, Begin
<1>2. ASSUME NEW f \in Families, NEW s \in Sources, UploadAborts(f, s)
      PROVE  OriginalRetained'
  BY <1>2 DEF UploadAborts, StoreOriginal
<1>3. ASSUME NEW t \in Tasks, NEW c \in Docs, Reindex(t, c)
      PROVE  OriginalRetained'
  BY <1>3 DEF Reindex, Insert, Begin
<1>4. ASSUME NEW t \in Tasks, ParseFails(t) PROVE OriginalRetained'
  BY <1>4 DEF ParseFails, End
<1>5. ASSUME NEW t \in Tasks, ParseNeedsReview(t) PROVE OriginalRetained'
  BY <1>5 DEF ParseNeedsReview, End
<1>6. ASSUME NEW t \in Tasks, PublishUpload(t) PROVE OriginalRetained'
  BY <1>6 DEF PublishUpload, End
<1>7. ASSUME NEW t \in Tasks, PublishReindex(t) PROVE OriginalRetained'
  BY <1>7 DEF PublishReindex, Goto
<1>8. ASSUME NEW t \in Tasks, Checkpoint(t) PROVE OriginalRetained'
  BY <1>8 DEF Checkpoint, End
<1>9. ASSUME NEW t \in Tasks, DeleteRow(t) PROVE OriginalRetained'
  BY <1>9 DEF DeleteRow, LastReference, DeleteOriginal, End
<1>10. CASE UNCHANGED <<status, snap, originals>>
  BY <1>10
<1>11. QED
  BY <1>1, <1>2, <1>3, <1>4, <1>5, <1>6, <1>7, <1>8, <1>9, <1>10
     DEF Next, vars, Request, Process, Remove, Delete, ParsePasses,
         ParseAborts, EmbedFails, EmbedDone, AddVector, AddBm25, IndexFails,
         PublishFails, PublishRefused, Undo, CheckpointAborts, Retire,
         DeleteIndexed, DeleteRowAborts, Approve, Reject, CrashRestart, Tick

----------------------------------------------------------------------------
(* The invariants hold in an empty tenant. *)
LEMMA Initially == Init => TypeOK /\ IInv /\ OriginalRetained
<1> SUFFICES ASSUME Init
             PROVE  TypeOK /\ IInv /\ OriginalRetained
  OBVIOUS
<1>1. TypeOK
  BY DataAssumption DEF Init, TypeOK, Statuses, Labels, NoSnapshot
<1>2. Rows = {}
  BY DEF Init, Rows, Exists
<1>3. OneHolder /\ WorkInHand /\ OneWorker /\ Lineage
  BY DEF Init, OneHolder, HoldsLoop, WorkInHand, OneWorker, Lineage, Processing
<1>4. RowsConsistent /\ ActiveIsIndexed
  BY <1>2 DEF Init, RowsConsistent, ActiveIsIndexed, Pending, Exists
<1>5. CurrentIsServable /\ OneActiveGeneration /\ SnapshotsAreDistinct
      /\ OriginalRetained
  BY <1>2 DEF Init, CurrentIsServable, OneActiveGeneration,
              SnapshotsAreDistinct, OriginalRetained
<1>6. QED
  BY <1>1, <1>3, <1>4, <1>5 DEF IInv

(* No step leaves the inductive invariant. *)
LEMMA InductiveStep == TypeOK /\ IInv /\ [Next]_vars => IInv'
BY OneHolderStep, WorkInHandStep, OneWorkerStep, RowsConsistentStep, LineageStep,
   ActiveIsIndexedStep, CurrentIsServableStep, OneActiveGenerationStep,
   SnapshotsAreDistinctStep DEF IInv

(* The conjunction IInv is an invariant: it holds in every reachable state *)
(* together with the types.                                                *)
THEOREM Inductive == Spec => [](TypeOK /\ IInv)
<1>1. Init => TypeOK /\ IInv
  BY Initially
<1>2. TypeOK /\ IInv /\ [Next]_vars => (TypeOK /\ IInv)'
  BY TypeOKStep, InductiveStep DEF IInv
<1>3. QED
  BY <1>1, <1>2, PTL DEF Spec

(* Every variable keeps its type (TypeOK). *)
THEOREM TypeCorrect == Spec => []TypeOK
BY Inductive, PTL

(* No deletion, failed or late reindex, or crash ever leaves the pointer   *)
(* of a family on a document that search would not serve.                  *)
THEOREM PointerIsServable == Spec => []CurrentIsServable
<1>1. IInv => CurrentIsServable
  BY DEF IInv
<1>2. QED
  BY <1>1, Inductive, PTL

(* A current document is indexed while none of its deletions is under way. *)
LEMMA IndexedWhileCurrent == TypeOK /\ IInv => CurrentIsIndexed
<1> SUFFICES ASSUME TypeOK, IInv, NEW f \in Families,
                    current[f] \notin halfDeleted \union {None}
             PROVE  vec[current[f]] = Chunks /\ bm25[current[f]] = Chunks
  BY DEF CurrentIsIndexed
<1>1. /\ current[f] \in Docs \ halfDeleted
      /\ chunks[current[f]] = "active" /\ Family(current[f]) = f
  BY DEF TypeOK, IInv, CurrentIsServable, Servable
<1>2. \A t \in Tasks : ~(pc[t] = "del_row" /\ work[t] = current[f])
  BY <1>1 DEF IInv, WorkInHand, IsCurrent
<1>3. QED
  BY <1>1, <1>2 DEF IInv, ActiveIsIndexed

(* However requests interleave and die, the chunks of a current document   *)
(* are in both indexes unless its own deletion was cut short.              *)
THEOREM PointerIsIndexed == Spec => []CurrentIsIndexed
BY IndexedWhileCurrent, Inductive, PTL

(* Two generations of one version are never active together, however       *)
(* reindexes race with each other and with reviews.                        *)
THEOREM GenerationsSwitch == Spec => []OneActiveGeneration
<1>1. IInv => OneActiveGeneration
  BY DEF IInv
<1>2. QED
  BY <1>1, Inductive, PTL

(* Version and generation numbers identify a row of a family, also when    *)
(* deletions free numbers that are given out again.                        *)
THEOREM NumbersIdentify == Spec => []SnapshotsAreDistinct
<1>1. IInv => SnapshotsAreDistinct
  BY DEF IInv
<1>2. QED
  BY <1>1, Inductive, PTL

(* A deletion never removes the original another document came from.       *)
THEOREM OriginalsStay == Spec => []OriginalRetained
<1>1. TypeOK /\ IInv /\ OriginalRetained /\ [Next]_vars => OriginalRetained'
  BY OriginalRetainedStep DEF IInv
<1>2. QED
  BY <1>1, Initially, Inductive, PTL DEF Spec

(* A row says "processing" only while one request works on it, or after    *)
(* its request ended half-way.                                             *)
THEOREM ProcessingIsWorkedOn == Spec => []ProcessingHasWorker
<1>1. Init => HasWorker
  BY DEF Init, HasWorker
<1>2. TypeOK /\ IInv /\ HasWorker /\ [Next]_vars => HasWorker'
  BY HasWorkerStep DEF IInv
<1>3. IInv /\ HasWorker => ProcessingHasWorker
  BY DEF IInv, HasWorker, OneWorker, ProcessingHasWorker
<1>4. QED
  BY <1>1, <1>2, <1>3, Inductive, PTL DEF Spec

----------------------------------------------------------------------------
(* Every step obeys the discipline of the pointer. *)
LEMMA PointerStep ==
  TypeOK /\ IInv /\ [Next]_vars => PointerMove
<1> SUFFICES ASSUME TypeOK, IInv, [Next]_vars
             PROVE  PointerMove
  OBVIOUS
<1> USE DEF TypeOK, rowVars, indexVars, taskVars, histVars
<1>1. ASSUME NEW t \in Tasks, PublishReindex(t) PROVE PointerMove
  <2> DEFINE d == work[t]
              p == prev[t]
  <2>1. /\ d \in Docs /\ status[d] = "processing" /\ p # None
        /\ current[Family(d)] = p
        /\ current' = [current EXCEPT ![Family(d)] = d]
    BY <1>1 DEF PublishReindex, IInv, WorkInHand
  <2>2. Family(d) \in Families
    BY <2>1 DEF IInv, RowsConsistent, Rows, Exists, Family, Snapshot
  <2>3. /\ Exists(p) /\ Family(p) = Family(d)
    BY <2>1, <2>2 DEF IInv, CurrentIsServable, Servable, Exists
  <2>4. LineageOf(t)
    BY <1>1, <2>1 DEF PublishReindex, Processing, IInv, Lineage, Exists
  <2>5. snap[d] = [snap[p] EXCEPT !.gen = snap[d].gen] /\ snap[d].gen > snap[p].gen
    BY <2>1, <2>3, <2>4 DEF LineageOf
  <2>6. snap[p] \in Snapshot
    BY <2>1, <2>2, <2>3 DEF IInv, RowsConsistent, Rows
  <2>7. snap[d].source = snap[p].source
    BY <2>5, <2>6 DEF Snapshot
  <2>8. QED
    BY <2>1, <2>2, <2>5, <2>7, NoneAssumption DEF PointerMove
<1>2. ASSUME NEW d \in Docs, Approve(d) PROVE PointerMove
  BY <1>2, NoneAssumption DEF Approve, Pending, PointerMove
<1>3. CASE UNCHANGED current
  BY <1>3 DEF PointerMove
<1>4. QED
  BY <1>1, <1>2, <1>3
     DEF Next, vars, Request, Process, Remove, Upload, UploadAborts, Reindex,
         Delete, ParseFails, ParseNeedsReview, ParsePasses, ParseAborts,
         EmbedFails, EmbedDone, AddVector, AddBm25, IndexFails, PublishFails,
         PublishUpload, PublishRefused, Undo, Checkpoint, CheckpointAborts,
         Retire, DeleteIndexed, DeleteRow, DeleteRowAborts, Reject,
         CrashRestart, Tick

(* A pointer moves by a review or to a later generation of its source. *)
THEOREM PointerDiscipline == Spec => PointerMoves
<1>1. TypeOK /\ IInv /\ [Next]_vars => [PointerMove]_vars
  BY PointerStep
<1>2. QED
  BY <1>1, Inductive, PTL DEF Spec, PointerMoves

(* A source waits for review in one row of its family only. *)
LEMMA AloneInReview ==
  ASSUME TypeOK, IInv, NEW d \in Docs, Pending(d),
         NEW e \in Docs, Pending(e),
         Family(e) = Family(d), snap[e].source = snap[d].source
  PROVE  e = d
<1>1. d \in Rows /\ e \in Rows /\ snap[d].gen = 1 /\ snap[e].gen = 1
  BY DEF IInv, RowsConsistent, Pending, Rows
<1>2. QED
  BY <1>1 DEF IInv, SnapshotsAreDistinct

(* A step that only moves rows between states is invisible to employees. *)
LEMMA StatusStep ==
  ASSUME UNCHANGED <<snap, review, current>>,
         \A d \in Docs : Exists(d)' = Exists(d)
  PROVE  [Publication!Next]_(Publication!pubVars)
<1>1. Proposed' = Proposed
  BY DEF Proposed, Pending, Family
<1>2. Served' = Served
  BY DEF Served
<1>3. QED
  BY <1>1, <1>2 DEF Publication!pubVars

(* Every step is a step of PolicyPublication or invisible to it. *)
LEMMA RefinementStep ==
  TypeOK /\ IInv /\ [Next]_vars => [Publication!Next]_(Publication!pubVars)
<1> SUFFICES ASSUME TypeOK, IInv, [Next]_vars
             PROVE  [Publication!Next]_(Publication!pubVars)
  OBVIOUS
<1> USE DEF TypeOK, rowVars, indexVars, taskVars, histVars
<1>1. ASSUME NEW t \in Tasks, NEW f \in Families, NEW s \in Sources, Upload(t,
             f, s)
      PROVE  [Publication!Next]_(Publication!pubVars)
  <2>1. PICK d \in Docs, v \in Numbers :
          Insert(t, d, [family |-> f, source |-> s, version |-> v, gen |-> 1],
                 "pending_review", None)
    BY <1>1 DEF Upload
  <2>2. /\ status[d] = "unused" /\ d \notin Rows
        /\ snap' = [snap EXCEPT ![d] =
                     [family |-> f, source |-> s, version |-> v, gen |-> 1]]
        /\ status' = [status EXCEPT ![d] = "processing"]
        /\ review' = [review EXCEPT ![d] = "pending_review"]
        /\ UNCHANGED current
    BY <1>1, <2>1 DEF Upload, Insert, Rows, Exists
  <2>3. \A e \in Rows : ~(Family(e) = f /\ snap[e].source = s)
    BY <1>1 DEF Upload, Importable, IInv, RowsConsistent, File
  <2>4. \A g \in Families : current[g] # None =>
          /\ current[g] \in Rows /\ current[g] # d /\ Family(current[g]) = g
    BY <2>2 DEF IInv, CurrentIsServable, Servable, Rows, Exists
  <2>5. <<f, s>> \notin Proposed /\ Served[f] # s
    BY <2>3, <2>4, NoneAssumption DEF Proposed, Served, Pending, Rows
  <2>6. Proposed' = Proposed \union {<<f, s>>}
    <3>1. \A e \in Docs : Pending(e)' <=> Pending(e) \/ e = d
      BY <2>2 DEF Pending, Exists
    <3>2. \A e \in Docs : e # d => snap'[e] = snap[e]
      BY <2>2
    <3>3. snap'[d].family = f /\ snap'[d].source = s
      BY <2>2
    <3>4. ~Pending(d)
      BY <2>2 DEF Pending, Exists
    <3>5. QED
      BY <3>1, <3>2, <3>3, <3>4 DEF Proposed, Family
  <2>7. Served' = Served
    BY <2>2, <2>4 DEF Served
  <2>8. QED
    BY <2>5, <2>6, <2>7 DEF Publication!Next, Publication!Propose
<1>2. ASSUME NEW t \in Tasks, NEW c \in Docs, Reindex(t, c)
      PROVE  [Publication!Next]_(Publication!pubVars)
  <2>1. PICK d \in Docs, g \in Numbers :
          Insert(t, d, [snap[c] EXCEPT !.gen = g], "approved", c)
    BY <1>2 DEF Reindex
  <2>2. /\ status[d] = "unused" /\ ~Exists(d)
        /\ \A e \in Docs \ {d} :
             /\ snap'[e] = snap[e]
             /\ status'[e] = status[e]
             /\ review'[e] = review[e]
        /\ review'[d] = "approved"
        /\ UNCHANGED current
    BY <1>2, <2>1 DEF Reindex, Insert, Exists
  <2>3. \A h \in Families : current[h] # None => current[h] \in Docs \ {d}
    BY <2>2 DEF IInv, CurrentIsServable, Servable
  <2>4. Proposed' = Proposed
    <3>1. \A e \in Docs : Pending(e)' <=> Pending(e)
      BY <2>2 DEF Pending, Exists
    <3>2. QED
      BY <2>2, <3>1 DEF Proposed, Family, Pending
  <2>5. Served' = Served
    BY <2>2, <2>3 DEF Served
  <2>6. QED
    BY <2>4, <2>5 DEF Publication!pubVars
<1>3. ASSUME NEW t \in Tasks, ParseFails(t)
      PROVE  [Publication!Next]_(Publication!pubVars)
  BY <1>3, StatusStep DEF ParseFails, IInv, WorkInHand, Processing, Exists
<1>4. ASSUME NEW t \in Tasks, ParseNeedsReview(t)
      PROVE  [Publication!Next]_(Publication!pubVars)
  BY <1>4, StatusStep DEF ParseNeedsReview, IInv, WorkInHand, Processing, Exists
<1>5. ASSUME NEW t \in Tasks, PublishUpload(t)
      PROVE  [Publication!Next]_(Publication!pubVars)
  BY <1>5, StatusStep DEF PublishUpload, IInv, WorkInHand, Processing, Exists
<1>6. ASSUME NEW t \in Tasks, PublishReindex(t)
      PROVE  [Publication!Next]_(Publication!pubVars)
  <2> DEFINE d == work[t]
              p == prev[t]
  <2>1. /\ d \in Docs /\ status[d] = "processing" /\ p # None
        /\ current[Family(d)] = p
        /\ current' = [current EXCEPT ![Family(d)] = d]
        /\ status' = [status EXCEPT ![d] = "ready"]
        /\ UNCHANGED <<snap, review>>
    BY <1>6 DEF PublishReindex, IInv, WorkInHand
  <2>2. Family(d) \in Families
    BY <2>1 DEF IInv, RowsConsistent, Rows, Exists, Family, Snapshot
  <2>3. PointerMove
    BY <1>6, PointerStep
  <2>4. snap[d].source = snap[p].source
    <3>1. d # p
      BY <2>1, <2>2 DEF IInv, CurrentIsServable, Servable
    <3>2. LineageOf(t)
      BY <1>6, <2>1 DEF PublishReindex, Processing, IInv, Lineage, Exists
    <3>3. review[d] = "approved"
      BY <2>1, <3>2 DEF LineageOf
    <3>4. QED
      BY <2>1, <2>2, <2>3, <3>1, <3>3 DEF PointerMove, Pending
  <2>5. Served' = Served
    BY <2>1, <2>2, <2>4, NoneAssumption DEF Served
  <2>6. Proposed' = Proposed
    <3>1. \A e \in Docs : Pending(e)' <=> Pending(e)
      BY <2>1 DEF Pending, Exists
    <3>2. QED
      BY <2>1, <3>1 DEF Proposed, Family
  <2>7. QED
    BY <2>5, <2>6 DEF Publication!pubVars
<1>7. ASSUME NEW t \in Tasks, Checkpoint(t)
      PROVE  [Publication!Next]_(Publication!pubVars)
  BY <1>7, StatusStep DEF Checkpoint, IInv, WorkInHand, Processing, Exists
<1>8. ASSUME NEW t \in Tasks, DeleteRow(t)
      PROVE  [Publication!Next]_(Publication!pubVars)
  <2> DEFINE d == work[t]
              f == Family(d)
              s == snap[d].source
  <2>1. /\ d \in Docs /\ Exists(d) /\ ~IsCurrent(d)
        /\ snap' = [snap EXCEPT ![d] = NoSnapshot]
        /\ status' = [status EXCEPT ![d] = "deleted"]
        /\ review' = [review EXCEPT ![d] = "pending_review"]
        /\ UNCHANGED current
    BY <1>8 DEF DeleteRow, IInv, WorkInHand
  <2>2. f \in Families /\ s \in Sources
    BY <2>1 DEF IInv, RowsConsistent, Rows, Family, Snapshot
  <2>3. \A g \in Families : current[g] # d
    BY <2>1, <2>2, NoneAssumption DEF IInv, CurrentIsServable, IsCurrent
  <2>4. Served' = Served
    BY <2>1, <2>3 DEF Served
  <2>5. \A e \in Docs : Pending(e)' <=> Pending(e) /\ e # d
    BY <2>1 DEF Pending, Exists
  <2>6. \A e \in Docs \ {d} : snap'[e] = snap[e]
    BY <2>1
  <2>7. CASE Pending(d)
    <3>1. \A e \in Docs : Pending(e) /\ Family(e) = f /\ snap[e].source = s => e = d
      BY <2>1, <2>7, AloneInReview
    <3>2. <<f, s>> \in Proposed
      BY <2>1, <2>7 DEF Proposed
    <3>3. Proposed' = Proposed \ {<<f, s>>}
      BY <2>5, <2>6, <3>1 DEF Proposed, Family
    <3>4. QED
      BY <2>2, <2>4, <3>2, <3>3 DEF Publication!Next, Publication!Withdraw
  <2>8. CASE ~Pending(d)
    <3>1. Proposed' = Proposed
      BY <2>5, <2>6, <2>8 DEF Proposed, Family
    <3>2. QED
      BY <2>4, <3>1 DEF Publication!pubVars
  <2>9. QED
    BY <2>7, <2>8
<1>9. ASSUME NEW d \in Docs, Approve(d)
      PROVE  [Publication!Next]_(Publication!pubVars)
  <2> DEFINE f == Family(d)
              s == snap[d].source
  <2>1. /\ Pending(d) /\ f \in Families /\ s \in Sources
        /\ current' = [current EXCEPT ![f] = d]
        /\ review' = [review EXCEPT ![d] = "approved"]
        /\ UNCHANGED <<snap, status>>
    BY <1>9 DEF Approve, Pending, IInv, RowsConsistent, Rows, Family, Snapshot
  <2>2. \A e \in Docs : Pending(e) /\ Family(e) = f /\ snap[e].source = s => e = d
    BY <2>1, AloneInReview
  <2>3. \A e \in Docs : Pending(e)' <=> Pending(e) /\ e # d
    BY <2>1 DEF Pending, Exists
  <2>4. <<f, s>> \in Proposed
    BY <2>1 DEF Proposed
  <2>5. Proposed' = Proposed \ {<<f, s>>}
    BY <2>1, <2>2, <2>3 DEF Proposed, Family
  <2>6. Served' = [Served EXCEPT ![f] = s]
    BY <2>1, NoneAssumption DEF Served
  <2>7. QED
    BY <2>1, <2>4, <2>5, <2>6 DEF Publication!Next, Publication!Approve
<1>10. ASSUME NEW d \in Docs, Reject(d)
      PROVE  [Publication!Next]_(Publication!pubVars)
  <2> DEFINE f == Family(d)
              s == snap[d].source
  <2>1. /\ Pending(d) /\ f \in Families /\ s \in Sources
        /\ review' = [review EXCEPT ![d] = "rejected"]
        /\ UNCHANGED <<snap, status, current>>
    BY <1>10 DEF Reject, Pending, IInv, RowsConsistent, Rows, Family, Snapshot
  <2>2. \A e \in Docs : Pending(e) /\ Family(e) = f /\ snap[e].source = s => e = d
    BY <2>1, AloneInReview
  <2>3. \A e \in Docs : Pending(e)' <=> Pending(e) /\ e # d
    BY <2>1 DEF Pending, Exists
  <2>4. <<f, s>> \in Proposed
    BY <2>1 DEF Proposed
  <2>5. Proposed' = Proposed \ {<<f, s>>}
    BY <2>1, <2>2, <2>3 DEF Proposed, Family
  <2>6. Served' = Served
    BY <2>1 DEF Served
  <2>7. QED
    BY <2>1, <2>4, <2>5, <2>6 DEF Publication!Next, Publication!Withdraw
<1>11. CASE UNCHANGED <<snap, status, review, current>>
  BY <1>11, StatusStep DEF Exists
<1>12. QED
  BY <1>1, <1>2, <1>3, <1>4, <1>5, <1>6, <1>7, <1>8, <1>9, <1>10, <1>11
     DEF Next, vars, Request, Process, Remove, UploadAborts, Delete,
         ParsePasses, ParseAborts, EmbedFails, EmbedDone, AddVector, AddBm25,
         IndexFails, PublishFails, PublishRefused, Undo, CheckpointAborts,
         Retire, DeleteIndexed, DeleteRowAborts, CrashRestart, Tick

(* In an empty tenant nothing waits and nothing is in force. *)
LEMMA RefinementInit == Init => Publication!Init
BY DEF Init, Publication!Init, Proposed, Served, Pending, Exists

(* DocumentLifecycle implements PolicyPublication: the source in force for *)
(* a family changes by an approval and by nothing else.                    *)
THEOREM ImplementsPublication == Spec => PublicationSpec
<1>1. Init => Publication!Init
  BY RefinementInit
<1>2. TypeOK /\ IInv /\ [Next]_vars => [Publication!Next]_(Publication!pubVars)
  BY RefinementStep
<1>3. QED
  BY <1>1, <1>2, Inductive, PTL DEF Spec, PublicationSpec, Publication!Spec

----------------------------------------------------------------------------
(* Searches *)

(* A ranking is cut off at the limit or whole. *)
LEMMA BestIsPart ==
  ASSUME NEW k, NEW hits, NEW top \in Best(k, hits)
  PROVE  /\ top \subseteq hits
         /\ top = hits \/ Cardinality(top) = k
         /\ Cardinality(hits) <= k => top = hits
BY DEF Best

LEMMA EntriesAreHits == TypeOK => Entries(vec) \in Hits /\ Entries(bm25) \in Hits
BY DEF Entries, Hits

(* Under searches the lifecycle takes its own steps or none. *)
LEMMA LifecycleStep == [SearchNext]_allVars => [Next]_vars
<1> SUFFICES ASSUME [SearchNext]_allVars PROVE [Next]_vars
  OBVIOUS
<1>1. CASE Lifecycle
  BY <1>1 DEF Lifecycle
<1>2. CASE CrashDuringSearch
  BY <1>2 DEF CrashDuringSearch, Next
<1>3. ASSUME NEW s \in Searches,
             \/ StartSearch(s) \/ QueryEmbedded(s) \/ VectorHits(s) \/ Bm25Hits(s)
             \/ Answer(s) \/ SearchFails(s)
      PROVE  UNCHANGED vars
  BY <1>3 DEF StartSearch, QueryEmbedded, VectorHits, Bm25Hits, Answer, SearchFails, Finish
<1>4. CASE UNCHANGED allVars
  BY <1>4 DEF allVars
<1>5. QED
  BY <1>1, <1>2, <1>3, <1>4 DEF SearchNext

(* The system with searches implements the one without: every theorem      *)
(* about the lifecycle holds while employees search.                       *)
THEOREM SearchesOnlyRead == SearchSpec => Spec
<1>1. SearchInit => Init
  BY DEF SearchInit
<1>2. [SearchNext]_allVars => [Next]_vars
  BY LifecycleStep
<1>3. QED
  BY <1>1, <1>2, PTL DEF SearchSpec, Spec

----------------------------------------------------------------------------
(* A step of a search, by what it does to the hits and the answer. *)
LEMMA SearchTypeOKStep ==
  TypeOK /\ SearchTypeOK /\ AnswersCome /\ [SearchNext]_allVars => SearchTypeOK'
<1> SUFFICES ASSUME TypeOK, SearchTypeOK, AnswersCome, [SearchNext]_allVars
             PROVE  SearchTypeOK'
  OBVIOUS
<1>1. ASSUME NEW s \in Searches, StartSearch(s) PROVE SearchTypeOK'
  BY <1>1 DEF StartSearch, SearchTypeOK, TypeOK
<1>2. ASSUME NEW s \in Searches, QueryEmbedded(s) PROVE SearchTypeOK'
  BY <1>2 DEF QueryEmbedded, SearchTypeOK
<1>3. ASSUME NEW s \in Searches, VectorHits(s) PROVE SearchTypeOK'
  <2>1. PICK top \in Best(CandidateLimit, Entries(vec)) :
          /\ vhits' = [vhits EXCEPT ![s] = top]
          /\ crowded' = [crowded EXCEPT ![s] = @ \/ top # Entries(vec)]
    BY <1>3 DEF VectorHits
  <2>2. top \in Hits
    BY BestIsPart, EntriesAreHits DEF Hits
  <2>3. crowded' \in [Searches -> BOOLEAN]
    BY <2>1 DEF SearchTypeOK
  <2>4. QED
    BY <1>3, <2>1, <2>2, <2>3 DEF VectorHits, SearchTypeOK
<1>4. ASSUME NEW s \in Searches, Bm25Hits(s) PROVE SearchTypeOK'
  <2>1. PICK scoring \in SUBSET Entries(bm25) :
          \E top \in Best(CandidateLimit, scoring) : bhits' = [bhits EXCEPT ![s] = top]
    BY <1>4 DEF Bm25Hits
  <2>2. PICK top \in Best(CandidateLimit, scoring) : bhits' = [bhits EXCEPT ![s] = top]
    BY <2>1
  <2>3. top \in Hits
    BY <2>1, BestIsPart, EntriesAreHits DEF Hits
  <2>4. QED
    BY <1>4, <2>2, <2>3 DEF Bm25Hits, SearchTypeOK
<1>5. ASSUME NEW s \in Searches, NEW results \in Hits \union {None}, Finish(s, results)
      PROVE  SearchTypeOK'
  BY <1>5 DEF Finish, SearchTypeOK
<1>6. ASSUME NEW s \in Searches, Answer(s) PROVE SearchTypeOK'
  <2>1. PICK fused \in Best(CandidateLimit, vhits[s] \union bhits[s]) :
          \E shown \in Best(VisibleLimit, {hit \in fused : /\ Exists(hit[1])
                                                           /\ Governed(hit[1])
                                                           /\ Readable(s, hit[1])}) :
            Finish(s, shown)
    BY <1>6 DEF Answer
  <2>2. PICK shown \in Best(VisibleLimit, {hit \in fused : /\ Exists(hit[1])
                                                           /\ Governed(hit[1])
                                                           /\ Readable(s, hit[1])}) :
          Finish(s, shown)
    BY <2>1
  <2>3. vhits[s] \union bhits[s] \in Hits
    BY <1>6 DEF Answer, SearchTypeOK, Hits
  <2>4. fused \subseteq vhits[s] \union bhits[s]
    BY BestIsPart
  <2>5. shown \subseteq fused
    BY BestIsPart
  <2>6. shown \in Hits
    BY <2>3, <2>4, <2>5 DEF Hits
  <2>7. QED
    BY <1>5, <2>2, <2>6
<1>7. ASSUME NEW s \in Searches, SearchFails(s) PROVE SearchTypeOK'
  BY <1>5, <1>7 DEF SearchFails
<1>8. CASE CrashDuringSearch
  BY <1>8 DEF CrashDuringSearch, SearchTypeOK
<1>9. CASE UNCHANGED searchVars
  BY <1>9 DEF searchVars, SearchTypeOK
<1>10. QED
  BY <1>1, <1>2, <1>3, <1>4, <1>6, <1>7, <1>8, <1>9 DEF SearchNext, Lifecycle, allVars

LEMMA AnswersComeStep ==
  SearchTypeOK /\ AnswersCome /\ [SearchNext]_allVars => AnswersCome'
<1> SUFFICES ASSUME SearchTypeOK, AnswersCome, [SearchNext]_allVars
             PROVE  AnswersCome'
  OBVIOUS
<1> USE DEF SearchTypeOK, AnswersCome
<1>1. ASSUME NEW s \in Searches, StartSearch(s) PROVE AnswersCome'
  BY <1>1 DEF StartSearch
<1>2. ASSUME NEW s \in Searches, QueryEmbedded(s) PROVE AnswersCome'
  BY <1>2 DEF QueryEmbedded
<1>3. ASSUME NEW s \in Searches, VectorHits(s) PROVE AnswersCome'
  BY <1>3 DEF VectorHits
<1>4. ASSUME NEW s \in Searches, Bm25Hits(s) PROVE AnswersCome'
  BY <1>4 DEF Bm25Hits
<1>5. ASSUME NEW s \in Searches, Answer(s) \/ SearchFails(s) PROVE AnswersCome'
  BY <1>5 DEF Answer, SearchFails, Finish
<1>6. CASE CrashDuringSearch
  BY <1>6 DEF CrashDuringSearch
<1>7. CASE UNCHANGED searchVars
  BY <1>7 DEF searchVars
<1>8. QED
  BY <1>1, <1>2, <1>3, <1>4, <1>5, <1>6, <1>7 DEF SearchNext, Lifecycle, allVars

----------------------------------------------------------------------------
(* A document that was current keeps its approval until it is deleted. *)
LEMMA SettledStays ==
  ASSUME TypeOK, IInv, [Next]_vars, NEW d \in Docs, Settled(d)
  PROVE  Settled(d)'
<1> USE DEF TypeOK, Settled, rowVars, indexVars, taskVars, histVars
<1>1. ASSUME NEW t \in Tasks, Process(t), pc[t] # "retire" PROVE Settled(d)'
  <2>1. work[t] \in Docs /\ status[work[t]] \in {"processing", "deleted"} /\ pc[t] # "idle"
    BY <1>1 DEF Process, ParseFails, ParseNeedsReview, ParsePasses, ParseAborts,
         EmbedFails, EmbedDone, AddVector, AddBm25, IndexFails, PublishUpload,
         PublishReindex, PublishRefused, PublishFails, Undo, Checkpoint,
         CheckpointAborts, Retire, IInv, WorkInHand, Processing
  <2>2. review' = review
    BY <1>1 DEF Process, ParseFails, ParseNeedsReview, ParsePasses, ParseAborts,
         EmbedFails, EmbedDone, AddVector, AddBm25, IndexFails, PublishUpload,
         PublishReindex, PublishRefused, PublishFails, Undo, Checkpoint,
         CheckpointAborts, Retire
  <2>3. CASE status' = status
    BY <2>2, <2>3
  <2>4. CASE ParseFails(t) \/ ParseNeedsReview(t) \/ PublishUpload(t) \/ PublishReindex(t)
    <3>1. status[work[t]] = "processing"
      BY <2>4 DEF ParseFails, ParseNeedsReview, PublishUpload, PublishReindex,
                  IInv, WorkInHand
    <3>2. status'[d] = status[d]
      BY <2>1, <2>4, <3>1 DEF ParseFails, ParseNeedsReview, PublishUpload, PublishReindex
    <3>3. QED
      BY <2>2, <3>2
  <2>5. CASE Checkpoint(t)
    <3>1. status'[d] = status[d]
      BY <2>1, <2>5 DEF Checkpoint, Exists
    <3>2. QED
      BY <2>2, <3>1
  <2>6. QED
    BY <1>1, <2>3, <2>4, <2>5
       DEF Process, ParsePasses, ParseAborts, EmbedFails, EmbedDone, AddVector, AddBm25,
           IndexFails, PublishRefused, PublishFails, Undo, CheckpointAborts, Retire
<1>2. ASSUME NEW t \in Tasks, DeleteRow(t) PROVE Settled(d)'
  BY <1>2 DEF DeleteRow
<1>3. ASSUME NEW t \in Tasks, NEW e \in Docs, NEW snapshot, NEW verdict, NEW replaced,
             Insert(t, e, snapshot, verdict, replaced)
      PROVE  Settled(d)'
  BY <1>3 DEF Insert
<1>4. ASSUME NEW e \in Docs, Approve(e) \/ Reject(e) PROVE Settled(d)'
  BY <1>4 DEF Approve, Reject, Pending, Exists
<1>5. CASE UNCHANGED <<status, review>>
  BY <1>5
<1>6. ASSUME NEW t \in Tasks, Request(t) PROVE Settled(d)'
  <2>1. ASSUME NEW f \in Families, NEW s \in Sources, Upload(t, f, s) PROVE Settled(d)'
    BY <1>3, <2>1 DEF Upload
  <2>2. ASSUME NEW c \in Docs, Reindex(t, c) PROVE Settled(d)'
    BY <1>3, <2>2 DEF Reindex
  <2>3. ASSUME NEW c \in Docs, Delete(t, c) PROVE Settled(d)'
    BY <2>3 DEF Delete
  <2>4. QED
    BY <1>6, <2>1, <2>2, <2>3 DEF Request
<1>7. ASSUME NEW t \in Tasks, Process(t), pc[t] = "retire" PROVE Settled(d)'
  BY <1>7 DEF Process, ParseFails, ParseNeedsReview, ParsePasses, ParseAborts,
         EmbedFails, EmbedDone, AddVector, AddBm25, IndexFails, PublishUpload,
         PublishReindex, PublishRefused, PublishFails, Undo, Checkpoint,
         CheckpointAborts, Retire
<1>8. QED
  BY <1>1, <1>2, <1>4, <1>5, <1>6, <1>7
     DEF Next, vars, Remove, DeleteIndexed, DeleteRowAborts, UploadAborts, CrashRestart, Tick

(* A document a family points at is settled. *)
LEMMA CurrentIsSettled ==
  ASSUME TypeOK, IInv, NEW f \in Families, current[f] # None
  PROVE  Settled(current[f])
BY DEF IInv, CurrentIsServable, Servable, Settled

LEMMA StartIsSettledStep ==
  TypeOK /\ IInv /\ SearchTypeOK /\ StartIsSettled /\ [SearchNext]_allVars => StartIsSettled'
<1> SUFFICES ASSUME TypeOK, IInv, SearchTypeOK, StartIsSettled, [SearchNext]_allVars,
                    NEW s \in Searches, NEW f \in Families, atStart'[s][f] # None
             PROVE  LET d == atStart'[s][f] IN
                    /\ status'[d] \in {"ready", "deleted"}
                    /\ status'[d] = "ready" => review'[d] = "approved"
  BY DEF StartIsSettled, Settled
<1>1. /\ atStart'[s][f] \in Docs
      /\ Settled(atStart'[s][f])
  <2>1. CASE StartSearch(s)
    <3>1. atStart'[s] = current
      BY <2>1 DEF StartSearch, SearchTypeOK
    <3>2. QED
      BY <3>1, CurrentIsSettled DEF TypeOK
  <2>2. CASE ~StartSearch(s)
    <3>1. atStart'[s] = atStart[s]
      BY <2>2 DEF SearchNext, Lifecycle, CrashDuringSearch, StartSearch, QueryEmbedded,
                  VectorHits, Bm25Hits, Answer, SearchFails, Finish, SearchTypeOK,
                  searchVars, allVars
    <3>2. QED
      BY <3>1 DEF StartIsSettled, SearchTypeOK
  <2>3. QED
    BY <2>1, <2>2
<1>2. PICK d \in Docs : d = atStart'[s][f]
  BY <1>1
<1>3. Settled(d)'
  BY <1>1, <1>2, LifecycleStep, SettledStays
<1>4. QED
  BY <1>2, <1>3 DEF Settled

(* The pointer does not come back to a settled document, and only the      *)
(* deletion of a document that is not current clears halfDeleted.          *)
LEMMA StaysCurrent ==
  ASSUME TypeOK, IInv, [Next]_vars, NEW f \in Families, NEW d \in Docs, Settled(d),
         current'[f] = d, d \notin halfDeleted'
  PROVE  current[f] = d /\ d \notin halfDeleted
<1>1. current[f] = d
  <2>1. PointerMove
    BY PointerStep
  <2>2. QED
    BY <2>1 DEF PointerMove, Pending, Exists, Settled
<1>2. Family(d) = f
  BY <1>1, NoneAssumption DEF IInv, CurrentIsServable
<1>3. ASSUME NEW t \in Tasks, DeleteRow(t) PROVE work[t] # d
  BY <1>1, <1>2, <1>3 DEF DeleteRow, IInv, WorkInHand, IsCurrent
<1>4. d \notin halfDeleted
  <2>1. CASE \E t \in Tasks : DeleteRow(t)
    BY <1>3, <2>1 DEF DeleteRow
  <2>2. CASE ~\E t \in Tasks : DeleteRow(t)
    <3>1. halfDeleted \subseteq halfDeleted'
      BY <2>2 DEF Next, vars, rowVars, indexVars, taskVars, histVars, Request, Process,
         Remove, Upload, UploadAborts, Reindex, Delete, ParseFails, ParseNeedsReview,
         ParsePasses, ParseAborts, EmbedFails, EmbedDone, AddVector, AddBm25, IndexFails,
         PublishFails, PublishUpload, PublishReindex, PublishRefused, Undo, Checkpoint,
         CheckpointAborts, Retire, DeleteIndexed, DeleteRowAborts, Approve, Reject,
         CrashRestart, Tick
    <3>2. QED
      BY <3>1
  <2>3. QED
    BY <2>1, <2>2
<1>5. QED
  BY <1>1, <1>4

LEMMA HitsAreCompleteStep ==
  TypeOK /\ IInv /\ SearchIInv /\ [SearchNext]_allVars => HitsAreComplete'
<1> SUFFICES ASSUME TypeOK, IInv, SearchIInv, [SearchNext]_allVars,
                    NEW s \in Searches, NEW f \in Families,
                    vhits'[s] # None, ~crowded'[s], current'[f] = atStart'[s][f],
                    current'[f] \notin halfDeleted' \union {None}
             PROVE  {current'[f]} \X Chunks \subseteq vhits'[s]
  BY DEF HitsAreComplete
<1> USE DEF SearchIInv, SearchTypeOK
<1>1. [Next]_vars
  BY LifecycleStep
<1>2. ~StartSearch(s) /\ atStart'[s] = atStart[s]
  <2>1. ~StartSearch(s)
    BY DEF StartSearch, AnswersCome
  <2>2. QED
    BY <2>1 DEF SearchNext, Lifecycle, CrashDuringSearch, StartSearch, QueryEmbedded,
                VectorHits, Bm25Hits, Answer, SearchFails, Finish, searchVars, allVars
<1>3. PICK d \in Docs : d = atStart[s][f] /\ Settled(d)
  BY <1>2 DEF StartIsSettled
<1>4. current[f] = d /\ d \notin halfDeleted /\ d # None
  BY <1>1, <1>2, <1>3, StaysCurrent
<1>5. CASE VectorHits(s)
  <2>1. PICK top \in Best(CandidateLimit, Entries(vec)) :
          /\ vhits' = [vhits EXCEPT ![s] = top]
          /\ crowded' = [crowded EXCEPT ![s] = @ \/ top # Entries(vec)]
    BY <1>5 DEF VectorHits
  <2>2. vhits'[s] = Entries(vec)
    BY <2>1
  <2>3. CurrentIsIndexed
    BY IndexedWhileCurrent
  <2>4. vec[d] = Chunks
    BY <1>4, <2>3 DEF CurrentIsIndexed
  <2>5. {d} \X Chunks \subseteq Entries(vec)
    BY <2>4 DEF Entries
  <2>6. QED
    BY <1>2, <1>3, <2>2, <2>5
<1>6. CASE ~VectorHits(s)
  <2>1. vhits'[s] = vhits[s] /\ crowded'[s] = crowded[s]
    BY ZenonT(20), <1>2, <1>6 DEF SearchNext, Lifecycle, CrashDuringSearch, StartSearch, QueryEmbedded,
                VectorHits, Bm25Hits, Answer, SearchFails, Finish, searchVars, allVars
  <2>2. {d} \X Chunks \subseteq vhits[s]
    BY <1>3, <1>4, <2>1 DEF HitsAreComplete
  <2>3. QED
    BY <1>2, <1>3, <2>1, <2>2
<1>7. QED
  BY <1>5, <1>6

(* The invariants of the lifecycle and of the searches hold together. *)
THEOREM SearchInductive == SearchSpec => [](TypeOK /\ IInv /\ SearchIInv)
<1>1. SearchInit => SearchIInv
  BY Initially DEF SearchInit, Init, SearchIInv, SearchTypeOK, AnswersCome, StartIsSettled,
                   HitsAreComplete, TypeOK
<1>2. TypeOK /\ IInv /\ SearchIInv /\ [SearchNext]_allVars => SearchIInv'
  BY SearchTypeOKStep, AnswersComeStep, StartIsSettledStep, HitsAreCompleteStep
     DEF SearchIInv
<1>3. QED
  BY <1>1, <1>2, SearchesOnlyRead, Inductive, PTL DEF SearchSpec

----------------------------------------------------------------------------
(* An answer that shows something comes from the step Answer. *)
LEMMA AnswerIsGiven ==
  ASSUME SearchTypeOK, AnswersCome, SearchNext, NEW s \in Searches, Answers(s)
  PROVE  Answer(s)
<1> USE DEF SearchTypeOK, AnswersCome, Answers
<1>1. ~Lifecycle /\ ~CrashDuringSearch
  BY DEF Lifecycle, CrashDuringSearch, searchVars
<1>2. ASSUME NEW u \in Searches,
             StartSearch(u) \/ QueryEmbedded(u) \/ VectorHits(u) \/ Bm25Hits(u)
      PROVE  FALSE
  BY <1>2 DEF StartSearch, QueryEmbedded, VectorHits, Bm25Hits
<1>3. ASSUME NEW u \in Searches, u # s, Answer(u) \/ SearchFails(u) PROVE FALSE
  BY <1>3 DEF Answer, SearchFails, Finish
<1>4. ~SearchFails(s)
  BY DEF SearchFails, Finish
<1>5. QED
  BY <1>1, <1>2, <1>3, <1>4 DEF SearchNext

(* What passes the filter is what its family points at. *)
LEMMA GovernedIsServed ==
  ASSUME TypeOK, IInv, NEW d \in Docs, Exists(d), Governed(d)
  PROVE  /\ Family(d) \in Families
         /\ current[Family(d)] = d
         /\ snap[d].source = Served[Family(d)]
<1>1. Family(d) \in Families
  BY DEF IInv, RowsConsistent, Rows, Family, Snapshot
<1>2. current[Family(d)] = d /\ d # None
  BY NoneAssumption DEF Governed, IsCurrent
<1>3. QED
  BY <1>1, <1>2 DEF Served

GovernedAnswer ==
  \A s \in Searches : Answers(s) =>
    \A hit \in answer'[s] :
      /\ snap[hit[1]].source = Served[Family(hit[1])]
      /\ InForce(hit[1]) /\ Readable(s, hit[1])
      /\ \A other \in answer'[s] :
           Family(other[1]) = Family(hit[1]) => other[1] = hit[1]

(* An answer shows each family as the source in force for it, to whom it   *)
(* is meant for, and never two documents of one family.                    *)
THEOREM GovernedAnswers == SearchSpec => AnswersAreGoverned
<1>1. TypeOK /\ IInv /\ SearchIInv /\ [SearchNext]_allVars => [GovernedAnswer]_allVars
  <2> SUFFICES ASSUME TypeOK, IInv, SearchIInv, SearchNext, NEW s \in Searches, Answers(s)
               PROVE  \A hit \in answer'[s] :
                        /\ snap[hit[1]].source = Served[Family(hit[1])]
                        /\ InForce(hit[1]) /\ Readable(s, hit[1])
                        /\ \A other \in answer'[s] :
                             Family(other[1]) = Family(hit[1]) => other[1] = hit[1]
    BY DEF GovernedAnswer
  <2>1. Answer(s)
    BY AnswerIsGiven DEF SearchIInv
  <2>2. PICK fused \in Best(CandidateLimit, vhits[s] \union bhits[s]) :
          \E shown \in Best(VisibleLimit, {hit \in fused : /\ Exists(hit[1])
                                                           /\ Governed(hit[1])
                                                           /\ Readable(s, hit[1])}) :
            Finish(s, shown)
    BY <2>1 DEF Answer
  <2>3. PICK shown \in Best(VisibleLimit, {hit \in fused : /\ Exists(hit[1])
                                                           /\ Governed(hit[1])
                                                           /\ Readable(s, hit[1])}) :
          Finish(s, shown)
    BY <2>2
  <2>4. answer'[s] = shown
    BY <2>3 DEF Finish, SearchIInv, SearchTypeOK
  <2>5. vhits[s] \union bhits[s] \in Hits
    BY <2>1 DEF Answer, SearchIInv, SearchTypeOK, Hits
  <2>6. shown \subseteq {hit \in fused : /\ Exists(hit[1])
                                         /\ Governed(hit[1])
                                         /\ Readable(s, hit[1])}
    BY BestIsPart
  <2>7. fused \subseteq vhits[s] \union bhits[s]
    BY BestIsPart
  <2>8. ASSUME NEW hit \in shown
        PROVE  /\ hit[1] \in Docs /\ Exists(hit[1]) /\ Governed(hit[1])
               /\ Readable(s, hit[1])
    <3>1. hit \in Docs \X Chunks
      BY <2>5, <2>6, <2>7 DEF Hits
    <3>2. QED
      BY <2>6, <3>1
  <2>9. \A hit \in shown : /\ current[Family(hit[1])] = hit[1]
                           /\ snap[hit[1]].source = Served[Family(hit[1])]
    BY <2>8, GovernedIsServed
  <2>10. QED
    BY <2>4, <2>8, <2>9 DEF Governed
<1>2. QED
  BY <1>1, SearchInductive, PTL DEF SearchSpec, AnswersAreGoverned, GovernedAnswer

FoundPolicy ==
  \A s \in Searches, f \in Families :
    /\ Answers(s)
    /\ RoomForAll(s)
    /\ current[f] = atStart[s][f]
    /\ Findable(s, f, current[f])
    => Shows(s, f) \/ Cardinality(answer'[s]) = VisibleLimit

(* A policy that stays current through a search is found, whatever happens *)
(* to other documents meanwhile.                                           *)
THEOREM CurrentPolicyFound == SearchSpec => CurrentPolicyIsFound
<1>1. TypeOK /\ IInv /\ SearchIInv /\ [SearchNext]_allVars => [FoundPolicy]_allVars
  <2> SUFFICES ASSUME TypeOK, IInv, SearchIInv, SearchNext,
                      NEW s \in Searches, NEW f \in Families,
                      Answers(s), RoomForAll(s), current[f] = atStart[s][f],
                      Findable(s, f, current[f])
               PROVE  Shows(s, f) \/ Cardinality(answer'[s]) = VisibleLimit
    BY DEF FoundPolicy
  <2> DEFINE d == current[f]
             Passed(fused) == {hit \in fused : /\ Exists(hit[1])
                                               /\ Governed(hit[1])
                                               /\ Readable(s, hit[1])}
  <2>1. Answer(s)
    BY AnswerIsGiven DEF SearchIInv
  <2>2. PICK fused \in Best(CandidateLimit, vhits[s] \union bhits[s]) :
          \E shown \in Best(VisibleLimit, Passed(fused)) : Finish(s, shown)
    BY <2>1 DEF Answer
  <2>3. PICK shown \in Best(VisibleLimit, Passed(fused)) : Finish(s, shown)
    BY <2>2
  <2>4. answer'[s] = shown
    BY <2>3 DEF Finish, SearchIInv, SearchTypeOK
  <2>5. fused = vhits[s] \union bhits[s]
    BY BestIsPart DEF RoomForAll
  <2>6. {d} \X Chunks \subseteq vhits[s]
    BY <2>1 DEF Answer, SearchIInv, HitsAreComplete, RoomForAll, Findable
  <2>7. PICK c \in Chunks : <<d, c>> \in fused
    BY <2>5, <2>6, DataAssumption
  <2>8. Servable(d) /\ Family(d) = f
    BY DEF IInv, CurrentIsServable, Findable
  <2>9. Exists(d) /\ Governed(d) /\ Readable(s, d)
    BY <2>8 DEF Servable, Exists, Governed, IsCurrent, Findable
  <2>10. <<d, c>> \in Passed(fused) /\ <<d, c>>[1] = d
    BY <2>7, <2>9
  <2>11. shown = Passed(fused) \/ Cardinality(shown) = VisibleLimit
    BY BestIsPart
  <2>12. QED
    BY <2>4, <2>8, <2>10, <2>11 DEF Shows
<1>2. QED
  BY <1>1, SearchInductive, PTL DEF SearchSpec, CurrentPolicyIsFound, FoundPolicy
=============================================================================
