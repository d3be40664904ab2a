---------------------------- MODULE KnowledgeSync ----------------------------
(***************************************************************************)
(* The knowledge items of one tenant and the three stores that hold them:  *)
(* the SQL row, the vector and the keyword index                           *)
(* (app/services/knowledge_service.py, app/api/admin/knowledge.py).        *)
(*                                                                         *)
(* The endpoints are `async def` and call the service without an await: an *)
(* operation blocks the event loop from its first statement to its last,   *)
(* so operations do not interleave with each other.  Its effects do not    *)
(* become visible together, though.  The stores are written one after the  *)
(* other, searches on executor threads read them in between, any step may  *)
(* fail, and the process may die; only the SQL row is ever rolled back.    *)
(***************************************************************************)
EXTENDS Naturals, Sequences, FiniteSets, Bm25Index

CONSTANTS
  Items,     \* KnowledgeItem.id (uuid4: never used twice)
  Contents,  \* question and answer of an item, each the set of its tokens
  MaxBatch,  \* bound on the items of a batch import
  Seeds,     \* corpora the first start may seed the tenant with, <<>> for no seed
  None

Status == {"active", "draft", "archived"}
Row == [status: Status, content: Contents]

ASSUME SyncAssumption ==
  /\ None \notin Items \union Contents \union Row
  /\ IsFiniteSet(Items)
  /\ MaxBatch \in Nat \ {0}

(* The corpus of the seed names an item once and has a word. *)
ASSUME SeedAssumption ==
  \A seed \in Seeds :
    seed \in Seq([id: Items, text: Contents]) /\ HasDistinctIds(seed) /\ ~Raises(seed)

VARIABLES
  row,    \* the committed SQL rows, None where there is none
  vec,    \* the vector collection: the content embedded for an id, or None
  bm,     \* the keyword index
  pc,     \* the next step of the operation that runs
  op,     \* the operation: its verb, item and the row it will commit
  batch,  \* creations left in the batch import that runs
  used,   \* ids given out so far
  up,     \* FALSE after a start that raised
  parted, \* history: items whose stores the seeding or an operation let go apart
  gone    \* history: items deleted from all stores without an error

vars == <<row, vec, bm, pc, op, batch, used, up, parted, gone>>

NoOp == [verb |-> "none"]
Ops == [verb: {"create", "update", "delete"}, item: Items, row: Row,
        sync: BOOLEAN]

(* lifespan: the first start gives the demo tenant its questions as active *)
(* rows, puts them into the keyword index and never into the vectors; any  *)
(* other tenant begins empty.                                              *)
SeededRows(seed) ==
  [i \in Items |->
     IF Holds(seed, i) THEN [status |-> "active", content |-> TextOf(seed, i)] ELSE None]

Init ==
  \E seed \in Seeds :
    /\ row = SeededRows(seed)
    /\ vec = [i \in Items |-> None]
    /\ bm = Rebuild(Empty, seed)
    /\ pc = "idle"
    /\ op = NoOp
    /\ batch = 0
    /\ used = {i \in Items : Holds(seed, i)}
    /\ up = TRUE
    /\ parted = used
    /\ gone = {}

IsActive(i) == row[i] # None /\ row[i].status = "active"

(* The handler raises: the session is rolled back, a batch ends.  What the *)
(* stores have been told stays.                                            *)
Raise ==
  /\ pc' = "idle"
  /\ op' = NoOp
  /\ batch' = 0
  /\ UNCHANGED row

(* The operation goes on with its next step. *)
Continue(label) == pc' = label /\ UNCHANGED <<op, batch, row>>

----------------------------------------------------------------------------
(* create_knowledge and update_knowledge, up to the flush *)

BeginCreate(i, content) ==
  /\ op' = [verb |-> "create", item |-> i, sync |-> TRUE,
            row |-> [status |-> "active", content |-> content]]
  /\ pc' = "embed"
  /\ used' = used \union {i}
  /\ UNCHANGED <<row, vec, bm, up, parted, gone>>

Create(i, content) ==
  /\ up /\ pc = "idle" /\ batch = 0 /\ i \notin used
  /\ BeginCreate(i, content)
  /\ UNCHANGED batch

(* batch_import: one create_knowledge, with its own commit, per item. *)
BatchImport(n) ==
  /\ up /\ pc = "idle" /\ batch = 0
  /\ n <= Cardinality(Items \ used)
  /\ batch' = n
  /\ UNCHANGED <<row, vec, bm, pc, op, used, up, parted, gone>>

BatchCreate(i, content) ==
  /\ pc = "idle" /\ batch > 0 /\ i \notin used
  /\ BeginCreate(i, content)
  /\ batch' = batch - 1

(* update_knowledge: the stores hear of it only when the request has a     *)
(* question or an answer; a request that only has a status does not reach  *)
(* them.                                                                   *)
Update(i, new, sync) ==
  /\ up /\ pc = "idle" /\ batch = 0 /\ row[i] # None
  /\ ~sync => new.content = row[i].content
  /\ op' = [verb |-> "update", item |-> i, row |-> new, sync |-> sync]
  /\ pc' = IF sync THEN "embed" ELSE "commit"
  /\ UNCHANGED <<row, vec, bm, batch, used, up, parted, gone>>

Delete(i) ==
  /\ up /\ pc = "idle" /\ batch = 0 /\ row[i] # None
  /\ op' = [verb |-> "delete", item |-> i, sync |-> TRUE,
            row |-> [row[i] EXCEPT !.status = "archived"]]
  /\ pc' = "vector"
  /\ UNCHANGED <<row, vec, bm, batch, used, up, parted, gone>>

----------------------------------------------------------------------------
(* _sync_add, _sync_update and _sync_remove, step by step *)

(* emb.embed, an external service: nothing is written yet. *)
Embed ==
  /\ pc = "embed"
  /\ \/ Continue("vector")
     \/ Raise
  /\ UNCHANGED <<vec, bm, used, up, parted, gone>>

(* Mutant: update adds an id the collection does not have. *)
VectorAfterUpsert(o) ==
  CASE o.verb = "delete" -> None
    [] OTHER             -> o.row.content

(* Mutant: an update removes the vector, for the add that follows. *)
VectorAfterRemoval(o) ==
  CASE o.verb = "create" -> o.row.content
    [] OTHER             -> None

(* What the collection then holds for the item: `update` of an id it does  *)
(* not have does nothing.                                                  *)
VectorAfter(o) ==
  CASE o.verb = "create" -> o.row.content
    [] o.verb = "update" -> IF vec[o.item] = None THEN None ELSE o.row.content
    [] o.verb = "delete" -> None

(* add and update may raise; delete catches what it raises and goes on,    *)
(* with the vector still there.                                            *)
WriteVector ==
  /\ pc = "vector"
  /\ \/ /\ vec' = [vec EXCEPT ![op.item] = VectorAfter(op)]
        /\ Continue(IF op.verb = "create" THEN "bm25 add" ELSE "bm25 remove")
        /\ UNCHANGED parted
     \/ /\ op.verb = "delete"
        /\ vec[op.item] # None
        /\ Continue("bm25 remove")
        /\ parted' = parted \union {op.item}
        /\ UNCHANGED vec
     \/ /\ op.verb # "delete"
        /\ Raise
        /\ UNCHANGED <<vec, parted>>
  /\ UNCHANGED <<bm, used, up, gone>>

RemoveBm25 ==
  /\ pc = "bm25 remove"
  /\ bm' = Remove(bm, op.item)
  /\ IF RemoveRaises(bm, op.item)
     THEN Raise /\ parted' = parted \union {op.item}
     ELSE /\ Continue(IF op.verb = "update" THEN "bm25 add" ELSE "commit")
          /\ UNCHANGED parted
  /\ UNCHANGED <<vec, used, up, gone>>

(* Mutant: an exception of the keyword index is caught. *)
AddBm25Quietly ==
  /\ pc = "bm25 add"
  /\ bm' = Add(bm, op.item, op.row.content)
  /\ Continue("commit")
  /\ UNCHANGED <<vec, used, up, parted, gone>>

AddBm25 ==
  /\ pc = "bm25 add"
  /\ bm' = Add(bm, op.item, op.row.content)
  /\ IF AddRaises(bm, op.item, op.row.content)
     THEN Raise /\ parted' = parted \union {op.item}
     ELSE Continue("commit") /\ UNCHANGED parted
  /\ UNCHANGED <<vec, used, up, gone>>

(* The row and its stores part without an error when only the status       *)
(* changes, and when an item that is not active gets a new content.        *)
Parts(o) ==
  \/ o.verb = "update" /\ ~o.sync /\ o.row.status # row[o.item].status
  \/ o.verb = "update" /\ o.sync /\ o.row.status # "active"
  \/ o.verb = "update" /\ o.sync /\ row[o.item].status # "active"

(* db.commit, after the stores. *)
Commit ==
  /\ pc = "commit"
  /\ row' = [row EXCEPT ![op.item] = op.row]
  /\ parted' = IF Parts(op) THEN parted \union {op.item} ELSE parted
  /\ gone' = IF op.verb = "delete" /\ op.item \notin parted
             THEN gone \union {op.item} ELSE gone
  /\ pc' = "idle" /\ op' = NoOp
  /\ UNCHANGED <<vec, bm, batch, used, up>>

(* The commit raises (the disk is full, readers hold the database). *)
CommitFails ==
  /\ pc = "commit"
  /\ Raise
  /\ parted' = IF op.sync THEN parted \union {op.item} ELSE parted
  /\ UNCHANGED <<vec, bm, used, up, gone>>

----------------------------------------------------------------------------
(* The corpora main.py builds at startup: each active row once, in the     *)
(* order the query returns them.                                           *)
StartupCorpora ==
  LET active == {i \in Items : IsActive(i)} IN
  {c \in [1..Cardinality(active) -> [id: active, text: Contents]] :
     /\ \A i \in active : Holds(c, i)
     /\ \A n \in DOMAIN c : c[n].text = row[c[n].id].content
     /\ HasDistinctIds(c)}

(* The process dies and starts again.  The vectors persist, the keyword    *)
(* index is built anew; a build that raises ends the start.                *)
Restart ==
  /\ \E corpus \in StartupCorpora :
       /\ bm' = Rebuild(Empty, corpus)
       /\ up' = ~Raises(corpus)
  /\ Raise
  /\ parted' = IF pc \in {"vector", "bm25 remove", "bm25 add", "commit"} /\ op.sync
               THEN parted \union {op.item} ELSE parted
  /\ UNCHANGED <<vec, used, gone>>

Step == Embed \/ WriteVector \/ RemoveBm25 \/ AddBm25 \/ Commit \/ CommitFails

Next ==
  \/ \E i \in Items, c \in Contents : Create(i, c) \/ BatchCreate(i, c)
  \/ \E n \in 1..MaxBatch : BatchImport(n)
  \/ \E i \in Items, new \in Row, sync \in BOOLEAN : Update(i, new, sync)
  \/ \E i \in Items : Delete(i)
  \/ Step
  \/ Restart

Spec == Init /\ [][Next]_vars

----------------------------------------------------------------------------
(* The variables hold what the schema and the control flow allow. *)
TypeOK ==
  /\ row \in [Items -> Row \union {None}]
  /\ vec \in [Items -> Contents \union {None}]
  /\ bm \in [corpus: Seq([id: Items, text: Contents]), ids: Seq(Items),
            index: Seq(Contents)]
  /\ pc \in {"idle", "embed", "vector", "bm25 remove", "bm25 add", "commit"}
  /\ op \in Ops \union {NoOp}
  /\ (pc = "idle") = (op = NoOp)
  /\ batch \in 0..MaxBatch
  /\ parted \subseteq used /\ gone \subseteq used /\ used \subseteq Items
  /\ up \in BOOLEAN

Untouched(i) == i \notin parted /\ (op = NoOp \/ op.item # i)

(* As long as an item was not seeded, no operation on it was cut short and *)
(* its status was not changed behind the back of the stores, the three     *)
(* stores agree on it: an active item is in both indexes with the content  *)
(* of its row, another one in neither.  Restarts keep this.  And once a    *)
(* deletion has emptied the stores, nothing that is done later, not even   *)
(* an update of the archived row, brings the vector of the item back.      *)
StoresAgree ==
  /\ \A i \in Items : Untouched(i) /\ up =>
       /\ vec[i] = IF IsActive(i) THEN row[i].content ELSE None
       /\ Holds(bm.corpus, i) = IsActive(i)
       /\ IsActive(i) => TextOf(bm.corpus, i) = row[i].content
  /\ \A i \in gone : vec[i] = None

(* An update of an active item is in place: at no step between its first   *)
(* write and its commit is the item missing from the vectors, so a search  *)
(* on another thread finds it with its old or with its new content.        *)
UpdateKeepsFindable ==
  \A i \in Items :
    IsActive(i) /\ i \notin parted /\ (op = NoOp \/ op.item # i \/ op.verb # "delete")
      => /\ vec[i] # None
         /\ vec[i] = row[i].content \/ (op # NoOp /\ vec[i] = op.row.content)

(* A keyword hit names a document that has the word, unless the corpus has *)
(* no token at all and the index is still the one of an earlier corpus.    *)
HitsAreTrue ==
  HasToken(bm.corpus) =>
    \A word \in UNION Contents :
      /\ Scored(bm, word) \subseteq DOMAIN bm.ids
      /\ \A i \in Found(bm, word) : word \in TextOf(bm.corpus, i)

(* The program can be started again: building the keyword index of the     *)
(* active items will not raise.                                            *)
Startable ==
  (\E i \in Items : IsActive(i)) => \E i \in Items : IsActive(i) /\ row[i].content # {}

(* Operations that succeed in every store never lead to rows the program   *)
(* cannot be started with: such rows come from a status changed without    *)
(* the stores or from an operation that was cut short.                     *)
CleanIsStartable == parted = {} /\ op = NoOp => Startable

(* "If the sync fails the SQL transaction is rolled back, ensuring the two *)
(* stores stay consistent" (knowledge_service.py:6-7): when the keyword     *)
(* index raises, the vectors are left as the row that stays has it.         *)
SyncFailureIsUndone ==
  [][(RemoveBm25 \/ AddBm25) /\ pc' = "idle" =>
       vec'[op.item] = IF IsActive(op.item) THEN row[op.item].content ELSE None]_vars

----------------------------------------------------------------------------
(* The inductive invariant behind the safety properties. *)

VectorAgrees(i) == vec[i] = IF IsActive(i) THEN row[i].content ELSE None

IndexAgrees(i) ==
  /\ Holds(bm.corpus, i) = IsActive(i)
  /\ IsActive(i) => TextOf(bm.corpus, i) = row[i].content

(* The maps of the keyword index go together, apart from the index over a  *)
(* corpus without a token; and such a corpus is reached only after an      *)
(* operation was cut short.                                                *)
MapsAgree ==
  /\ HasDistinctIds(bm.corpus)
  /\ bm.ids = Ids(bm.corpus)
  /\ HasToken(bm.corpus) => bm.index = Texts(bm.corpus)
  /\ parted = {} => ~Raises(bm.corpus)

(* What an operation is about: a fresh id or a row that is there, and only *)
(* an update of the status leaves the stores out.                          *)
OperationFits ==
  op # NoOp =>
    /\ op.item \in used
    /\ (op.verb = "create") = (row[op.item] = None)
    /\ op.verb = "create" => op.row.status = "active" /\ op.sync
    /\ op.verb = "delete" => op.row.status = "archived" /\ op.sync
    /\ ~op.sync => pc = "commit" /\ op.row.content = row[op.item].content
    /\ pc \in {"embed", "bm25 add"} => op.verb # "delete"
    /\ pc = "bm25 remove" => op.verb # "create"

(* How far the stores have heard of the operation, unless they were apart  *)
(* before.                                                                 *)
StoresFollow ==
  op # NoOp /\ op.item \notin parted =>
    LET i == op.item IN
    /\ pc \in {"embed", "vector"} \/ ~op.sync => VectorAgrees(i)
    /\ pc \in {"embed", "vector", "bm25 remove"} \/ ~op.sync => IndexAgrees(i)
    /\ pc \in {"bm25 remove", "bm25 add", "commit"} /\ op.sync =>
         vec[i] = IF op.verb = "create" \/ (op.verb = "update" /\ IsActive(i))
                  THEN op.row.content ELSE None
    /\ pc = "bm25 add" => ~Holds(bm.corpus, i)
    /\ pc = "commit" /\ op.sync =>
         IF op.verb = "delete" THEN ~Holds(bm.corpus, i)
         ELSE Holds(bm.corpus, i) /\ TextOf(bm.corpus, i) = op.row.content

UntouchedAgree == \A i \in Items : Untouched(i) => VectorAgrees(i) /\ IndexAgrees(i)

NewIdsAreFree == \A i \in Items \ used : row[i] = None

GoneHaveNoVector == \A i \in gone : vec[i] = None /\ row[i] # None

IInv == /\ MapsAgree
        /\ OperationFits
        /\ StoresFollow
        /\ UntouchedAgree
        /\ NewIdsAreFree
        /\ GoneHaveNoVector
=============================================================================
