------------------------ MODULE KnowledgeSync_proofs ------------------------
(***************************************************************************)
(* Theorems about KnowledgeSync and Bm25Index, for any number of items and *)
(* contents, any batches, and whatever steps fail or are cut short.        *)
(***************************************************************************)
EXTENDS KnowledgeSync, FiniteSetTheorems, SequenceTheorems, TLAPS

USE SyncAssumption

Entry == [id: Items, text: Contents]

----------------------------------------------------------------------------
(* Bm25Index: what the operators on a corpus do to the texts of the ids. *)

LEMMA PositionOfHeld ==
  ASSUME NEW c \in Seq(Entry), NEW i, Holds(c, i)
  PROVE  Position(c, i) \in DOMAIN c /\ c[Position(c, i)].id = i
BY DEF Holds, Position

(* With one document of the id, its text is the text of the id. *)
LEMMA TextAt ==
  ASSUME NEW c \in Seq(Entry), HasDistinctIds(c), NEW n \in DOMAIN c
  PROVE  TextOf(c, c[n].id) = c[n].text
<1>1. {m \in DOMAIN c : c[m].id = c[n].id} = {n}
  BY DEF HasDistinctIds
<1>2. {c[m].text : m \in {n}} = {c[n].text}
  OBVIOUS
<1>3. UNION {c[n].text} = c[n].text
  OBVIOUS
<1>4. QED
  BY <1>1, <1>2, <1>3 DEF TextOf

(* Corpora that have the same document for an id have the same text. *)
LEMMA SameDocument ==
  ASSUME NEW c \in Seq(Entry), HasDistinctIds(c), NEW e \in Seq(Entry), HasDistinctIds(e),
         NEW i,
         \A n \in DOMAIN c : c[n].id = i => \E m \in DOMAIN e : e[m] = c[n],
         \A m \in DOMAIN e : e[m].id = i => \E n \in DOMAIN c : c[n] = e[m]
  PROVE  /\ Holds(e, i) = Holds(c, i)
         /\ Holds(c, i) => TextOf(e, i) = TextOf(c, i)
<1>1. Holds(e, i) = Holds(c, i)
  BY DEF Holds
<1>2. ASSUME Holds(c, i) PROVE TextOf(e, i) = TextOf(c, i)
  <2>1. PICK n \in DOMAIN c : c[n].id = i
    BY <1>2 DEF Holds
  <2>2. PICK m \in DOMAIN e : e[m] = c[n]
    BY <2>1
  <2>3. TextOf(c, i) = c[n].text
    BY <2>1, TextAt
  <2>4. TextOf(e, i) = e[m].text
    BY <2>1, <2>2, TextAt
  <2>5. QED
    BY <2>2, <2>3, <2>4
<1>3. QED
  BY <1>1, <1>2

SameElsewhere(c, e, i) ==
  \A j \in Items \ {i} :
    /\ Holds(e, j) = Holds(c, j)
    /\ Holds(c, j) => TextOf(e, j) = TextOf(c, j)

(* An addition replaces the text of its id or appends it. *)
LEMMA Additions ==
  ASSUME NEW c \in Seq(Entry), HasDistinctIds(c), NEW i \in Items, NEW text \in Contents
  PROVE  LET e == With(c, i, text) IN
         /\ e \in Seq(Entry) /\ HasDistinctIds(e)
         /\ Holds(e, i) /\ TextOf(e, i) = text
         /\ SameElsewhere(c, e, i)
<1> DEFINE e == With(c, i, text)
           new == [id |-> i, text |-> text]
<1>1. new \in Entry /\ new.id = i /\ new.text = text
  BY DEF Entry
<1>2. ASSUME e \in Seq(Entry), HasDistinctIds(e), NEW m \in DOMAIN e, e[m] = new,
             \A n \in DOMAIN c : c[n].id # i => \E k \in DOMAIN e : e[k] = c[n],
             \A k \in DOMAIN e : e[k].id # i => \E n \in DOMAIN c : c[n] = e[k]
      PROVE  /\ Holds(e, i) /\ TextOf(e, i) = text
             /\ SameElsewhere(c, e, i)
  <2> HIDE DEF e, new
  <2>1. Holds(e, i)
    BY <1>1, <1>2 DEF Holds
  <2>2. TextOf(e, i) = text
    BY <1>1, <1>2, TextAt
  <2>3. ASSUME NEW j \in Items \ {i}
        PROVE  /\ Holds(e, j) = Holds(c, j)
               /\ Holds(c, j) => TextOf(e, j) = TextOf(c, j)
    BY <1>2, SameDocument
  <2>4. QED
    BY <2>1, <2>2, <2>3 DEF SameElsewhere
<1>3. CASE Holds(c, i)
  <2> DEFINE p == Position(c, i)
  <2>1. p \in DOMAIN c /\ c[p].id = i
    BY <1>3, PositionOfHeld
  <2> HIDE DEF p
  <2>2. e = [c EXCEPT ![p].text = text]
    BY <1>3 DEF With, p
  <2>3. [c[p] EXCEPT !.text = text] = new
    <3>1. c[p] \in Entry
      BY <2>1
    <3>2. QED
      BY <2>1, <3>1 DEF Entry
  <2>4. e = [c EXCEPT ![p] = new]
    BY <2>2, <2>3
  <2> HIDE DEF e, new
  <2>5. e \in Seq(Entry) /\ DOMAIN e = DOMAIN c
    BY <1>1, <2>1, <2>4
  <2>6. e[p] = new /\ \A n \in DOMAIN c : n # p => e[n] = c[n]
    BY <2>1, <2>4
  <2>7. \A n \in DOMAIN c : e[n].id = c[n].id /\ (c[n].id # i => e[n] = c[n])
    BY <1>1, <2>1, <2>6
  <2>8. HasDistinctIds(e)
    BY <2>5, <2>7 DEF HasDistinctIds
  <2>9. /\ e \in Seq(Entry) /\ HasDistinctIds(e)
        /\ Holds(e, i) /\ TextOf(e, i) = text /\ SameElsewhere(c, e, i)
    BY <1>2, <2>1, <2>5, <2>6, <2>7, <2>8
  <2>10. QED
    BY <2>9 DEF e
<1>4. CASE ~Holds(c, i)
  <2>1. e = Append(c, new)
    BY <1>4 DEF With
  <2> HIDE DEF e, new
  <2>2. /\ e \in Seq(Entry) /\ DOMAIN e = 1..(Len(c) + 1) /\ DOMAIN c = 1..Len(c)
        /\ Len(c) \in Nat
        /\ e[Len(c) + 1] = new
        /\ \A n \in DOMAIN c : e[n] = c[n]
    BY <1>1, <2>1
  <2>3. \A n \in DOMAIN c : c[n].id # i
    BY <1>4 DEF Holds
  <2>4. \A n \in DOMAIN e : n = Len(c) + 1 \/ n \in DOMAIN c
    BY <2>2
  <2>5. HasDistinctIds(e)
    BY <1>1, <2>2, <2>3, <2>4 DEF HasDistinctIds
  <2>6. \A n \in DOMAIN c : n \in DOMAIN e
    BY <2>2
  <2>7. Len(c) + 1 \in DOMAIN e
    BY <2>2
  <2>8. \A k \in DOMAIN e : e[k].id # i => k \in DOMAIN c
    BY <1>1, <2>2, <2>4
  <2>9. /\ e \in Seq(Entry) /\ HasDistinctIds(e)
        /\ Holds(e, i) /\ TextOf(e, i) = text /\ SameElsewhere(c, e, i)
    BY <1>2, <2>2, <2>5, <2>6, <2>7, <2>8
  <2>10. QED
    BY <2>9 DEF e
<1>5. QED
  BY <1>3, <1>4, <1>2

(* A removal takes one document out and closes the gap. *)
LEMMA Removals ==
  ASSUME NEW c \in Seq(Entry), HasDistinctIds(c), NEW i \in Items, Holds(c, i)
  PROVE  LET e == Without(c, i) IN
         /\ e \in Seq(Entry) /\ HasDistinctIds(e)
         /\ ~Holds(e, i)
         /\ SameElsewhere(c, e, i)
<1> DEFINE e == Without(c, i)
           p == Position(c, i)
           At(n) == IF n < p THEN n ELSE n + 1
<1>1. p \in DOMAIN c /\ c[p].id = i
  BY PositionOfHeld
<1>2. DOMAIN c = 1..Len(c) /\ Len(c) \in Nat
  OBVIOUS
<1>3. e = [n \in 1..(Len(c) - 1) |-> c[At(n)]]
  BY DEF Without
<1> HIDE DEF p, e
<1>4. p \in 1..Len(c)
  BY <1>1, <1>2
<1>5. \A n \in 1..(Len(c) - 1) : At(n) \in DOMAIN c /\ At(n) # p
  BY <1>2, <1>4
<1>6. \A m, n \in 1..(Len(c) - 1) : At(m) = At(n) => m = n
  BY <1>2, <1>4
<1>7. \A k \in DOMAIN c : k # p => \E n \in 1..(Len(c) - 1) : At(n) = k
  <2> SUFFICES ASSUME NEW k \in 1..Len(c), k # p
               PROVE  \E n \in 1..(Len(c) - 1) : At(n) = k
    BY <1>2
  <2>1. CASE k < p
    <3>1. k \in 1..(Len(c) - 1) /\ At(k) = k
      BY <1>2, <1>4, <2>1
    <3>2. QED
      BY <3>1
  <2>2. CASE k > p
    <3>1. k - 1 \in 1..(Len(c) - 1) /\ At(k - 1) = k
      BY <1>2, <1>4, <2>2
    <3>2. QED
      BY <3>1
  <2>3. QED
    BY <1>4, <2>1, <2>2
<1> HIDE DEF At
<1>8. DOMAIN e = 1..(Len(c) - 1) /\ \A n \in DOMAIN e : e[n] = c[At(n)]
  BY <1>3
<1>9. e \in Seq(Entry)
  <2>1. Len(c) - 1 \in Nat
    BY <1>2, <1>4
  <2>2. e \in [1..(Len(c) - 1) -> Entry]
    <3>1. \A n \in 1..(Len(c) - 1) : c[At(n)] \in Entry
      BY <1>5
    <3>2. QED
      BY <1>3, <3>1
  <2>3. QED
    BY <2>1, <2>2
<1>10. HasDistinctIds(e)
  BY <1>5, <1>6, <1>8 DEF HasDistinctIds
<1>11. \A n \in DOMAIN e : e[n].id # i
  BY <1>1, <1>5, <1>8 DEF HasDistinctIds
<1>12. ASSUME NEW j \in Items \ {i}
       PROVE  /\ Holds(e, j) = Holds(c, j)
              /\ Holds(c, j) => TextOf(e, j) = TextOf(c, j)
  <2>1. \A n \in DOMAIN c : c[n].id = j => \E m \in DOMAIN e : e[m] = c[n]
    BY <1>1, <1>7, <1>8
  <2>2. \A m \in DOMAIN e : \E n \in DOMAIN c : c[n] = e[m]
    BY <1>5, <1>8
  <2>3. QED
    BY <1>9, <1>10, <2>1, <2>2, SameDocument
<1>13. QED
  BY <1>9, <1>10, <1>11, <1>12 DEF Holds, SameElsewhere, e

(* The three maps of a tenant. *)
Maps == [corpus: Seq(Entry), ids: Seq(Items), index: Seq(Contents)]

(* A rebuild replaces the corpus and the ids, and the index unless it      *)
(* raises.                                                                 *)
LEMMA Rebuilds ==
  ASSUME NEW maps \in Maps, NEW c \in Seq(Entry)
  PROVE  LET new == Rebuild(maps, c) IN
         /\ new \in Maps
         /\ new.corpus = c
         /\ new.ids = Ids(c)
         /\ HasToken(c) => new.index = Texts(c)
<1>1. DOMAIN c = 1..Len(c) /\ Len(c) \in Nat /\ \A n \in 1..Len(c) : c[n] \in Entry
  OBVIOUS
<1>2. Ids(c) \in Seq(Items) /\ Texts(c) \in Seq(Contents)
  <2>1. Ids(c) \in [1..Len(c) -> Items]
    BY <1>1 DEF Ids, Entry
  <2>2. Texts(c) \in [1..Len(c) -> Contents]
    BY <1>1 DEF Texts, Entry
  <2>3. QED
    BY <1>1, <2>1, <2>2
<1>3. CASE c = << >>
  <2>1. Ids(c) = << >>
    BY <1>3 DEF Ids
  <2>2. ~HasToken(c)
    BY <1>3 DEF HasToken
  <2>3. QED
    BY <1>3, <2>1, <2>2 DEF Rebuild, Empty, Maps
<1>4. CASE c # << >>
  BY <1>2, <1>4 DEF Rebuild, Maps
<1>5. QED
  BY <1>3, <1>4

----------------------------------------------------------------------------
Good == TypeOK /\ IInv

LEMMA MapsShape == TypeOK => bm \in Maps /\ bm.corpus \in Seq(Entry)
BY DEF TypeOK, Maps, Entry

(* The rows have a content that is not None. *)
LEMMA RowShape ==
  ASSUME TypeOK, NEW i \in Items, row[i] # None
  PROVE  row[i] \in Row /\ row[i].status \in Status /\ row[i].content \in Contents
         /\ row[i].content # None
BY DEF TypeOK, Row

LEMMA OpShape ==
  ASSUME TypeOK, op # NoOp
  PROVE  /\ op \in Ops /\ pc # "idle"
         /\ op.verb \in {"create", "update", "delete"}
         /\ op.item \in Items /\ op.row \in Row /\ op.sync \in BOOLEAN
         /\ op.row.status \in Status
         /\ op.row.content \in Contents /\ op.row.content # None
BY DEF TypeOK, Ops, Row

(* What a removal leaves in the maps, whether it raises or not. *)
LEMMA Removes ==
  ASSUME TypeOK, MapsAgree, NEW i \in Items
  PROVE  LET new == Remove(bm, i) IN
         /\ new \in Maps /\ HasDistinctIds(new.corpus)
         /\ new.ids = Ids(new.corpus)
         /\ HasToken(new.corpus) => new.index = Texts(new.corpus)
         /\ ~Holds(new.corpus, i) /\ SameElsewhere(bm.corpus, new.corpus, i)
         /\ ~RemoveRaises(bm, i) /\ ~Raises(bm.corpus) => ~Raises(new.corpus)
<1> DEFINE new == Remove(bm, i)
           c == Without(bm.corpus, i)
<1>1. bm \in Maps /\ bm.corpus \in Seq(Entry) /\ HasDistinctIds(bm.corpus)
  BY MapsShape DEF MapsAgree
<1>2. CASE Holds(bm.corpus, i)
  <2>1. /\ c \in Seq(Entry) /\ HasDistinctIds(c) /\ ~Holds(c, i)
        /\ SameElsewhere(bm.corpus, c, i)
    BY <1>1, <1>2, Removals
  <2>2. new = Rebuild(bm, c)
    BY <1>2 DEF Remove
  <2> HIDE DEF c, new
  <2>3. /\ new \in Maps /\ new.corpus = c /\ new.ids = Ids(c)
        /\ HasToken(c) => new.index = Texts(c)
    BY <1>1, <2>1, <2>2, Rebuilds
  <2>4. ~RemoveRaises(bm, i) => ~Raises(c)
    BY <1>2 DEF RemoveRaises, c
  <2>5. QED
    BY <2>1, <2>3, <2>4 DEF new
<1>3. CASE ~Holds(bm.corpus, i)
  BY <1>1, <1>3 DEF Remove, SameElsewhere, MapsAgree
<1>4. QED
  BY <1>2, <1>3

LEMMA Adds ==
  ASSUME TypeOK, MapsAgree, NEW i \in Items, NEW text \in Contents
  PROVE  LET new == Add(bm, i, text) IN
         /\ new \in Maps /\ HasDistinctIds(new.corpus)
         /\ new.ids = Ids(new.corpus)
         /\ HasToken(new.corpus) => new.index = Texts(new.corpus)
         /\ Holds(new.corpus, i) /\ TextOf(new.corpus, i) = text
         /\ SameElsewhere(bm.corpus, new.corpus, i)
         /\ ~AddRaises(bm, i, text) => ~Raises(new.corpus)
<1> DEFINE new == Add(bm, i, text)
           c == With(bm.corpus, i, text)
<1>1. bm \in Maps /\ bm.corpus \in Seq(Entry) /\ HasDistinctIds(bm.corpus)
  BY MapsShape DEF MapsAgree
<1>2. /\ c \in Seq(Entry) /\ HasDistinctIds(c)
      /\ Holds(c, i) /\ TextOf(c, i) = text /\ SameElsewhere(bm.corpus, c, i)
  BY <1>1, Additions
<1>3. new = Rebuild(bm, c) /\ AddRaises(bm, i, text) = Raises(c)
  BY DEF Add, AddRaises
<1> HIDE DEF c, new
<1>4. /\ new \in Maps /\ new.corpus = c /\ new.ids = Ids(c)
      /\ HasToken(c) => new.index = Texts(c)
  BY <1>1, <1>2, <1>3, Rebuilds
<1>5. QED
  BY <1>2, <1>3, <1>4 DEF new

(* An item whose row and whose document stay keeps its agreement. *)
LEMMA IndexKept ==
  ASSUME NEW i \in Items, NEW j \in Items, j # i, row'[j] = row[j], IndexAgrees(j),
         SameElsewhere(bm.corpus, bm'.corpus, i)
  PROVE  IndexAgrees(j)'
<1>1. IsActive(j)' = IsActive(j) /\ (IsActive(j) => row'[j].content = row[j].content)
  BY DEF IsActive
<1>2. /\ Holds(bm'.corpus, j) = Holds(bm.corpus, j)
      /\ Holds(bm.corpus, j) => TextOf(bm'.corpus, j) = TextOf(bm.corpus, j)
  BY DEF SameElsewhere
<1>3. Holds(bm.corpus, j) = IsActive(j)
      /\ (IsActive(j) => TextOf(bm.corpus, j) = row[j].content)
  BY DEF IndexAgrees
<1>4. QED
  BY <1>1, <1>2, <1>3 DEF IndexAgrees

----------------------------------------------------------------------------
LEMMA NoBatch == 0 \in 0..MaxBatch
BY SyncAssumption

(* The invariant says nothing of batch and up. *)
LEMMA InvariantOfStores ==
  ASSUME IInv, UNCHANGED <<row, vec, bm, pc, op, used, parted, gone>>
  PROVE  IInv'
<1>1. MapsAgree' /\ OperationFits'
  BY DEF IInv, MapsAgree, OperationFits
<1>2. \A i \in Items : /\ VectorAgrees(i)' = VectorAgrees(i)
                       /\ IndexAgrees(i)' = IndexAgrees(i)
                       /\ Untouched(i)' = Untouched(i)
                       /\ IsActive(i)' = IsActive(i)
  BY DEF VectorAgrees, IndexAgrees, IsActive, Untouched
<1>3. StoresFollow'
  BY DEF IInv, StoresFollow, VectorAgrees, IndexAgrees, IsActive
<1>4. UntouchedAgree' /\ NewIdsAreFree' /\ GoneHaveNoVector'
  BY <1>2 DEF IInv, UntouchedAgree, NewIdsAreFree, GoneHaveNoVector
<1>5. QED
  BY <1>1, <1>3, <1>4 DEF IInv

(* An operation begins: nothing is written yet. *)
LEMMA Begins ==
  ASSUME Good, op = NoOp, NEW o \in Ops, op' = o,
         pc' = IF ~o.sync THEN "commit" ELSE IF o.verb = "delete" THEN "vector" ELSE "embed",
         batch' \in 0..MaxBatch,
         used \subseteq used', used' \subseteq Items, o.item \in used',
         (o.verb = "create") = (row[o.item] = None),
         o.verb = "create" => o.row.status = "active" /\ o.sync,
         o.verb = "delete" => o.row.status = "archived" /\ o.sync,
         ~o.sync => o.row.content = row[o.item].content,
         UNCHANGED <<row, vec, bm, up, parted, gone>>
  PROVE  Good'
<1> USE DEF Good
<1>1. /\ o \in Ops /\ o.verb \in {"create", "update", "delete"} /\ o.sync \in BOOLEAN
      /\ o # NoOp /\ o.item \in Items
  BY DEF Ops, NoOp
<1>2. TypeOK'
  <2>1. pc' \in {"embed", "vector", "commit"}
    OBVIOUS
  <2>2. QED
    BY <1>1, <2>1 DEF TypeOK
<1>3. MapsAgree'
  BY DEF IInv, MapsAgree
<1>4. OperationFits'
  BY <1>1 DEF OperationFits
<1>5. \A i \in Items : i \notin parted => VectorAgrees(i) /\ IndexAgrees(i)
  BY DEF IInv, UntouchedAgree, Untouched
<1>6. \A i \in Items : i \notin parted => VectorAgrees(i)' /\ IndexAgrees(i)'
  BY <1>5 DEF VectorAgrees, IndexAgrees, IsActive
<1>7. StoresFollow'
  BY <1>1, <1>6 DEF StoresFollow
<1>8. UntouchedAgree' /\ NewIdsAreFree' /\ GoneHaveNoVector'
  BY <1>6 DEF IInv, UntouchedAgree, Untouched, NewIdsAreFree, GoneHaveNoVector
<1>9. QED
  BY <1>2, <1>3, <1>4, <1>7, <1>8 DEF IInv

LEMMA NewItemStep ==
  ASSUME Good, NEW i \in Items, NEW content \in Contents,
         Create(i, content) \/ BatchCreate(i, content)
  PROVE  Good'
<1> DEFINE o == [verb |-> "create", item |-> i, sync |-> TRUE,
                 row |-> [status |-> "active", content |-> content]]
<1>1. /\ o \in Ops /\ o.verb = "create" /\ o.item = i /\ o.sync = TRUE
      /\ o.row.status = "active"
  BY DEF Ops, Row, Status
<1>2. /\ pc = "idle" /\ i \notin used /\ BeginCreate(i, content)
      /\ batch' = batch \/ (batch > 0 /\ batch' = batch - 1)
  BY DEF Create, BatchCreate
<1>3. op' = o /\ pc' = "embed" /\ used' = used \union {i}
      /\ UNCHANGED <<row, vec, bm, up, parted, gone>>
  BY <1>2 DEF BeginCreate
<1>4. batch' \in 0..MaxBatch /\ op = NoOp /\ used' \subseteq Items
  BY <1>2, <1>3 DEF Good, TypeOK
<1>5. row[i] = None
  BY <1>2 DEF Good, IInv, NewIdsAreFree
<1> HIDE DEF o
<1>6. QED
  BY <1>1, <1>3, <1>4, <1>5, Begins

LEMMA BatchImportStep ==
  ASSUME Good, NEW n \in 1..MaxBatch, BatchImport(n)
  PROVE  Good'
<1>1. batch' = n /\ UNCHANGED <<row, vec, bm, pc, op, used, up, parted, gone>>
  BY DEF BatchImport
<1>2. TypeOK'
  <2>1. batch' \in 0..MaxBatch
    BY <1>1
  <2>2. QED
    BY <1>1, <2>1 DEF Good, TypeOK
<1>3. IInv'
  BY <1>1, InvariantOfStores DEF Good
<1>4. QED
  BY <1>2, <1>3 DEF Good

LEMMA UpdateStep ==
  ASSUME Good, NEW i \in Items, NEW new \in Row, NEW sync \in BOOLEAN, Update(i, new, sync)
  PROVE  Good'
<1> DEFINE o == [verb |-> "update", item |-> i, row |-> new, sync |-> sync]
<1>1. /\ o \in Ops /\ o.verb = "update" /\ o.item = i /\ o.sync = sync /\ o.row = new
  BY DEF Ops
<1>2. /\ pc = "idle" /\ row[i] # None /\ op' = o
      /\ pc' = IF sync THEN "embed" ELSE "commit"
      /\ ~sync => new.content = row[i].content
      /\ UNCHANGED <<row, vec, bm, batch, used, up, parted, gone>>
  BY DEF Update
<1>3. op = NoOp /\ batch' \in 0..MaxBatch /\ used' \subseteq Items
  BY <1>2 DEF Good, TypeOK
<1>4. i \in used'
  BY <1>2 DEF Good, IInv, NewIdsAreFree
<1> HIDE DEF o
<1>5. QED
  BY <1>1, <1>2, <1>3, <1>4, Begins

LEMMA DeleteStep ==
  ASSUME Good, NEW i \in Items, Delete(i)
  PROVE  Good'
<1> DEFINE o == [verb |-> "delete", item |-> i, sync |-> TRUE,
                 row |-> [row[i] EXCEPT !.status = "archived"]]
<1>1. /\ pc = "idle" /\ row[i] # None /\ op' = o /\ pc' = "vector"
      /\ UNCHANGED <<row, vec, bm, batch, used, up, parted, gone>>
  BY DEF Delete
<1>2. row[i] \in Row
  BY <1>1, RowShape DEF Good
<1>3. [row[i] EXCEPT !.status = "archived"] \in Row
      /\ [row[i] EXCEPT !.status = "archived"].status = "archived"
  BY <1>2 DEF Row, Status
<1>4. /\ o \in Ops /\ o.verb = "delete" /\ o.item = i /\ o.sync = TRUE
      /\ o.row.status = "archived"
  BY <1>3 DEF Ops
<1>5. op = NoOp /\ batch' \in 0..MaxBatch /\ used' \subseteq Items
  BY <1>1 DEF Good, TypeOK
<1>6. i \in used'
  BY <1>1 DEF Good, IInv, NewIdsAreFree
<1> HIDE DEF o
<1>7. QED
  BY <1>1, <1>4, <1>5, <1>6, Begins

----------------------------------------------------------------------------
(* An operation ends with its item as it was, or with the stores apart. *)
LEMMA EndsUnwritten ==
  ASSUME Good, op # NoOp, Raise, UNCHANGED <<vec, bm, used, up, gone>>,
         \/ parted' = parted \union {op.item}
         \/ parted' = parted /\ (op.item \notin parted =>
                                   VectorAgrees(op.item) /\ IndexAgrees(op.item))
  PROVE  Good'
<1> USE DEF Good
<1>1. op' = NoOp /\ pc' = "idle" /\ batch' = 0 /\ row' = row
  BY DEF Raise
<1>2. op.item \in Items /\ op.item \in used
  BY OpShape DEF IInv, OperationFits
<1>3. TypeOK'
  <2>1. batch' \in 0..MaxBatch
    BY <1>1, NoBatch
  <2>2. parted' \subseteq used
    BY <1>2 DEF TypeOK
  <2>3. QED
    BY <1>1, <2>1, <2>2 DEF TypeOK
<1>4. MapsAgree'
  BY <1>2 DEF IInv, MapsAgree
<1>5. OperationFits' /\ StoresFollow'
  BY <1>1 DEF OperationFits, StoresFollow
<1>6. \A i \in Items : i \notin parted' => VectorAgrees(i) /\ IndexAgrees(i)
  BY DEF IInv, UntouchedAgree, Untouched
<1>7. UntouchedAgree'
  BY <1>1, <1>6 DEF UntouchedAgree, Untouched, VectorAgrees, IndexAgrees, IsActive
<1>8. NewIdsAreFree' /\ GoneHaveNoVector'
  BY <1>1 DEF IInv, NewIdsAreFree, GoneHaveNoVector
<1>9. QED
  BY <1>3, <1>4, <1>5, <1>7, <1>8 DEF IInv

(* Items the operation is not about keep their agreement while one of the  *)
(* stores is written.                                                      *)
LEMMA OthersAgree ==
  ASSUME Good, op # NoOp, op' \in {op, NoOp}, parted \subseteq parted',
         op' = NoOp => op.item \in parted',
         UNCHANGED row,
         \A j \in Items \ {op.item} : vec'[j] = vec[j],
         SameElsewhere(bm.corpus, bm'.corpus, op.item)
  PROVE  UntouchedAgree'
<1> SUFFICES ASSUME NEW j \in Items, Untouched(j)'
             PROVE  VectorAgrees(j)' /\ IndexAgrees(j)'
  BY DEF UntouchedAgree
<1>1. j # op.item /\ j \notin parted
  BY DEF Untouched
<1>2. op.item \in Items
  BY OpShape DEF Good
<1>3. VectorAgrees(j) /\ IndexAgrees(j)
  BY <1>1 DEF Good, IInv, UntouchedAgree, Untouched
<1>4. VectorAgrees(j)'
  BY <1>1, <1>3 DEF VectorAgrees, IsActive
<1>5. IndexAgrees(j)'
  BY <1>1, <1>2, <1>3, IndexKept
<1>6. QED
  BY <1>4, <1>5

LEMMA SameIndex == UNCHANGED bm => SameElsewhere(bm.corpus, bm'.corpus, op.item)
BY DEF SameElsewhere

LEMMA EmbedStep ==
  ASSUME Good, Embed
  PROVE  Good'
<1> USE DEF Good
<1>1. pc = "embed" /\ op # NoOp /\ UNCHANGED <<vec, bm, used, up, parted, gone>>
  BY DEF Embed, TypeOK
<1>2. op.item \notin parted => VectorAgrees(op.item) /\ IndexAgrees(op.item)
  BY <1>1 DEF IInv, StoresFollow
<1>3. CASE Raise
  BY <1>1, <1>2, <1>3, EndsUnwritten
<1>4. CASE Continue("vector")
  <2>1. pc' = "vector" /\ UNCHANGED <<op, batch, row>>
    BY <1>4 DEF Continue
  <2>2. TypeOK'
    BY <1>1, <2>1 DEF TypeOK
  <2>3. MapsAgree' /\ NewIdsAreFree' /\ GoneHaveNoVector'
    BY <1>1, <2>1 DEF IInv, MapsAgree, NewIdsAreFree, GoneHaveNoVector
  <2>4. OperationFits'
    BY <1>1, <2>1 DEF IInv, OperationFits
  <2>5. op.sync
    BY <1>1 DEF IInv, OperationFits
  <2>6. StoresFollow'
    BY <1>1, <1>2, <2>1, <2>5 DEF StoresFollow, VectorAgrees, IndexAgrees, IsActive
  <2>7. UntouchedAgree'
    BY <1>1, <2>1, SameIndex, OthersAgree
  <2>8. QED
    BY <2>2, <2>3, <2>4, <2>6, <2>7 DEF IInv
<1>5. QED
  BY <1>3, <1>4 DEF Embed

LEMMA WriteVectorStep ==
  ASSUME Good, WriteVector
  PROVE  Good'
<1> USE DEF Good
<1> DEFINE i == op.item
<1>1. pc = "vector" /\ op # NoOp /\ UNCHANGED <<bm, used, up, gone>>
  BY DEF WriteVector, TypeOK
<1>2. /\ op \in Ops /\ op.verb \in {"create", "update", "delete"}
      /\ i \in Items /\ i \in used
      /\ op.row.content \in Contents /\ op.row.content # None
  BY <1>1, OpShape DEF IInv, OperationFits
<1>3. op.sync /\ (op.verb = "create") = (row[i] = None)
  BY <1>1 DEF IInv, OperationFits
<1>4. i \notin parted => VectorAgrees(i) /\ IndexAgrees(i)
  BY <1>1 DEF IInv, StoresFollow
<1>5. CASE /\ vec' = [vec EXCEPT ![i] = VectorAfter(op)]
           /\ Continue(IF op.verb = "create" THEN "bm25 add" ELSE "bm25 remove")
           /\ UNCHANGED parted
  <2>1. /\ pc' = IF op.verb = "create" THEN "bm25 add" ELSE "bm25 remove"
        /\ UNCHANGED <<op, batch, row>>
    BY <1>5 DEF Continue
  <2>2. VectorAfter(op) = IF op.verb = "create" \/ (op.verb = "update" /\ vec[i] # None)
                          THEN op.row.content ELSE None
    BY <1>2 DEF VectorAfter
  <2>3. vec'[i] = VectorAfter(op) /\ \A j \in Items \ {i} : vec'[j] = vec[j]
    BY <1>2, <1>5 DEF TypeOK
  <2>4. TypeOK'
    <3>1. vec' \in [Items -> Contents \union {None}]
      BY <1>2, <1>5, <2>2 DEF TypeOK
    <3>2. pc' \in {"bm25 add", "bm25 remove"}
      BY <2>1
    <3>3. QED
      BY <1>1, <1>5, <2>1, <3>1, <3>2 DEF TypeOK
  <2>5. MapsAgree' /\ NewIdsAreFree'
    BY <1>1, <1>5, <2>1 DEF IInv, MapsAgree, NewIdsAreFree
  <2>6. OperationFits'
    BY <1>1, <1>2, <2>1 DEF IInv, OperationFits
  <2>7. GoneHaveNoVector'
    <3>1. \A j \in gone : j \in Items /\ vec[j] = None /\ row[j] # None
      BY DEF IInv, GoneHaveNoVector, TypeOK
    <3>2. i \in gone => vec'[i] = None
      BY <1>3, <2>2, <2>3, <3>1
    <3>3. QED
      BY <1>1, <2>1, <2>3, <3>1, <3>2 DEF GoneHaveNoVector
  <2>8. StoresFollow'
    <3> SUFFICES ASSUME i \notin parted PROVE StoresFollow'
      BY <1>5, <2>1 DEF StoresFollow
    <3>1. vec[i] # None <=> IsActive(i)
      <4>1. IsActive(i) => row[i].content # None
        BY <1>2, RowShape DEF IsActive
      <4>2. QED
        BY <1>4, <4>1 DEF VectorAgrees
    <3>2. vec'[i] = IF op.verb = "create" \/ (op.verb = "update" /\ IsActive(i))
                    THEN op.row.content ELSE None
      BY <2>2, <2>3, <3>1
    <3>3. IsActive(i)' = IsActive(i) /\ IndexAgrees(i)'
      BY <1>1, <1>4, <2>1 DEF IndexAgrees, IsActive
    <3>4. op.verb = "create" => ~Holds(bm'.corpus, i)
      BY <1>1, <1>3, <1>4 DEF IndexAgrees, IsActive
    <3>5. QED
      BY <1>3, <2>1, <3>2, <3>3, <3>4 DEF StoresFollow
  <2>9. UntouchedAgree'
    BY <1>1, <1>5, <2>1, <2>3, SameIndex, OthersAgree
  <2>10. QED
    BY <2>4, <2>5, <2>6, <2>7, <2>8, <2>9 DEF IInv
<1>6. CASE /\ op.verb = "delete" /\ Continue("bm25 remove")
           /\ parted' = parted \union {i} /\ UNCHANGED vec
  <2>1. pc' = "bm25 remove" /\ UNCHANGED <<op, batch, row>>
    BY <1>6 DEF Continue
  <2>2. TypeOK'
    BY <1>1, <1>2, <1>6, <2>1 DEF TypeOK
  <2>3. MapsAgree' /\ NewIdsAreFree' /\ GoneHaveNoVector'
    BY <1>1, <1>6, <2>1 DEF IInv, MapsAgree, NewIdsAreFree, GoneHaveNoVector
  <2>4. OperationFits' /\ StoresFollow'
    BY <1>1, <1>6, <2>1 DEF IInv, OperationFits, StoresFollow
  <2>5. UntouchedAgree'
    BY <1>1, <1>6, <2>1, SameIndex, OthersAgree
  <2>6. QED
    BY <2>2, <2>3, <2>4, <2>5 DEF IInv
<1>7. CASE Raise /\ UNCHANGED <<vec, parted>>
  BY <1>1, <1>4, <1>7, EndsUnwritten
<1>8. QED
  BY <1>5, <1>6, <1>7 DEF WriteVector

LEMMA RemoveBm25Step ==
  ASSUME Good, RemoveBm25
  PROVE  Good'
<1> USE DEF Good
<1> DEFINE i == op.item
<1>1. /\ pc = "bm25 remove" /\ op # NoOp /\ bm' = Remove(bm, i)
      /\ UNCHANGED <<vec, used, up, gone>>
  BY DEF RemoveBm25, TypeOK
<1>2. /\ op \in Ops /\ op.verb \in {"update", "delete"}
      /\ i \in Items /\ i \in used
  BY <1>1, OpShape DEF IInv, OperationFits
<1>3. op.sync
  BY <1>1 DEF IInv, OperationFits
<1>4. /\ bm' \in Maps /\ HasDistinctIds(bm'.corpus) /\ bm'.ids = Ids(bm'.corpus)
      /\ HasToken(bm'.corpus) => bm'.index = Texts(bm'.corpus)
      /\ ~Holds(bm'.corpus, i) /\ SameElsewhere(bm.corpus, bm'.corpus, i)
      /\ ~RemoveRaises(bm, i) /\ ~Raises(bm.corpus) => ~Raises(bm'.corpus)
  BY <1>1, <1>2, Removes DEF IInv
<1>5. bm' \in [corpus: Seq([id: Items, text: Contents]), ids: Seq(Items),
               index: Seq(Contents)]
  BY <1>4 DEF Maps, Entry
<1>6. CASE RemoveRaises(bm, i)
  <2>1. /\ parted' = parted \union {i} /\ op' = NoOp /\ pc' = "idle" /\ batch' = 0
        /\ UNCHANGED row
    BY <1>6 DEF RemoveBm25, Raise
  <2>2. TypeOK'
    <3>1. batch' \in 0..MaxBatch
      BY <2>1, NoBatch
    <3>2. parted' \subseteq used
      BY <1>2, <2>1 DEF TypeOK
    <3>3. QED
      BY <1>1, <1>5, <2>1, <3>1, <3>2 DEF TypeOK
  <2>3. MapsAgree'
    BY <1>4, <2>1 DEF MapsAgree
  <2>4. OperationFits' /\ StoresFollow' /\ NewIdsAreFree' /\ GoneHaveNoVector'
    BY <1>1, <2>1 DEF IInv, OperationFits, StoresFollow, NewIdsAreFree, GoneHaveNoVector
  <2>5. UntouchedAgree'
    BY <1>1, <1>4, <2>1, OthersAgree
  <2>6. QED
    BY <2>2, <2>3, <2>4, <2>5 DEF IInv
<1>7. CASE ~RemoveRaises(bm, i)
  <2>1. /\ pc' = IF op.verb = "update" THEN "bm25 add" ELSE "commit"
        /\ UNCHANGED <<op, batch, row, parted>>
    BY <1>7 DEF RemoveBm25, Continue
  <2>2. TypeOK'
    <3>1. pc' \in {"bm25 add", "commit"}
      BY <2>1
    <3>2. QED
      BY <1>1, <1>5, <2>1, <3>1 DEF TypeOK
  <2>3. MapsAgree'
    BY <1>4, <1>7, <2>1 DEF IInv, MapsAgree
  <2>4. OperationFits'
    BY <1>1, <1>2, <1>3, <2>1 DEF IInv, OperationFits
  <2>5. NewIdsAreFree' /\ GoneHaveNoVector'
    BY <1>1, <2>1 DEF IInv, NewIdsAreFree, GoneHaveNoVector
  <2>6. StoresFollow'
    <3> SUFFICES ASSUME i \notin parted PROVE StoresFollow'
      BY <2>1 DEF StoresFollow
    <3>1. vec[i] = IF op.verb = "create" \/ (op.verb = "update" /\ IsActive(i))
                   THEN op.row.content ELSE None
      BY <1>1, <1>3 DEF IInv, StoresFollow
    <3>2. IsActive(i)' = IsActive(i) /\ vec'[i] = vec[i] /\ op' = op
      BY <1>1, <2>1 DEF IsActive
    <3>3. pc' = "commit" => op.verb = "delete"
      BY <1>2, <2>1
    <3>4. pc' \in {"bm25 add", "commit"}
      BY <2>1
    <3>5. QED
      BY <1>3, <1>4, <3>1, <3>2, <3>3, <3>4 DEF StoresFollow
  <2>7. UntouchedAgree'
    BY <1>1, <1>4, <2>1, OthersAgree
  <2>8. QED
    BY <2>2, <2>3, <2>4, <2>5, <2>6, <2>7 DEF IInv
<1>8. QED
  BY <1>6, <1>7

LEMMA AddBm25Step ==
  ASSUME Good, AddBm25
  PROVE  Good'
<1> USE DEF Good
<1> DEFINE i == op.item
           text == op.row.content
<1>1. /\ pc = "bm25 add" /\ op # NoOp /\ bm' = Add(bm, i, text)
      /\ UNCHANGED <<vec, used, up, gone>>
  BY DEF AddBm25, TypeOK
<1>2. /\ op \in Ops /\ op.verb \in {"create", "update"}
      /\ i \in Items /\ i \in used /\ text \in Contents
  BY <1>1, OpShape DEF IInv, OperationFits
<1>3. op.sync
  BY <1>1 DEF IInv, OperationFits
<1>4. /\ bm' \in Maps /\ HasDistinctIds(bm'.corpus) /\ bm'.ids = Ids(bm'.corpus)
      /\ HasToken(bm'.corpus) => bm'.index = Texts(bm'.corpus)
      /\ Holds(bm'.corpus, i) /\ TextOf(bm'.corpus, i) = text
      /\ SameElsewhere(bm.corpus, bm'.corpus, i)
      /\ ~AddRaises(bm, i, text) => ~Raises(bm'.corpus)
  BY <1>1, <1>2, Adds DEF IInv
<1>5. bm' \in [corpus: Seq([id: Items, text: Contents]), ids: Seq(Items),
               index: Seq(Contents)]
  BY <1>4 DEF Maps, Entry
<1>6. CASE AddRaises(bm, i, text)
  <2>1. /\ parted' = parted \union {i} /\ op' = NoOp /\ pc' = "idle" /\ batch' = 0
        /\ UNCHANGED row
    BY <1>6 DEF AddBm25, Raise
  <2>2. TypeOK'
    <3>1. batch' \in 0..MaxBatch
      BY <2>1, NoBatch
    <3>2. parted' \subseteq used
      BY <1>2, <2>1 DEF TypeOK
    <3>3. QED
      BY <1>1, <1>5, <2>1, <3>1, <3>2 DEF TypeOK
  <2>3. MapsAgree'
    BY <1>4, <2>1 DEF MapsAgree
  <2>4. OperationFits' /\ StoresFollow' /\ NewIdsAreFree' /\ GoneHaveNoVector'
    BY <1>1, <2>1 DEF IInv, OperationFits, StoresFollow, NewIdsAreFree, GoneHaveNoVector
  <2>5. UntouchedAgree'
    BY <1>1, <1>4, <2>1, OthersAgree
  <2>6. QED
    BY <2>2, <2>3, <2>4, <2>5 DEF IInv
<1>7. CASE ~AddRaises(bm, i, text)
  <2>1. pc' = "commit" /\ UNCHANGED <<op, batch, row, parted>>
    BY <1>7 DEF AddBm25, Continue
  <2>2. TypeOK'
    BY <1>1, <1>5, <2>1 DEF TypeOK
  <2>3. MapsAgree'
    BY <1>4, <1>7, <2>1 DEF IInv, MapsAgree
  <2>4. OperationFits'
    BY <1>1, <1>2, <1>3, <2>1 DEF IInv, OperationFits
  <2>5. NewIdsAreFree' /\ GoneHaveNoVector'
    BY <1>1, <2>1 DEF IInv, NewIdsAreFree, GoneHaveNoVector
  <2>6. StoresFollow'
    <3> SUFFICES ASSUME i \notin parted PROVE StoresFollow'
      BY <2>1 DEF StoresFollow
    <3>1. vec[i] = IF op.verb = "create" \/ (op.verb = "update" /\ IsActive(i))
                   THEN text ELSE None
      BY <1>1, <1>3 DEF IInv, StoresFollow
    <3>2. IsActive(i)' = IsActive(i) /\ vec'[i] = vec[i] /\ op' = op
      BY <1>1, <2>1 DEF IsActive
    <3>3. op.verb # "delete"
      BY <1>2
    <3>4. QED
      BY <1>3, <1>4, <2>1, <3>1, <3>2, <3>3 DEF StoresFollow
  <2>7. UntouchedAgree'
    BY <1>1, <1>4, <2>1, OthersAgree
  <2>8. QED
    BY <2>2, <2>3, <2>4, <2>5, <2>6, <2>7 DEF IInv
<1>8. QED
  BY <1>6, <1>7

(* The row catches up with the stores, unless they are known to part. *)
LEMMA CommitStep ==
  ASSUME Good, Commit
  PROVE  Good'
<1> USE DEF Good
<1>0. op # NoOp
  BY DEF Commit, TypeOK
<1> PICK i \in Items : i = op.item
  BY <1>0, OpShape
<1>1. /\ pc = "commit" /\ op # NoOp
      /\ row' = [row EXCEPT ![i] = op.row]
      /\ parted' = IF Parts(op) THEN parted \union {i} ELSE parted
      /\ gone' = IF op.verb = "delete" /\ i \notin parted THEN gone \union {i} ELSE gone
      /\ pc' = "idle" /\ op' = NoOp
      /\ UNCHANGED <<vec, bm, batch, used, up>>
  BY <1>0 DEF Commit
<1>2. /\ op \in Ops /\ op.verb \in {"create", "update", "delete"} /\ op.sync \in BOOLEAN
      /\ i \in Items /\ i \in used /\ op.row \in Row /\ op.row # None
      /\ op.row.status \in Status
  BY <1>1, OpShape DEF IInv, OperationFits
<1>3. /\ (op.verb = "create") = (row[i] = None)
      /\ op.verb = "create" => op.row.status = "active" /\ op.sync
      /\ op.verb = "delete" => op.row.status = "archived" /\ op.sync
      /\ ~op.sync => op.row.content = row[i].content
  BY <1>1 DEF IInv, OperationFits
<1>4. row'[i] = op.row /\ \A j \in Items \ {i} : row'[j] = row[j]
  BY <1>1, <1>2 DEF TypeOK
<1>5. TypeOK'
  <2>1. row' \in [Items -> Row \union {None}]
    BY <1>1, <1>2 DEF TypeOK
  <2>2. parted' \subseteq used /\ gone' \subseteq used
    BY <1>1, <1>2 DEF TypeOK
  <2>3. QED
    BY <1>1, <2>1, <2>2 DEF TypeOK
<1>6. MapsAgree'
  BY <1>1, <1>2 DEF IInv, MapsAgree
<1>7. OperationFits' /\ StoresFollow'
  BY <1>1 DEF OperationFits, StoresFollow
<1>8. NewIdsAreFree'
  BY <1>1, <1>2, <1>4 DEF IInv, NewIdsAreFree
<1>9. i \notin parted /\ op.sync =>
        /\ vec[i] = IF op.verb = "create" \/ (op.verb = "update" /\ IsActive(i))
                    THEN op.row.content ELSE None
        /\ IF op.verb = "delete" THEN ~Holds(bm.corpus, i)
           ELSE Holds(bm.corpus, i) /\ TextOf(bm.corpus, i) = op.row.content
  BY <1>1 DEF IInv, StoresFollow
<1>10. GoneHaveNoVector'
  <2>1. \A j \in gone : j \in Items /\ vec[j] = None /\ row[j] # None
    BY DEF IInv, GoneHaveNoVector, TypeOK
  <2>2. i \in gone' /\ i \notin gone => vec[i] = None
    BY <1>1, <1>3, <1>9
  <2>3. QED
    BY <1>1, <1>2, <1>4, <2>1, <2>2 DEF GoneHaveNoVector
<1>11. ASSUME NEW j \in Items, j \notin parted', j # i
       PROVE  VectorAgrees(j)' /\ IndexAgrees(j)'
  <2>1. VectorAgrees(j) /\ IndexAgrees(j)
    BY <1>1, <1>11 DEF IInv, UntouchedAgree, Untouched
  <2>2. row'[j] = row[j] /\ vec'[j] = vec[j] /\ bm' = bm
    BY <1>1, <1>4, <1>11
  <2>3. QED
    BY <2>1, <2>2 DEF VectorAgrees, IndexAgrees, IsActive
<1>12. ASSUME i \notin parted'
       PROVE  VectorAgrees(i)' /\ IndexAgrees(i)'
  <2>1. i \notin parted /\ ~Parts(op)
    BY <1>1, <1>12
  <2>2. IsActive(i)' = (op.row.status = "active")
    BY <1>2, <1>4 DEF IsActive
  <2>3. CASE op.sync
    <3>1. CASE op.verb = "delete"
      <4>1. ~IsActive(i)'
        BY <1>3, <2>2, <3>1
      <4>2. vec'[i] = None /\ ~Holds(bm'.corpus, i)
        BY <1>1, <1>9, <2>1, <2>3, <3>1
      <4>3. QED
        BY <4>1, <4>2 DEF VectorAgrees, IndexAgrees, IsActive, Holds
    <3>2. CASE op.verb # "delete"
      <4>1. IsActive(i)' /\ (op.verb = "create" \/ IsActive(i))
        BY <1>2, <1>3, <2>1, <2>2, <2>3, <3>2 DEF Parts, IsActive
      <4>2. vec'[i] = op.row.content
        BY <1>1, <1>2, <1>9, <2>1, <2>3, <3>2, <4>1
      <4>3. Holds(bm'.corpus, i) /\ TextOf(bm'.corpus, i) = op.row.content
        BY <1>1, <1>9, <2>1, <2>3, <3>2
      <4>4. QED
        BY <1>4, <4>1, <4>2, <4>3 DEF VectorAgrees, IndexAgrees
    <3>3. QED
      BY <3>1, <3>2
  <2>4. CASE ~op.sync
    <3>1. VectorAgrees(i) /\ IndexAgrees(i)
      BY <1>1, <2>1, <2>4 DEF IInv, StoresFollow
    <3>2. op.verb = "update" /\ row[i] # None
      BY <1>2, <1>3, <2>4
    <3>3. op.row.status = row[i].status /\ op.row.content = row[i].content
      BY <1>3, <2>1, <2>4, <3>2 DEF Parts
    <3>4. IsActive(i)' = IsActive(i) /\ row'[i].content = row[i].content
      BY <1>4, <2>2, <3>2, <3>3 DEF IsActive
    <3>5. vec' = vec /\ bm' = bm
      BY <1>1
    <3>6. QED
      BY <3>1, <3>4, <3>5 DEF VectorAgrees, IndexAgrees
  <2>5. QED
    BY <1>2, <2>3, <2>4
<1>13. UntouchedAgree'
  BY <1>11, <1>12 DEF UntouchedAgree, Untouched
<1>14. QED
  BY <1>5, <1>6, <1>7, <1>8, <1>10, <1>13 DEF IInv

LEMMA CommitFailsStep ==
  ASSUME Good, CommitFails
  PROVE  Good'
<1>1. /\ pc = "commit" /\ op # NoOp /\ Raise /\ UNCHANGED <<vec, bm, used, up, gone>>
      /\ parted' = IF op.sync THEN parted \union {op.item} ELSE parted
  BY DEF CommitFails, Good, TypeOK
<1>2. ~op.sync /\ op.item \notin parted => VectorAgrees(op.item) /\ IndexAgrees(op.item)
  BY <1>1 DEF Good, IInv, StoresFollow
<1>3. QED
  BY <1>1, <1>2, EndsUnwritten

----------------------------------------------------------------------------
(* No operation has touched a store, or only ones whose items are known to *)
(* have parted.                                                            *)
LEMMA BetweenOperations ==
  ASSUME Good, ~(pc \in {"vector", "bm25 remove", "bm25 add", "commit"} /\ op.sync)
  PROVE  \A i \in Items \ parted : VectorAgrees(i) /\ IndexAgrees(i)
<1> SUFFICES ASSUME NEW i \in Items \ parted
             PROVE  VectorAgrees(i) /\ IndexAgrees(i)
  OBVIOUS
<1>1. CASE op = NoOp \/ op.item # i
  BY <1>1 DEF Good, IInv, UntouchedAgree, Untouched
<1>2. CASE op # NoOp /\ op.item = i
  <2>1. pc = "embed" \/ ~op.sync
    BY <1>2 DEF Good, TypeOK
  <2>2. QED
    BY <1>2, <2>1 DEF Good, IInv, StoresFollow
<1>3. QED
  BY <1>1, <1>2

(* Stores that agree with the rows and rebuild without an error can be     *)
(* rebuilt from the rows.                                                  *)
LEMMA AgreeingRowsStart ==
  ASSUME TypeOK, MapsAgree, parted = {}, \A i \in Items : IndexAgrees(i)
  PROVE  Startable
<1> SUFFICES ASSUME NEW i \in Items, IsActive(i)
             PROVE  \E j \in Items : IsActive(j) /\ row[j].content # {}
  BY DEF Startable
<1>1. bm.corpus \in Seq(Entry) /\ HasDistinctIds(bm.corpus) /\ ~Raises(bm.corpus)
  BY MapsShape DEF MapsAgree
<1>2. Holds(bm.corpus, i)
  BY DEF IndexAgrees
<1>3. bm.corpus # << >>
  BY <1>2 DEF Holds
<1>4. PICK n \in DOMAIN bm.corpus : bm.corpus[n].text # {}
  BY <1>1, <1>3 DEF Raises, HasToken
<1>5. PICK j \in Items : j = bm.corpus[n].id
  <2>1. bm.corpus[n] \in Entry
    BY <1>1
  <2>2. QED
    BY <2>1 DEF Entry
<1>6. TextOf(bm.corpus, j) = bm.corpus[n].text /\ Holds(bm.corpus, j)
  BY <1>1, <1>5, TextAt DEF Holds
<1>7. IsActive(j) /\ TextOf(bm.corpus, j) = row[j].content
  BY <1>6 DEF IndexAgrees
<1>8. QED
  BY <1>4, <1>6, <1>7

(* The process dies anywhere and starts again. *)
LEMMA RestartStep ==
  ASSUME Good, Restart
  PROVE  Good'
<1> USE DEF Good
<1> DEFINE active == {i \in Items : IsActive(i)}
<1>1. PICK c \in StartupCorpora : bm' = Rebuild(Empty, c) /\ up' = ~Raises(c)
  BY DEF Restart
<1>2. /\ op' = NoOp /\ pc' = "idle" /\ batch' = 0 /\ UNCHANGED <<row, vec, used, gone>>
      /\ parted' = IF pc \in {"vector", "bm25 remove", "bm25 add", "commit"} /\ op.sync
                   THEN parted \union {op.item} ELSE parted
  BY DEF Restart, Raise
<1>3. /\ c \in [1..Cardinality(active) -> [id: active, text: Contents]]
      /\ \A i \in active : Holds(c, i)
      /\ \A n \in DOMAIN c : c[n].text = row[c[n].id].content
      /\ HasDistinctIds(c)
  BY DEF StartupCorpora
<1>4. c \in Seq(Entry)
  <2>1. Cardinality(active) \in Nat
    BY FS_Subset, FS_CardinalityType
  <2>2. c \in [1..Cardinality(active) -> Entry]
    BY <1>3 DEF Entry
  <2> HIDE DEF active
  <2>3. QED
    BY <2>1, <2>2
<1>5. /\ bm' \in Maps /\ bm'.corpus = c /\ bm'.ids = Ids(c)
      /\ HasToken(c) => bm'.index = Texts(c)
  <2>1. Empty \in Maps
    BY DEF Empty, Maps
  <2>2. QED
    BY <1>1, <1>4, <2>1, Rebuilds
<1>6. \A n \in DOMAIN c : c[n].id \in active
  BY <1>3
<1>7. \A i \in Items : Holds(c, i) = IsActive(i)
  BY <1>3, <1>6 DEF Holds, IsActive
<1>8. ASSUME NEW i \in Items, IsActive(i) PROVE TextOf(c, i) = row[i].content
  <2>1. PICK n \in DOMAIN c : c[n].id = i
    BY <1>7, <1>8 DEF Holds
  <2>2. QED
    BY <1>3, <1>4, <2>1, TextAt
<1>9. \A i \in Items : IndexAgrees(i)'
  <2>1. \A i \in Items : IsActive(i)' = IsActive(i) /\ row'[i] = row[i]
    BY <1>2 DEF IsActive
  <2>2. QED
    BY <1>5, <1>7, <1>8, <2>1 DEF IndexAgrees
<1>10. ASSUME NEW i \in Items, i \notin parted' PROVE VectorAgrees(i)'
  <2>1. VectorAgrees(i)
    <3>1. CASE pc \in {"vector", "bm25 remove", "bm25 add", "commit"} /\ op.sync
      <4>1. i \notin parted /\ op.item # i
        BY <1>2, <1>10, <3>1
      <4>2. QED
        BY <4>1 DEF IInv, UntouchedAgree, Untouched
    <3>2. CASE ~(pc \in {"vector", "bm25 remove", "bm25 add", "commit"} /\ op.sync)
      <4>1. i \notin parted
        BY <1>2, <1>10, <3>2
      <4>2. QED
        BY <3>2, <4>1, BetweenOperations
    <3>3. QED
      BY <3>1, <3>2
  <2>2. QED
    BY <1>2, <2>1 DEF VectorAgrees, IsActive
<1>11. parted' = {} => ~Raises(c)
  <2> SUFFICES ASSUME parted' = {}, Raises(c) PROVE FALSE
    OBVIOUS
  <2>1. ~(pc \in {"vector", "bm25 remove", "bm25 add", "commit"} /\ op.sync) /\ parted = {}
    BY <1>2
  <2>2. \A i \in Items : IndexAgrees(i)
    BY <2>1, BetweenOperations
  <2>3. Startable
    BY <2>1, <2>2, AgreeingRowsStart DEF IInv
  <2>4. c # << >> /\ ~HasToken(c)
    BY DEF Raises
  <2>5. PICK n \in DOMAIN c : TRUE
    <3>1. Len(c) \in Nat /\ DOMAIN c = 1..Len(c) /\ Len(c) # 0
      BY <1>4, <2>4, EmptySeq
    <3>2. 1 \in DOMAIN c
      BY <3>1
    <3>3. QED
      BY <3>2
  <2>6. c[n].id \in Items /\ IsActive(c[n].id)
    BY <1>6
  <2>7. PICK j \in Items : IsActive(j) /\ row[j].content # {}
    BY <2>3, <2>6 DEF Startable
  <2>8. PICK m \in DOMAIN c : c[m].id = j
    BY <1>7, <2>7 DEF Holds
  <2>9. c[m].text # {}
    BY <1>3, <2>7, <2>8
  <2>10. QED
    BY <2>4, <2>9 DEF HasToken
<1>12. TypeOK'
  <2>1. bm' \in [corpus: Seq([id: Items, text: Contents]), ids: Seq(Items),
                 index: Seq(Contents)]
    BY <1>5 DEF Maps, Entry
  <2>2. up' \in BOOLEAN
    BY <1>1 DEF Raises
  <2>3. parted' \subseteq used
    <3>1. pc # "idle" => op # NoOp
      BY DEF TypeOK
    <3>2. op # NoOp => op.item \in used
      BY DEF IInv, OperationFits
    <3>3. QED
      BY <1>2, <3>1, <3>2 DEF TypeOK
  <2>4. batch' \in 0..MaxBatch
    BY <1>2, NoBatch
  <2>5. QED
    BY <1>2, <2>1, <2>2, <2>3, <2>4 DEF TypeOK
<1>13. MapsAgree'
  BY <1>3, <1>5, <1>11 DEF MapsAgree
<1>14. OperationFits' /\ StoresFollow'
  BY <1>2 DEF OperationFits, StoresFollow
<1>15. UntouchedAgree'
  BY <1>9, <1>10 DEF UntouchedAgree, Untouched
<1>16. NewIdsAreFree' /\ GoneHaveNoVector'
  BY <1>2 DEF IInv, NewIdsAreFree, GoneHaveNoVector
<1>17. QED
  BY <1>12, <1>13, <1>14, <1>15, <1>16 DEF IInv

(* A seeded item is apart from its vector from the start; the keyword      *)
(* index is that of the rows.                                              *)
LEMMA InitGood ==
  ASSUME Init
  PROVE  Good
<1>1. PICK seed \in Seeds :
        /\ row = SeededRows(seed) /\ vec = [i \in Items |-> None]
        /\ bm = Rebuild(Empty, seed)
        /\ pc = "idle" /\ op = NoOp /\ batch = 0 /\ up = TRUE /\ gone = {}
        /\ used = {i \in Items : Holds(seed, i)} /\ parted = used
  BY DEF Init
<1>2. seed \in Seq(Entry) /\ HasDistinctIds(seed) /\ ~Raises(seed)
  BY SeedAssumption DEF Entry
<1>3. /\ bm \in Maps /\ bm.corpus = seed /\ bm.ids = Ids(seed)
      /\ HasToken(seed) => bm.index = Texts(seed)
  <2>1. Empty \in Maps
    BY DEF Empty, Maps
  <2>2. QED
    BY <1>1, <1>2, <2>1, Rebuilds
<1>4. ASSUME NEW i \in Items, Holds(seed, i) PROVE TextOf(seed, i) \in Contents
  <2>1. PICK n \in DOMAIN seed : seed[n].id = i
    BY <1>4 DEF Holds
  <2>2. TextOf(seed, i) = seed[n].text
    BY <1>2, <2>1, TextAt
  <2>3. seed[n] \in Entry
    BY <1>2
  <2>4. QED
    BY <2>2, <2>3 DEF Entry
<1>5. TypeOK
  <2>1. row \in [Items -> Row \union {None}]
    BY <1>1, <1>4 DEF SeededRows, Row, Status
  <2>2. bm \in [corpus: Seq([id: Items, text: Contents]), ids: Seq(Items),
                index: Seq(Contents)]
    BY <1>3 DEF Maps, Entry
  <2>3. QED
    BY <1>1, <2>1, <2>2, NoBatch DEF TypeOK
<1>6. MapsAgree
  BY <1>2, <1>3 DEF MapsAgree
<1>7. UntouchedAgree
  <2> SUFFICES ASSUME NEW i \in Items, i \notin used PROVE VectorAgrees(i) /\ IndexAgrees(i)
    BY <1>1 DEF UntouchedAgree, Untouched
  <2>1. ~Holds(seed, i) /\ row[i] = None /\ vec[i] = None
    BY <1>1 DEF SeededRows
  <2>2. QED
    BY <1>3, <2>1 DEF VectorAgrees, IndexAgrees, IsActive, Holds
<1>8. OperationFits /\ StoresFollow
  BY <1>1 DEF OperationFits, StoresFollow
<1>9. NewIdsAreFree /\ GoneHaveNoVector
  BY <1>1 DEF NewIdsAreFree, GoneHaveNoVector, SeededRows
<1>10. QED
  BY <1>5, <1>6, <1>7, <1>8, <1>9 DEF Good, IInv

(* The invariant holds from the start and no step leaves it. *)
THEOREM Inductive == Spec => [](TypeOK /\ IInv)
<1>1. Init => Good
  BY InitGood
<1>2. Good /\ [Next]_vars => Good'
  <2> SUFFICES ASSUME Good, [Next]_vars PROVE Good'
    OBVIOUS
  <2>1. CASE UNCHANGED vars
    <3>1. UNCHANGED <<row, vec, bm, pc, op, batch, used, up, parted, gone>>
      BY <2>1 DEF vars
    <3>2. TypeOK'
      BY <3>1 DEF Good, TypeOK
    <3>3. IInv'
      BY <3>1, InvariantOfStores DEF Good
    <3>4. QED
      BY <3>2, <3>3 DEF Good
  <2>2. QED
    BY <2>1, NewItemStep, BatchImportStep, UpdateStep, DeleteStep, EmbedStep,
       WriteVectorStep, RemoveBm25Step, AddBm25Step, CommitStep, CommitFailsStep,
       RestartStep DEF Next, Step
<1>3. QED
  BY <1>1, <1>2, PTL DEF Spec, Good

(* Rows, stores and the operation keep their form. *)
THEOREM TypeCorrect == Spec => []TypeOK
BY Inductive, PTL

(* The three stores agree on every item that no operation let go apart.    *)
THEOREM AgreeingStores == Spec => []StoresAgree
<1>1. TypeOK /\ IInv => StoresAgree
  BY DEF IInv, UntouchedAgree, VectorAgrees, IndexAgrees, GoneHaveNoVector, StoresAgree
<1>2. QED
  BY <1>1, Inductive, PTL

(* An item that stays active can be found through every step of an update. *)
THEOREM FindableThroughout == Spec => []UpdateKeepsFindable
<1>1. TypeOK /\ IInv => UpdateKeepsFindable
  <2> SUFFICES ASSUME TypeOK, IInv, NEW i \in Items, IsActive(i), i \notin parted,
                      op = NoOp \/ op.item # i \/ op.verb # "delete"
               PROVE  /\ vec[i] # None
                      /\ vec[i] = row[i].content \/ (op # NoOp /\ vec[i] = op.row.content)
    BY DEF UpdateKeepsFindable
  <2>1. row[i].content # None /\ row[i] # None
    BY RowShape DEF IsActive
  <2>2. CASE VectorAgrees(i)
    BY <2>1, <2>2 DEF VectorAgrees
  <2>3. CASE op # NoOp /\ op.item = i /\ op.sync /\ pc \in {"bm25 remove", "bm25 add", "commit"}
    <3>1. op.verb = "update" /\ op.row.content # None
      BY <2>1, <2>3, OpShape DEF IInv, OperationFits
    <3>2. vec[i] = op.row.content
      BY <2>3, <3>1 DEF IInv, StoresFollow
    <3>3. QED
      BY <2>3, <3>1, <3>2
  <2>4. VectorAgrees(i) \/ (op # NoOp /\ op.item = i /\ op.sync
                              /\ pc \in {"bm25 remove", "bm25 add", "commit"})
    <3>1. CASE op = NoOp \/ op.item # i
      BY <3>1 DEF IInv, UntouchedAgree, Untouched
    <3>2. CASE op # NoOp /\ op.item = i
      <4>1. op.sync \in BOOLEAN /\ pc # "idle"
        BY <3>2, OpShape
      <4>2. pc \in {"embed", "vector", "bm25 remove", "bm25 add", "commit"}
        BY <4>1 DEF TypeOK
      <4>3. QED
        BY <3>2, <4>1, <4>2 DEF IInv, StoresFollow
    <3>3. QED
      BY <3>1, <3>2
  <2>5. QED
    BY <2>2, <2>3, <2>4
<1>2. QED
  BY <1>1, Inductive, PTL

(* Keyword hits name documents that have the word. *)
THEOREM TrueHits == Spec => []HitsAreTrue
<1>1. TypeOK /\ IInv => HitsAreTrue
  <2> SUFFICES ASSUME TypeOK, IInv, HasToken(bm.corpus), NEW word
               PROVE  /\ Scored(bm, word) \subseteq DOMAIN bm.ids
                      /\ \A i \in Found(bm, word) : word \in TextOf(bm.corpus, i)
    BY DEF HitsAreTrue
  <2>1. bm.ids = Ids(bm.corpus) /\ bm.index = Texts(bm.corpus)
    BY DEF IInv, MapsAgree
  <2>2. /\ DOMAIN bm.ids = DOMAIN bm.corpus /\ DOMAIN bm.index = DOMAIN bm.corpus
        /\ \A n \in DOMAIN bm.corpus : /\ bm.ids[n] = bm.corpus[n].id
                                       /\ bm.index[n] = bm.corpus[n].text
    BY <2>1 DEF Ids, Texts
  <2>3. bm.corpus \in Seq(Entry) /\ HasDistinctIds(bm.corpus)
    BY MapsShape DEF IInv, MapsAgree
  <2>4. \A n \in DOMAIN bm.corpus : TextOf(bm.corpus, bm.corpus[n].id) = bm.corpus[n].text
    BY <2>3, TextAt
  <2>5. QED
    BY <2>2, <2>4 DEF Scored, Found
<1>2. QED
  BY <1>1, Inductive, PTL

(* Operations that succeed everywhere leave rows the program starts with.  *)
THEOREM StartableWhenClean == Spec => []CleanIsStartable
<1>1. TypeOK /\ IInv => CleanIsStartable
  <2> SUFFICES ASSUME TypeOK, IInv, parted = {}, op = NoOp PROVE Startable
    BY DEF CleanIsStartable
  <2>1. \A i \in Items : IndexAgrees(i)
    BY DEF IInv, UntouchedAgree, Untouched
  <2>2. QED
    BY <2>1, AgreeingRowsStart DEF IInv
<1>2. QED
  BY <1>1, Inductive, PTL
=============================================================================
