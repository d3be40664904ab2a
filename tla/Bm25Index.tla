------------------------------ MODULE Bm25Index ------------------------------
(***************************************************************************)
(* The keyword index of one tenant, app/core/retrieval/bm25_index.py.      *)
(*                                                                         *)
(* BM25IndexManager keeps three maps per tenant: the corpus (a dict, so in *)
(* insertion order), the ids in the order of the corpus, and the BM25Okapi *)
(* built from the texts.  A rebuild replaces them one after the other, and *)
(* BM25Okapi raises ZeroDivisionError when no text has a token: by then    *)
(* the first two are already replaced and the third is the old one.        *)
(*                                                                         *)
(* The operators take the three maps as a record and return the record a   *)
(* call leaves, with the exception of the call as a predicate of its own.  *)
(* A text is the set of its tokens: a text without tokens is {}.           *)
(***************************************************************************)
EXTENDS Naturals, Sequences

(* The tenant has no entry in any of the maps. *)
Empty == [corpus |-> <<>>, ids |-> <<>>, index |-> <<>>]

Ids(corpus)   == [n \in DOMAIN corpus |-> corpus[n].id]
Texts(corpus) == [n \in DOMAIN corpus |-> corpus[n].text]

(* Some document has a token. *)
HasToken(corpus) == \E n \in DOMAIN corpus : corpus[n].text # {}

(* BM25Okapi divides by the number of different tokens. *)
Raises(corpus) == corpus # <<>> /\ ~HasToken(corpus)

(* Mutant: an exception would leave ids and corpus alone as well, but a    *)
(* rebuild keeps the order the ids had.                                    *)
RebuildKeepingIds(bm, corpus) ==
  IF corpus = <<>>
  THEN Empty
  ELSE [corpus |-> corpus,
        ids    |-> IF Len(bm.ids) = 0 THEN Ids(corpus) ELSE bm.ids,
        index  |-> IF HasToken(corpus) THEN Texts(corpus) ELSE bm.index]

(* _rebuild: an empty corpus drops the tenant. *)
Rebuild(bm, corpus) ==
  IF corpus = <<>>
  THEN Empty
  ELSE [corpus |-> corpus,
        ids    |-> Ids(corpus),
        index  |-> IF HasToken(corpus) THEN Texts(corpus) ELSE bm.index]

Position(corpus, id) == CHOOSE n \in DOMAIN corpus : corpus[n].id = id

(* A dict has a key once. *)
HasDistinctIds(corpus) ==
  \A m, n \in DOMAIN corpus : corpus[m].id = corpus[n].id => m = n

Holds(corpus, id) == \E n \in DOMAIN corpus : corpus[n].id = id

(* The corpora after add and remove.  A dict keeps the place of a key that *)
(* it has.                                                                 *)
With(corpus, id, text) ==
  IF Holds(corpus, id)
  THEN [corpus EXCEPT ![Position(corpus, id)].text = text]
  ELSE Append(corpus, [id |-> id, text |-> text])

Without(corpus, id) ==
  [n \in 1..(Len(corpus) - 1) |->
     corpus[IF n < Position(corpus, id) THEN n ELSE n + 1]]

Add(bm, id, text) == Rebuild(bm, With(bm.corpus, id, text))
AddRaises(bm, id, text) == Raises(With(bm.corpus, id, text))

Remove(bm, id) ==
  IF Holds(bm.corpus, id) THEN Rebuild(bm, Without(bm.corpus, id)) ELSE bm
RemoveRaises(bm, id) ==
  Holds(bm.corpus, id) /\ Raises(Without(bm.corpus, id))

(* search scores the documents of the index and names them by the ids: a   *)
(* document without any word of the query scores 0 and is left out, one    *)
(* that has a word may be found.  The id is IndexError past the last one.  *)
Scored(bm, word) == {n \in DOMAIN bm.index : word \in bm.index[n]}
Found(bm, word) == {bm.ids[n] : n \in Scored(bm, word) \intersect DOMAIN bm.ids}

(* The text the corpus has for an id, {} for an id it does not have. *)
TextOf(corpus, id) ==
  UNION {corpus[n].text : n \in {m \in DOMAIN corpus : corpus[m].id = id}}
=============================================================================
