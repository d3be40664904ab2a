---------------------------- MODULE GovernedSearch ----------------------------
(***************************************************************************)
(* Employees search while documents are uploaded, reviewed, reindexed and  *)
(* deleted: search_knowledge (app/core/agent/tools.py) composed with       *)
(* DocumentLifecycle.                                                      *)
(*                                                                         *)
(* A search is a coroutine of the same event loop.  It awaits the          *)
(* embedding of the query, then the two index searches, which run on       *)
(* executor threads and may read the indexes while another request holds   *)
(* the loop; it fuses and filters their hits in one go when it gets the    *)
(* loop back.  The query is one every chunk is close to (MAX_VECTOR_       *)
(* DISTANCE); BM25 scores whichever chunks it likes.                       *)
(***************************************************************************)
EXTENDS DocumentLifecycle

CONSTANTS
  Searches,        \* searches that may be under way together
  Roles,           \* employee roles
  RoleOf,          \* the role of the employee behind a search
  AudienceOf,      \* Document.audience_roles of a source ({}: everybody)
  CandidateLimit,  \* RETRIEVAL_CANDIDATE_LIMIT, per index and after fusion
  VisibleLimit     \* MAX_VISIBLE_RESULTS

ASSUME SearchAssumption ==
  /\ RoleOf \in [Searches -> Roles]
  /\ AudienceOf \in [Sources -> SUBSET Roles]
  /\ CandidateLimit \in Nat \ {0}
  /\ VisibleLimit \in Nat \ {0}

VARIABLES
  phase,    \* where each search stands
  vhits,    \* hits of the vector store, None before they arrived
  bhits,    \* hits of BM25, None before they arrived
  answer,   \* the results returned last, None for UNAVAILABLE
  atStart,  \* history: the current documents when the search began
  crowded   \* history: an index held more hits than the candidate limit

searchVars == <<phase, vhits, bhits, answer, atStart, crowded>>
allVars == <<vars, searchVars>>

Entries(index) == {hit \in Docs \X Chunks : hit[2] \in index[hit[1]]}

(* The best k of a ranking whose order the model leaves open. *)
Best(k, hits) ==
  IF Cardinality(hits) <= k THEN {hits}
  ELSE {top \in SUBSET hits : Cardinality(top) = k}

InForce(d) ==
  /\ EffectiveOf[snap[d].source] <= today
  /\ today <= ExpiryOf[snap[d].source]

(* Mutant: superseded documents pass. *)
GovernedWithoutPointer(d) ==
  /\ status[d] = "ready"
  /\ chunks[d] = "active"
  /\ review[d] = "approved"
  /\ InForce(d)

(* Mutant: the first day of validity does not count. *)
GovernedFromNextDay(d) ==
  /\ status[d] = "ready"
  /\ chunks[d] = "active"
  /\ review[d] = "approved"
  /\ IsCurrent(d)
  /\ EffectiveOf[snap[d].source] < today
  /\ today <= ExpiryOf[snap[d].source]

(* The SQL filter behind the hits, chunk and document rows joined. *)
Governed(d) ==
  /\ status[d] = "ready"
  /\ chunks[d] = "active"
  /\ review[d] = "approved"
  /\ IsCurrent(d)
  /\ InForce(d)

Readable(s, d) ==
  \/ AudienceOf[snap[d].source] = {}
  \/ RoleOf[s] \in AudienceOf[snap[d].source]

SearchInit ==
  /\ Init
  /\ phase = [s \in Searches |-> "idle"]
  /\ vhits = [s \in Searches |-> None]
  /\ bhits = [s \in Searches |-> None]
  /\ answer = [s \in Searches |-> None]
  /\ atStart = [s \in Searches |-> current]
  /\ crowded = [s \in Searches |-> FALSE]

StartSearch(s) ==
  /\ LoopFree
  /\ phase[s] = "idle"
  /\ phase' = [phase EXCEPT ![s] = "embed"]
  /\ answer' = [answer EXCEPT ![s] = None]
  /\ atStart' = [atStart EXCEPT ![s] = current]
  /\ crowded' = [crowded EXCEPT ![s] = FALSE]
  /\ UNCHANGED <<vars, vhits, bhits>>

QueryEmbedded(s) ==
  /\ LoopFree
  /\ phase[s] = "embed"
  /\ phase' = [phase EXCEPT ![s] = "query"]
  /\ UNCHANGED <<vars, vhits, bhits, answer, atStart, crowded>>

VectorHits(s) ==
  /\ phase[s] = "query"
  /\ vhits[s] = None
  /\ \E top \in Best(CandidateLimit, Entries(vec)) :
       /\ vhits' = [vhits EXCEPT ![s] = top]
       /\ crowded' = [crowded EXCEPT ![s] = @ \/ top # Entries(vec)]
  /\ UNCHANGED <<vars, phase, bhits, answer, atStart>>

Bm25Hits(s) ==
  /\ phase[s] = "query"
  /\ bhits[s] = None
  /\ \E scoring \in SUBSET Entries(bm25) :
       \E top \in Best(CandidateLimit, scoring) :
         bhits' = [bhits EXCEPT ![s] = top]
  /\ UNCHANGED <<vars, phase, vhits, answer, atStart, crowded>>

Finish(s, results) ==
  /\ phase' = [phase EXCEPT ![s] = "idle"]
  /\ vhits' = [vhits EXCEPT ![s] = None]
  /\ bhits' = [bhits EXCEPT ![s] = None]
  /\ answer' = [answer EXCEPT ![s] = results]
  /\ UNCHANGED <<vars, atStart, crowded>>

Answer(s) ==
  /\ LoopFree
  /\ vhits[s] # None
  /\ bhits[s] # None
  /\ \E fused \in Best(CandidateLimit, vhits[s] \union bhits[s]) :
       \E shown \in Best(VisibleLimit, {hit \in fused : /\ Exists(hit[1])
                                                        /\ Governed(hit[1])
                                                        /\ Readable(s, hit[1])}) :
         Finish(s, shown)

(* Any exception on the way is answered UNAVAILABLE. *)
SearchFails(s) ==
  /\ LoopFree
  /\ phase[s] # "idle"
  /\ Finish(s, None)

Lifecycle == Next /\ crashes' = crashes /\ UNCHANGED searchVars

(* A crash takes the searches along. *)
CrashDuringSearch ==
  /\ CrashRestart
  /\ phase' = [s \in Searches |-> "idle"]
  /\ vhits' = [s \in Searches |-> None]
  /\ bhits' = [s \in Searches |-> None]
  /\ UNCHANGED <<answer, atStart, crowded>>

SearchNext ==
  \/ Lifecycle
  \/ CrashDuringSearch
  \/ \E s \in Searches :
       \/ StartSearch(s) \/ QueryEmbedded(s) \/ VectorHits(s) \/ Bm25Hits(s)
       \/ Answer(s) \/ SearchFails(s)

SearchSpec == SearchInit /\ [][SearchNext]_allVars

----------------------------------------------------------------------------
Hits == SUBSET (Docs \X Chunks)

(* Every variable of a search has its type. *)
SearchTypeOK ==
  /\ phase \in [Searches -> {"idle", "embed", "query"}]
  /\ vhits \in [Searches -> Hits \union {None}]
  /\ bhits \in [Searches -> Hits \union {None}]
  /\ answer \in [Searches -> Hits \union {None}]
  /\ atStart \in [Searches -> [Families -> Docs \union {None}]]
  /\ crowded \in [Searches -> BOOLEAN]

Answers(s) == phase[s] = "query" /\ phase'[s] = "idle" /\ answer'[s] # None

Shows(s, f) == \E hit \in answer'[s] : Family(hit[1]) = f

(* The candidate limit cut nothing off, in the vector store or in the      *)
(* fusion.                                                                 *)
RoomForAll(s) ==
  /\ ~crowded[s]
  /\ Cardinality(vhits[s] \union bhits[s]) <= CandidateLimit

(* What the employee may expect to find of family f. *)
Findable(s, f, d) ==
  /\ d # None
  /\ d \notin halfDeleted
  /\ InForce(d)
  /\ Readable(s, d)

(* An answer shows a family only as the source in force for it now, to the *)
(* audience it is meant for, and never mixes two generations or versions   *)
(* of it, although its hits come from indexes that also hold pending,      *)
(* rejected and superseded documents and what failed requests left there.  *)
AnswersAreGoverned ==
  [][\A s \in Searches : Answers(s) =>
       \A hit \in answer'[s] :
         /\ snap[hit[1]].source = Served[Family(hit[1])]
         /\ InForce(hit[1]) /\ Readable(s, hit[1])
         /\ \A other \in answer'[s] :
              Family(other[1]) = Family(hit[1]) => other[1] = hit[1]]_allVars

(* A policy that stays current through the whole search is found, whatever *)
(* uploads, failures, deletions and reviews of other documents happen      *)
(* meanwhile, as long as the candidate limit cuts nothing off.             *)
CurrentPolicyIsFound ==
  [][\A s \in Searches, f \in Families :
       /\ Answers(s)
       /\ RoomForAll(s)
       /\ current[f] = atStart[s][f]
       /\ Findable(s, f, current[f])
       => Shows(s, f) \/ Cardinality(answer'[s]) = VisibleLimit]_allVars

(* README.md:122 announces an uninterrupted reindex: a search that begins  *)
(* and ends while the same source is in force finds it.                    *)
ReindexIsUninterrupted ==
  [][\A s \in Searches, f \in Families :
       /\ Answers(s)
       /\ RoomForAll(s)
       /\ Findable(s, f, current[f])
       /\ Findable(s, f, atStart[s][f])
       /\ snap[current[f]].source = snap[atStart[s][f]].source
       => Shows(s, f) \/ Cardinality(answer'[s]) = VisibleLimit]_allVars

----------------------------------------------------------------------------
(* The inductive invariant of the searches, beside the one of the          *)
(* lifecycle they run in.                                                  *)

(* A search that is under way has not answered, and has hits only after    *)
(* the query was embedded.                                                 *)
AnswersCome ==
  \A s \in Searches :
    /\ phase[s] # "idle" => answer[s] = None
    /\ vhits[s] # None => phase[s] = "query"

(* A document that was current once never waits for a review or for its    *)
(* processing again, so that a pointer that left it does not come back.    *)
Settled(d) ==
  /\ status[d] \in {"ready", "deleted"}
  /\ status[d] = "ready" => review[d] = "approved"

StartIsSettled ==
  \A s \in Searches, f \in Families :
    atStart[s][f] # None => Settled(atStart[s][f])

(* Hits of a vector store that held no more than the candidate limit have  *)
(* all chunks of a document that was current all along.                    *)
HitsAreComplete ==
  \A s \in Searches, f \in Families :
    /\ vhits[s] # None
    /\ ~crowded[s]
    /\ current[f] = atStart[s][f]
    /\ current[f] \notin halfDeleted \union {None}
    => {current[f]} \X Chunks \subseteq vhits[s]

SearchIInv == SearchTypeOK /\ AnswersCome /\ StartIsSettled /\ HitsAreComplete
=============================================================================
