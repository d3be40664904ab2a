# TLA+ specifications of SmartCS

SmartCS answers employees' HR questions from governed policy documents, and
turns what it cannot answer into handoffs to HR staff. This directory holds
TLA+ models of its stateful parts, TLC configurations that check them on small
instances, and proofs, checked by TLAPS, that the main safety properties hold
for instances of any size. Paths below are relative to the repository.

## 1. How the program runs

One `uvicorn` process (Dockerfile, `docker-compose.yml` restarts it) serves
all tenants, with SQLite by default, a persistent Chroma vector store and BM25
indexes in memory. Three facts decide what can interleave with what:

* Handlers that are `async def` (documents, knowledge, the assistant) are
  coroutines of **one event loop**. They call synchronous code for everything
  but embeddings and model calls, so from one `await` to the next nothing else
  on the loop runs. Threads and crashes do.
* Handlers that are `def` (HR support, business drafts, registration) run on
  **pool threads** and interleave between any two SQL statements.
* The sessions do not flush on their own (`app/db.py:11`), a `SELECT` runs
  outside any transaction (the SQLite driver opens one at the first statement
  that writes), and the first write takes the one **write lock** of the
  database until commit or rollback. A statement that waits for the lock gives
  up after the busy timeout.

## 2. Inventory

| Component | State | Operations | Talks to |
|---|---|---|---|
| Document lifecycle (`services/document_service.py`, `document_storage.py`, `models/document.py`) | families with a `current_document_id`; documents with version, generation, status, quality, review; chunk rows; original files named by content | upload, process (parse, chunk, embed, index, publish), review, reindex, delete | embeddings, both indexes, SQL, files |
| Governed search (`core/agent/tools.py`) | none of its own; a snapshot of hits across awaits | `search_knowledge` | embeddings, both indexes (executor threads), SQL |
| Retrieval (`core/retrieval/`) | Chroma collections (persistent); per-tenant corpus, ids and BM25 object (memory, one lock) | add, update, remove, search, fuse | - |
| Startup (`main.py`) | none of its own | lifespan: seeds the tenant `demo` and its questions in an empty database, rebuilds BM25 from SQL | retrieval, SQL |
| HR support desk (`services/hr_support_service.py`, `api/hr_support.py`, `models/hr.py`) | drafts with a deadline, handoffs, audit rows with unique idempotency keys | create a draft, confirm, assign, resolve, list | SQL, the HR agent (drafts) |
| Rate limiter (`middleware/ratelimit.py`) | a token bucket per tenant, a count of checks | check, sweep | every tenant route |
| Business drafts (`services/business_service.py`, `models/crm.py`) | CRM rows, operation drafts, audit rows | create a draft, confirm, list | SQL, the business agent |
| Knowledge base (`services/knowledge_service.py`) | items in SQL, Chroma and BM25 | create, update, delete, import | retrieval, SQL |
| HR agent and assistant turn (`core/agent/hr_agent.py`, `services/assistant_service.py`, `api/assistant.py`) | messages of a bounded tool loop; conversations and message counts | run, persist a turn | model, search, HR desk |
| Business agent (`core/agent/business_agent.py`) | the same loop | run | model, business drafts |
| Parsing (`core/parsing/`) | none: functions from files to elements, quality and chunks | route, extract, rate, split | libraries |
| Authentication (`api/auth.py`, `api/admin/auth.py`, `api/deps.py`, `core/auth/`, `middleware/tenant.py`) | tenants, users, API keys, tokens | register, log in, refresh, admit a request | SQL |
| LLM client, embeddings (`core/llm/`, `core/embedding/`) | - | call with retries | external services |
| Chat graph and caches (`services/chat_service.py`, `core/cache/`, `core/agent/graph.py`) | L1/L2 caches | not mounted by `create_app` | - |
| Logging and error middleware; analytics; pages; configuration | - | read only or layout | - |
| Migrations, scripts | - | run by an operator | SQL, HTTP |

What is hard in these, and the property that makes each correct:

* **Lifecycle.** A request is suspended in the embedding call while others
  upload, review, reindex and delete; commits fail; the process dies between
  an index write and a commit. Correct means: what a family points at is
  approved, ready, active and indexed; it changes only by an approval or by a
  reindex of the same source; one generation is active at a time.
* **Search.** It takes candidates from indexes that also hold pending,
  rejected and superseded documents, and filters them later, after the loop
  may have run other requests. Correct means: it shows only what is in force,
  and finds what stays in force.
* **HR desk.** Threads confirm, expire, assign and resolve the same rows from
  objects they loaded before. Correct means: one handoff per draft, one answer
  for all its confirmations, an audit trail that ends where the handoff is.
* **Rate limiter.** Integer refills, refused requests and evictions must not
  create tokens or lose them for ever.
* **Knowledge base.** Row, vector and keyword entry of an item are written one
  after the other, each of the three can fail, and only the row is rolled back.
  Correct means: where no call was cut short the three agree, an update never
  makes an item unfindable, a deleted one does not come back, and operations
  carried out in every store leave rows the service can start with. Questions the
  first start seeds, changes of the status alone and calls that were cut short are
  outside of this: the code lets their stores differ.
* **Business drafts.** Two threads confirm from objects loaded before, with no
  conditional claim. Correct means: effect, draft and audit row go together, one
  key has one answer, overlapping updates of a lead merge.
* **Assistants.** The model may ask for any tool any number of times, tools fail,
  turns of one conversation overlap at every `await`, a draft is committed before
  the turn is. Correct means: what is answered was found for this user in this
  turn, an outage is never an answer, one draft at most and the user sees it, the
  conversation counts what it stores, and every turn ends.
* **Accounts.** Registrations race to the unique constraints with rows already
  flushed; tokens outlive the rows they were signed from. Correct means: one
  owner for each tenant but the one the first start creates, which has none for
  good, as registration refuses a slug that exists; one account per address; and
  a token opens on the assistant and admin paths what its user's row says now.
* **Parsing and chunking.** Boundaries of token budgets, pages and headings, and
  tables that two libraries both found. Correct means: nothing is lost or
  repeated but headers, budgets hold, pages and sections are right, and what
  passes the quality gate is whole.

`PROJECT.json` lists the hazards line by line with the properties that cover
them.

## 3. Modules

| Module | Models |
|---|---|
| `PolicyPublication` | abstract: which sources wait for review and which is in force |
| `DocumentLifecycle` | `document_service.py`, `document_storage.py`, startup; implements `PolicyPublication` |
| `GovernedSearch` | `search_knowledge` composed with `DocumentLifecycle` |
| `HandoffDesk` | `hr_support_service.py` |
| `RateLimiter` | `ratelimit.py` |
| `Bm25Index` | `bm25_index.py`: operators on the three maps of a tenant |
| `KnowledgeSync` | `knowledge_service.py` with `vector_store.py`, over `Bm25Index`; the start |
| `BusinessDrafts` | `business_service.py`, `api/business.py` |
| `AssistantTurn` | `hr_agent.py`, `business_agent.py`, `assistant_service.py`, `api/assistant.py` |
| `Accounts` | `api/auth.py`, `api/admin/auth.py`, `api/deps.py`, `core/auth/`, `middleware/tenant.py` |
| `StructuredChunks` | `structured_chunker.py`: operators on texts |
| `DocumentParsing` | `router.py`, `native_parser.py`, `docling_parser.py`, `quality.py`, `contracts.py`: operators on files |
| `Ingestion` | `_process_snapshot` up to the indexes, over the two |
| `*_proofs` | the theorems of a module and their proofs (section 5) |
| `MC*` | the small instances and, as `.cfg`, their configurations (section 4) |

Definitions called *Mutant* in the modules are versions of a definition with a
plausible mistake. No specification uses them; putting one in the place of its
original makes the property named in `PROJECT.json` fail, which shows that the
property depends on the code.

### DocumentLifecycle

One tenant. A step is one durable effect: a commit, a write of one chunk to an
index, a batch of best-effort deletions, a change to the originals.

| Model | Code |
|---|---|
| `snap`, `status`, `quality`, `review`, `chunks` | columns of `Document`; the status its `DocumentChunk` rows share |
| `families`, `current` | `DocumentFamily` and `current_document_id` |
| `originals`, `StoreOriginal`, `OriginalAvailable`, `DeleteOriginal` | the files of `document_storage.py`, named by content |
| `vec`, `bm25` | chunk ids in Chroma (survives a crash) and in BM25 (rebuilt) |
| `pc`, `work`, `prev` | where a request stands, its document, the one it replaces |
| `Upload`, `Reindex` | the handler up to `_process_snapshot` |
| `ParseFails` ... `Retire` | `_process_snapshot`, in order |
| `Approve`, `Reject` | `review_document` |
| `Delete`, `DeleteIndexed`, `DeleteRow` | `delete_document`: indexes, then row, then original |
| `CrashRestart` | the process dies; `lifespan` rebuilds BM25 |

`LoopFree` says that no other request holds the event loop: a request holds it
except in the label `embed`. An upload with `f` outside `families` creates a
family, one with `f` inside names an existing one, and the duplicate check
differs (`Importable`). `Source` stands for file, audience and dates together,
which is what the second check compares. `IsNext` is `max + 1` over the rows
that are left, so numbers are given out again after deletions, as in the code.
`Undo` removes an arbitrary part of what was written, since its deletions are
best effort. `abandoned` and `halfDeleted` are history: rows whose request was
cut short by a crash or a failing commit.

Left out: documents without a family (they predate governance), the checks
that the reviewer and the actor are active administrators, file size and
suffix, and error texts.

### GovernedSearch

A search goes through `embed` (awaiting the query vector) and `query` (two
executor threads read the indexes, even while another request holds the loop);
`Answer` fuses, filters by SQL and limits in one go once the loop is free. The
query is one that every chunk is near to (`MAX_VECTOR_DISTANCE`), BM25 scores
any subset of its chunks, and rankings are left open (`Best`). `SearchFails`
is the answer `UNAVAILABLE`. Knowledge items are left out.

### HandoffDesk

Each thread executes one SQL statement, or one commit with what precedes it
under the lock, per step. `seen` is the object the session loaded;
`CommitUpdate` writes the changed columns of the row by its id, whatever the
row is by then, as SQLAlchemy does. A transaction's writes appear at its
commit. The draft a handoff came from is not stored in its row; the field
`draft` of a row is history, as is `replies`.

### RateLimiter

The clock counts in ticks, `Minute` ticks to the minute; the refill is the
integer part of `elapsed * rpm / minute`. `Watch` starts a new window of
observation at any moment, so that `RateIsBounded` is about every window. The
middleware calls `check` from the event loop, so checks are atomic. A restart
forgets all buckets, which is the state `Init`.

### Bm25Index and KnowledgeSync

A text is the set of its tokens, which is all that the keyword index tells
apart. `Bm25Index` keeps the three maps of a tenant apart because `_rebuild`
assigns them one after the other and `BM25Okapi` raises, on a corpus without a
token, between the second and the third. `KnowledgeSync` runs `create`,
`update`, `delete` and `batch_import` one at a time (the handlers are `async`
and never await) but store by store: `WriteVector`, `RemoveBm25`, `AddBm25`,
`Commit`, each of which may fail in the way the code lets it (deleting a vector
swallows its error, the others raise and roll the row back). `Restart` is a
crash at any step with the rebuild of `lifespan` over the active rows in any
order; a build that raises leaves the program down (`up`). A tenant begins empty
or, as the one of the first start does, with questions from a file (`Seeds`,
`SeededRows`), which that start puts into SQL and BM25 and never into Chroma.
`parted` is history: the items whose stores were let go apart, by the seeding, by
a failure of a call or because only the status changed, which the code does not
forward to the stores.

### BusinessDrafts

As in `HandoffDesk`, one SQL statement per step and the write lock from the
first write to the commit. `Load` is the second read of the lead in `_execute`:
the session holds its objects weakly, so what `_check_command` read is gone.
`Column` is the UPDATE of SQLAlchemy: only columns that differ from the loaded
object are written. `Insert` meets the unique lead, `CommitRefused` the unique
key; `Replay` is what follows either.

### AssistantTurn

A turn is a record: round, calls left of the last reply, and the runtime of the
tools (`search`, `sources`, `draft`, ...). The model is arbitrary: it asks for
any tools, unknown ones included, or answers with any citations, or raises.
`Conclude` is the chain of early returns after each tool, `HrConclusion` the one
after a text, `RoundLimit` the end of the loop; the sales assistant goes
through the same loop with its own. Which tool a call names is chosen when it is
made, not when the reply arrives, which gives the same runs. A draft is one flag,
since what it contains is the subject of `HandoffDesk` and `BusinessDrafts`.

### Accounts

`Init` is what the first start leaves in an empty database: the tenant `Demo`
(`main.py:50-72`), without a user. `register` creates an owner only with a new
tenant, so this one never gets any; members come with an API key (`IssueKey`).
A request goes through its statements one by one; the owner's transaction holds
the write lock from the flush of the tenant to its commit. `AgentServes` and
`AdminServes` compose middleware, tenant lookup and token check as a request
meets them, and paths are sequences of segments, since a tenant called `admin`
has paths of two readings. Operators that act on the database directly
(`Deactivate`, `Demote`, `IssueKey`) are external: the code reads those columns
and never writes them. Tokens do not expire, which only adds behaviours.

### StructuredChunks, DocumentParsing, Ingestion

Functions of the code are operators, an exception is `None`. A text is a
sequence of characters with a tokenizer of the awkward kind: a character takes
any number of tokens up to the budget (`Width`), and a sequence of three
characters is a single token, so that a longer text may have fewer tokens than its
beginning, which `_split_text` does not expect. Some characters stand for special
tokens such as `<|endoftext|>` (`Special`): `encode` raises on a text that has one
(`Encodes`), before the text is split. A file is what the libraries report of it
(lines, children of a Word body, pages with blocks and tables, a Docling
result); `FilesAssumption` says what may be in such a report. `Ingestion` is the
sequence parse, assess, split of `_process_snapshot`; its outcomes are the ones
`DocumentLifecycle` chooses from.

A loop of the code is a recursive function from the number of rounds to the
variables after that many (`TextRead`, `DocxRead`, `PagesRead`, `Read`,
`PiecesRead`, `LinesRead`, `RowsRead`, `AddParts`, `ElementsRead`), its body an
operator from one state to the next (`TextLine`, `DocxChild`, `Item`,
`SplitOff`, `AddRow`, ...), which is what the proofs reason about. A loop that
ends early keeps its state for the rounds that are left: the number of rounds is
the length of the input, and each round that does something consumes some.

## 4. Runs

| Configuration | Checks | Bounds, and why they are enough |
|---|---|---|
| `MCLifecyclePublication` | `TypeOK`, `CurrentIsServable`, `OneActiveGeneration`, `SnapshotsAreDistinct`, `OriginalRetained`, `CurrentIsIndexed`, `PointerMoves`, `PublicationSpec` | 3 documents, 2 requests, 2 families, 2 sources that share a file and differ in their dates, 2 days, a crash anywhere: two reindexes race each other or a review while a third document holds the pointer; numbers are freed and given out again; versions are approved in either order. One chunk per document can be in one index and not the other; any number of chunks is left to the proof |
| `MCLifecycleLiveness` | `ProcessingHasWorker`, `ProcessingEnds` | 2 documents, 2 requests, failing commits, one crash |
| `MCGovernedSearch` | `AnswersAreGoverned`, `CurrentPolicyIsFound` | 2 documents, 2 requests, 1 search, 2 days, one crash; a candidate limit of 2, which hits from both indexes reach |
| `MCHandoffDesk` | `TypeOK`, `OneHandoffPerDraft`, `RepliesAgree`, `TrailIsCurrent`, `RequestsEnd` | 1 draft, 2 keys, 2 threads, 1 crash: a thread that stopped at any statement meets any number of later requests of the other; no symmetry, which liveness does not allow |
| `MCRateLimiter` | `TypeOK`, `RateIsBounded`, `RefusedAfterGrant` | 2 tenants, capacity 3, 4 ticks per minute (refills that do not divide evenly), sweep every second check, 8 ticks |
| `MCRateLimiterSweep` | `SweepEvicts` (violated) | 12 ticks, past the stale age |
| `MCKnowledgeSync` | `StoresAgree`, `UpdateKeepsFindable`, `HitsAreTrue`, `CleanIsStartable` | 2 items, contents with one token, another or none, a tenant with a seeded item or without, batches of 2; operations, failures and restarts are not bounded: two items suffice for a corpus where one item empties the index under the other |
| `MCKnowledgeRollback` | `SyncFailureIsUndone` (violated) | 2 items |
| `MCBusinessDrafts` | `EffectsAreAudited`, `RepliesAgree`, `UpdatesMerge` | 2 threads, 2 drafts, 2 keys, an admin and an agent, one lead, a command of each kind: the same draft under two keys, two drafts under one key, two updates of one lead; crashes are not bounded |
| `MCAssistantTurn` | `RepliesAreGrounded`, `DraftsAreOffered`, `ConversationIsWhole`, `TurnsEnd` | 2 turns of one user at a time, 2 sources, 2 tool calls per reply in up to 3 rounds: every pair of tools in one reply and across rounds; crashes are not bounded |
| `MCAccounts` | `OneOwnerPerTenant`, `AccountsAreDistinct`, `TokensFollowRows` | 2 requests, 3 slugs of which one is `admin` and one that of the seeded tenant, 2 addresses of which one has two spellings, 3 users: two owners, two members or one of each race for a slug or an address while a third account exists |
| `MCIngestion` | `SectionsAreAncestors`, `PassedIsWhole`, `TablesAreRecoveredOnce`, `ChunksFit`, `ChunksAreFaithful`, `SplittingFailsFor` | a budget of 8 tokens, characters of one, two and four and a special token; every Markdown file of 4 lines and Word body of 3 children of the kinds given, workbooks of 2 sheets, PDFs of 3 pages with up to 2 native tables and every Docling result of 3 items of 15 kinds: texts at, one over and far over the budget, rows and headers on either side of it, tables without a row or with an empty one only, tables that overlap, miss or share a native one, a box that is inverted |

`LastDay`, `MaxCrashes`, `LastTick`, `MaxBatch`, `MaxCalls`, `MaxTurns`,
`MaxUsers` and the sets of model values are the only bounds. `FailureVerdicts`
selects which quality verdicts may accompany a failing parse; since a failed row
is treated alike whatever the verdict, the runs use one of them,
`MCLifecyclePublication` none (the rows that fail in it are those whose
embeddings fail), and the proofs cover all.
Deadlock is not checked in two places: the lifecycle and search runs, where the
documents (model values standing for an endless supply of ids) and the days are
used up while the program would go on, and `MCIngestion`, where the processing
of a file simply ends. Symmetry is used only in runs without liveness.

The type invariants of the lifecycle, the desk and the limiter are part of their
runs. Those of the other modules (`TypeOK`, `SearchTypeOK`) and the inductive
invariants (`IInv`, `SearchIInv`) hold in the instances above when they are
added to the configuration; the runs leave them out in favour of properties
that say more. All of them are proved.

**Fairness.** `ProcessingEnds` assumes that a request holding the event loop
goes on (weak fairness of `Process` and `Remove`) and that a request whose
embedding call has returned gets the loop again (strong fairness, as it
competes with new requests and the loop serves callbacks in order; the call
itself has three bounded attempts). `RequestsEnd` assumes weak fairness of
each thread: a thread waiting for the write lock either gets it or times out,
so some step of it is always enabled. `TurnsEnd` assumes weak fairness of each
turn: the model call has a timeout (`agent_timeout_seconds`) and a tool answers
or raises, so every `await` ends. Nothing is assumed of users, of the model's
choices, the calendar or crashes.

### What the violated runs show

1. *Sweep without effect* (`MCRateLimiterSweep`). Stored tokens are below the
   capacity after every check, so `tok == self._rpm` is never true, against
   `ratelimit.py:24`.
2. *A failed sync is not undone* (`MCKnowledgeRollback`). When the keyword index
   raises, the row is rolled back and the vector is not, so the stores disagree,
   against `knowledge_service.py:6`.

### Further configurations

Five more configurations belong to properties the code does not have. They are
kept to be run by hand (`tlc -config <file> <module>`); TLC finds each violated.

| Configuration | Module | Property | What happens |
|---|---|---|---|
| `MCLifecycleHalfDeleted` | `MCDocumentLifecycle` | `ApprovedIsRetrievable` | `delete_document` empties the indexes before the commit that removes the row; when that commit fails, a pending row is intact and can be approved, and the family points at a document no search finds, against `README.md:8` |
| `MCGovernedSearchReindex` | `MCGovernedSearch` | `ReindexIsUninterrupted` | a search that read the old generation from the indexes and filters after the switch finds nothing, although the source is in force all the time, against `README.md:122` |
| `MCHandoffAssign` | `MCHandoffDesk` | `AssignedFromOpen` | the status is checked on the loaded object and written by id, so an assignment overwrites a resolution, against `hr_support_service.py:213` |
| `MCHandoffExpired` | `MCHandoffDesk` | `ExpiredHasNoHandoff` | the same pattern on a draft whose deadline passes between two confirmations; the state contradicts what `tests/test_hr_support_api.py:296` says of expired drafts |
| `MCBusinessTransfer` | `MCBusinessDrafts` | `TransfersAreAdmins` | the policy is checked on a lead that another confirmation changes before the write, so the draft of an agent moves a lead that an admin has given to somebody else, against `business_service.py:246` |

Two more observations need no run: a Word or Markdown file that skips a heading
level gets a section path with a sibling in it (`SectionsAreAncestors` excepts
such files), and a tenant called `admin` is served on its assistant paths only
while a tenant called `assistant` exists (`TokensFollowRows` states it so).

## 5. Proofs

Every safety property the passing runs check is a theorem of its specification.

| Module | Theorem | States |
|---|---|---|
| `DocumentLifecycle_proofs` | `TypeCorrect` | `TypeOK` |
| | `PointerIsServable`, `PointerIsIndexed` | `CurrentIsServable`, `CurrentIsIndexed` |
| | `GenerationsSwitch`, `NumbersIdentify` | `OneActiveGeneration`, `SnapshotsAreDistinct` |
| | `OriginalsStay`, `ProcessingIsWorkedOn` | `OriginalRetained`, `ProcessingHasWorker` |
| | `PointerDiscipline` | `PointerMoves`, of every step |
| | `ImplementsPublication` | `Spec => PublicationSpec`, a refinement |
| | `SearchesOnlyRead` | `SearchSpec => Spec`, a refinement: the lifecycle's theorems hold while employees search |
| | `GovernedAnswers`, `CurrentPolicyFound` | `AnswersAreGoverned`, `CurrentPolicyIsFound`, of every step |
| `HandoffDesk_proofs` | `TypeCorrect`, `DraftsConfirmOnce`, `RepliesTheorem`, `TrailTheorem` | `TypeOK`, `OneHandoffPerDraft`, `RepliesAgree`, `TrailIsCurrent` |
| `RateLimiter_proofs` | `TypeCorrect`, `RateTheorem`, `RefusalTheorem` | `TypeOK`, `RateIsBounded`, `RefusedAfterGrant` |
| `KnowledgeSync_proofs` | `TypeCorrect`, `AgreeingStores`, `FindableThroughout` | `TypeOK`, `StoresAgree`, `UpdateKeepsFindable` |
| | `TrueHits`, `StartableWhenClean` | `HitsAreTrue`, `CleanIsStartable` |
| `BusinessDrafts_proofs` | `TypeCorrect`, `AuditedEffects`, `AgreeingReplies` | `TypeOK`, `EffectsAreAudited`, `RepliesAgree` |
| | `MergedUpdates` | `UpdatesMerge`, of every step |
| `AssistantTurn_proofs` | `TypeCorrect`, `GroundedReplies`, `OfferedDrafts`, `WholeConversation` | `TypeOK`, `RepliesAreGrounded`, `DraftsAreOffered`, `ConversationIsWhole` |
| `Accounts_proofs` | `TypeCorrect`, `OneOwner`, `DistinctAccounts`, `TokensTheorem` | `TypeOK`, `OneOwnerPerTenant`, `AccountsAreDistinct`, `TokensFollowRows` |
| `Ingestion_proofs` | `TypeCorrect`, `PathsAreAncestors` | `TypeOK`, `SectionsAreAncestors` |
| | `PassedPdfsAreWhole`, `TablesStandInOnce` | `PassedIsWhole`, `TablesAreRecoveredOnce` |
| | `EveryChunkFits`, `ChunksHoldTheText`, `SplittingFailures` | `ChunksFit`, `ChunksAreFaithful`, `SplittingFailsFor` |

Each module has in addition a theorem (`Inductive`, `SearchInductive`;
`LedgerHolds` for the limiter, `IInvHolds` for the ingestion) that the inductive invariant
holds, with a lemma for each action or group of actions.

They hold for all values of the constants that satisfy the `ASSUME`s of the
modules. These say that bounds and dates are naturals, that what is counted is
finite (documents, knowledge items, turns), that files, dates, audiences and
roles are functions of the expected type, that `None` is none of the values
beside it, that what the libraries report of a file has the expected types, with
pages and the heading levels of Word and Markdown counted from 1
(`FilesAssumption`), that every character fits into the token budget
(`ChunkAssumption`; `MAX_TOKENS` is 800 and a character has at most as many
tokens as bytes) and the line feed is one token and no special one, that a seeded
corpus names an item once and has a word (`SeedAssumption`), and of the code only
this: a document has at least one chunk, and lowering an address twice is lowering
it once. The numbers of requests,
threads, searches, drafts, leads, slugs and keys are arbitrary.

*Lifecycle.* None of the properties is inductive: that a reindex publishes the
same source needs to know what its request relied on before the `await`.
`IInv` adds it. `OneHolder` (one request holds the loop) and `OneWorker` make
steps of different requests independent. `WorkInHand` says what each label
implies of the row: while `embed` the row may disappear, afterwards not, and at
`publish` both indexes are complete. `Lineage` is the heart: the rebuilt row
carries the version and source of the row it replaces and a later generation,
and an upload is alone in its version. `RowsConsistent` says that active
chunks belong to ready rows that passed, and that only first generations are
reviewed. `ActiveIsIndexed` gives `CurrentIsIndexed`. The refinement maps the
rows pending review to `proposed` and the source of the current row to
`served`; each step is a proposal, a withdrawal, an approval or a stutter.

*Desk.* `LockProtects` (between first write and commit a thread holds the
lock) makes the claim exclusive, `RequestInHand` carries "the draft is still
pending" from the claim to the commit, and `DraftSettled` ties draft, handoff
and audit row together, so that all replies are audit rows.

*Limiter.* `Ledger` counts, per window, tokens granted and tokens left against
capacity and the refill up to the last refill time; the nonlinear part (integer
division) is confined to two lemmas.

*Searches.* A search takes its hits from indexes that change under it and
filters them later, so neither property follows from the state it starts in.
`HitsAreComplete` records that a vector store below the candidate limit gave
all chunks of a document that has been current since; it is inductive only
because a pointer that left a document never returns to it. That is
`StartIsSettled`: what was current once is deleted or approved and ready for
good, and `PointerMoves` admits only what is pending or being processed.
`GovernedAnswers` then uses `CurrentIsServable` of the lifecycle: what passes
the filter is the pointer of its family, and there is one.

*Knowledge.* `StoresAgree` says nothing of the item an operation is working
on. `StoresFollow` does: for each step, which stores already have the new
content. `OperationFits` says which operations reach that step (a create on a
free id, an update on a row, no delete at `embed` or `bm25 add`), which is
where `used` and `NewIdsAreFree` are needed. Seeded items count as parted from the
start (`InitGood`). `MapsAgree` ties the three maps of
the keyword index together and says that, as long as nothing was cut short, the
corpus is empty or has a token; that is `CleanIsStartable`, by way of the
agreement of rows and corpus. The lemmas before it (`PositionOfHeld`, `TextAt`,
`Additions`, `Removals`, `Rebuilds`) state what `Bm25Index` does to a corpus of any
length: an addition or a removal changes the text of its id and of no other.

*Sales drafts.* `InHand` carries what a confirmation checked from statement to
statement: from the flush of a new lead or task to the commit the thread has
the lock, so that the lead is still missing; an update has a lead that is
there, since leads are never deleted.
`EffectsAreAudited` is inductive with it and with `KeysAreUnique`, which the
unique index on the key gives at commit. `UpdatesMerge` follows for each commit
from `Column`: what differs from the loaded object is what the draft asks for.

*Assistant turns.* `LoopIsOpen` says what a turn that is still in its loop can
know. With the employee assistant that is no draft, no clarification and no
failed search, since each of these ends the loop, so sources always come from
a search that found some; the sales assistant has committed the draft it holds.
`ReplyIsFinal` is the property once the turn has replied. `ConversationCounts`
sharpens `ConversationIsWhole` by the turns that are stored and not yet
answered, which makes room for the answers to come.

*Accounts.* `LockIsOwners`: the write lock is held exactly by an owner whose
tenant is flushed and not committed, so that its slug is still free when it
commits. `RowsBelong` has the owner's row appear with its tenant, the seeded
tenant there from the start and without an owner, addresses in lower case and one
per tenant. `ClaimsName` is why
old tokens are harmless: users never move, so a claim and a row read earlier
name the right tenant; the rest is the case analysis of `AgentServes` and
`AdminServes` over the paths of the middleware, a tenant called `admin`
included.

*Ingestion.* Its invariant is short (`IInv`: the document is what the parser
made of the file, the quality what the assessment made of the document, the
chunks what the chunker made of its elements); the work is in the functions.
The prover has no induction over data, so each loop is treated in two steps:
that the recursive function exists and runs round by round (`LoopRuns`, and a
lemma `...Runs` for each loop), and that a set which the loop enters and does
not leave holds the state after the last round (`SetInduction`, `LoopKeeps`).
What the states of a loop have in common is then a definition of its own:

* `Sections` and `Sectioned` say of the section path kept by a parser that its
  entries are the headings above, level by level; with `NoLevelIsSkipped` that
  is `SectionsAreAncestors`.
* `Whole` is the account of tables in the loop over Docling's items: as long as
  nothing was given up there is one element for each table item, and a text
  stands among the recovered elements and the unmatched native tables together
  at most as often as in the PDF, since a match takes its table off the list.
  With what the quality gate asks for, this is `PassedIsWhole` and
  `TablesAreRecoveredOnce`.
* `PieceEndIs` covers the windows and the bisection of `_split_text`:
  the piece ends after it begins and within the budget, or not even its first
  character fits. That tokens are not monotonic does no harm, since every end
  that is kept has been counted. `PiecesAre` follows, and for tables
  `TokensOfLines`: tokens add up across a line feed, so a row split to the
  budget that the header leaves fits under it. This gives `ChunksFit`. A raise
  comes from a special token, which is found before anything is split, or from a
  piece whose first character does not fit: with the whole budget there is none,
  so it is one of a table's row under its header (`AddRowRaises`,
  `RowsReadRaises`), which is `SplittingFailsFor`.
* `ChunksAreFaithful` is an account of letters. `PartsTell`: the parts of an
  element, without the header where it is repeated, tell what the element does,
  which for tables rests on what lines and rows tell (`RowChunksTold`,
  `TableTold`). `MergeAdds`, `AppendAdds`: a chunk added or merged adds its own
  text and source. `Faithful` carries the account, the list of sources and the
  pages through the two loops of `chunk_document`; pages need the clause that a
  chunk begins where one of its elements does, since the code takes the first
  known page and the last known end.

The theorems hold for all files and budgets, but for the tokenizer of
`StructuredChunks`: of the real one nothing is known beyond its interface.

Model-checked only: the liveness properties (`ProcessingEnds`, `RequestsEnd`,
`TurnsEnd`), since fairness and `ENABLED` are beyond the prover.

## 6. Not modelled

| Part | Why |
|---|---|
| `core/parsing/chunker.py`, `parser.py` | superseded by the structured chunker and parsers; the ingestion does not call them |
| chat graph and answer caches (`services/chat_service.py`, `api/chat.py`, `core/agent/graph.py`, `core/cache/`) | `create_app` does not mount the router, so no request reaches them |
| `core/llm/` | no module of the running application calls its client; prompts are text. A model call is `ModelCalls`, `ModelReplies` or `ModelFails` |
| embedding providers | external services behind one await: `EmbedDone`, `EmbedFails`, `Embed` |
| branch for knowledge items in `search_knowledge` | filters rows by status and role, without pointer or dates; the races of the document branch do not arise |
| ranking and fusion scores | rankings are left open: any order within the limit |
| logging and error middleware, analytics, pages, configuration | layout, read-only queries, static values |
| migrations | DDL run once by an operator; a crash between its statements is a listed hazard |
| `scripts/` | offline benchmarks, evaluation, a demo driver |
| documents without a family, categories of knowledge items | rows no operation of the models depends on |

## 7. Plan

Every component of section 2 with state of its own, and the parsers and the
chunker, are modelled, checked and proved. Open: an abstract specification of
the confirmation of a draft, which `HandoffDesk` and `BusinessDrafts` both
implement, in the way `DocumentLifecycle` implements `PolicyPublication`; and
chunking theorems that take the tokenizer as a parameter, with what they need of
it as an assumption (no tokens in the empty text, some in every other, none
across a line feed, no more than the budget for a character).
