# A TLA+ model of LadyM

LadyM is a memory server for agents: it records events as *episodes*, consolidates them into *facts*, keeps
procedures, code knowledge, resources and predictions beside them, and finds them again by vector similarity and
by a graph of edges. It is one Go program with several faces (CLI, HTTP, MCP) over one SQLite or Postgres
database. Nearly everything it does is a sequence of single SQL statements: there are few transactions, few
locks, and several processes over one file. The properties here are therefore about what lies *between* the
statements: what a second goroutine, a second process, a failure or a restart finds there.

Paths and line numbers below are relative to the repository root.

## 1. The system

| component | state | operations | talks to |
|---|---|---|---|
| SQLite store (`storage/store_sqlite.go`, `vector_index.go`) | table `memories` with an `embedding` column, edges, code tables, meta, users; per process a vector index, `indexWarm`, `indexMu`, a pool of one connection | PutMemory, UpdateMemoryContent, DeleteMemory, bulk deletions, VectorSearch (warms the index), PutEdge, PutCodeRefs, index_state | everything above it |
| Postgres store (`store_postgres.go`) | the same tables over pgvector, no in-process index | the same interface; advisory worker lock | the same |
| Consolidation (`operations/consolidate.go`, `supersedes.go`) | none of its own; stamps in episode metadata, `superseded_by`/`superseded` in facts, `supersedes` and `produced_from` edges | Consolidate, Retire, LatestInChain | store, embedder, optional LLM |
| System 2 worker (`engine/engine.go`, `cli/worker.go`, `operations/system2.go`, `storage/index_lock*.go`) | the worker lock (flock or advisory), `consecutiveErrs`, stop channel | StartSystem2, `ladym worker [--once]`, RunSystem2Cycle | consolidation, L3, L5, L6, decay, L4 |
| Code indexer (`code/`) | `code_file`/`code_symbol` memories, `code_symbols`, `code_refs`, `index_state`, index lock | Index, projectCodeRefs | store, embedder, files |
| Embedding space (`engine.New`) | `meta.embedding_dim`, `meta.embedding_tokenizer` | enforceEmbeddingDim, enforceEmbeddingTokenizer, reembedAll | store, embedder |
| Resource registry (`operations/resource.go`, `engine/scope.go`, `engine/ops_recall.go`, `operations/maintain.go`) | resources (L2) with aliases, `operates_on` edges | ResolveResource, RecordOperation, RecallOperations, mergeAliases | store, embedder, LLM |
| L4 maintenance (`operations/maintain.go`) | edges, action classes | sweep, backfill, linking, merge | store, LLM |
| L3, L5, L6 (`proceduralize.go`, `l5.go`, `l6.go`) | playbooks, mental models, intents; the L6 watermark in `meta` | one pass each per cycle | store, embedder, LLM |
| Decay (`operations/decay.go`) | last access times | deletes old episodes | store |
| Scopes, attention gate, working memory (`engine/scope.go`, `operations/attention.go`, `layers/working.go`) | a bounded in-process list of notes per workspace | Scope, Gate, Remember, Push, SetWorkspace | store |
| Recall (`operations/recall.go`, `activation.go`) | none | tiers, expansion, scoring | store |
| HTTP API and accounts (`api/api.go`, `api/crud.go`, `cli/user.go`) | rows, users; per request the forced workspace | authentication, writes, forget/link, memory and user administration | engine, store, embedder |
| MCP server (`mcp/server.go`) | the default workspace of its engine | the same operations as tools, one after the other | engine |
| Configuration (`config/`) | none; files, environment, flags | Load | every command |
| CJK dictionary (`storage/cjk_dict.go`) | a directory shared by processes; per process a segmenter and what it remembers of the manifest | download, remove, probe, load | hashing provider |
| Secrets (`secrets/secrets.go`) | `master.key`, `secrets.enc` | Set, Remove, SetMasterKey, ResetMasterKey | command line, providers |
| Init, hooks, CLI, client libraries, console, evaluation | files | parse, install, delegate | engine |

Components meet in three ways: by calls through `Engine`; through rows and edges that one writes and another reads
back later, often as a *whole row* it had read earlier; and through two file or session locks (`<db>.worker.lock`,
`<db>.index.lock`). There is no event bus and no transaction that spans two statements, except `PutCodeRefs` and
the code clean-up.

What is hard, by component, is listed line by line in `PROJECT.json` under `hazards`. In short:

* **Store.** Row and index entry are two steps under different locks; a warm reads all rows at once and applies them
  later; it can fail half way; other processes are never heard of.
* **Consolidation.** Up to eight statements per episode, any of which may be the last; retries must recognise their
  own work; rows are written back as they were read; the index still knows what has been retired.
* **Worker.** Mutual exclusion of replicas with crashes and lost sessions; stop requests against a running cycle;
  counters of consecutive failures.
* **Indexer.** Delete-then-write of a file's artifacts with the hash written last, over files that change.
* **Embedding space.** A re-embedding is one write per memory and may stop at any of them.
* **Registry.** Read-modify-write of whole rows by calls and merge passes that nobody serialises.
* **Row edits, accounts.** The same on a single row, with derived columns (hash, embedding), or an account.
* **Postgres.** No transaction either; a pool of connections of which advisory locks keep some; a dimension that is
  recorded twice; replicas that open a fresh database together.
* **Passes (L3 to L6, decay, upkeep).** Listings that age while the pass writes row by row; passes killed between a
  write and the one that makes it count; watermarks and batches that must not pass anything over.
* **Recall.** A dozen reads, with writers in between.
* **Requests.** The workspace of a request is settled at one moment and used at another; a row that was checked may
  be gone, the account changed, MCP's default retargeted.
* **Files.** Secrets and dictionaries are several files replaced one by one; configuration is read from several
  files with two spellings, and applied in the order of a Go map.

## 2. The modules

| module | models | checked by | proved in |
|---|---|---|---|
| `VectorStore` | what a Store promises a process that writes and searches (abstract) | `MCStores`, through `SQLiteStore` | |
| `SQLiteStore` | the embedding column and each process's index | `MCStores`, `MCProgress` | `StoreProofs` |
| `VectorIndex` | the slices and the map of the in-memory index | `MCStores` | `StoreProofs` |
| `PostgresOpen` | schema set-up and the dimension over Postgres | `MCStores` | `OpeningProofs` |
| `PostgresCalls` | pool, advisory locks, the code tables of a file | `MCProgress` | `PostgresCallsProofs` |
| `EmbeddingSpace` | `engine.New`'s two checks | `MCStores` | `OpeningProofs` |
| `ConfigLoad` | sources and precedence of settings | `MCStores`, itself | `OpeningProofs` |
| `CjkDictionary` | the dictionary's directory and those who load it | `MCStores` | `OpeningProofs` |
| `SecretStore` | master key and entries, file by file | `MCStores` | `OpeningProofs` |
| `Knowledge` | what consolidation promises those who record (abstract) | `MCConsolidation`, through `Consolidation` | |
| `Consolidation` | passes, retirement, stamps | `MCConsolidation` | `ConsolidationProofs` |
| `LeaderLock` | what the process locks of the Store promise (abstract) | `MCSystem2Worker`, through `System2Worker` | |
| `System2Worker` | replicas and the worker lock | `MCSystem2Worker` | `System2WorkerProofs` |
| `Maintenance` | decay, backfill of action classes, episode linking | `MCProgress` | `PostgresCallsProofs` (types) |
| `Playbooks` | L3 | `MCOperations` | `LayersProofs` |
| `MentalModels` | L5: extraction and merge | `MCOperations` | `LayersProofs` |
| `ForwardIntents` | L6: window, predictions, watermark | `MCOperations` | `LayersProofs` |
| `CodeIndex` | index passes over a project | `MCCodeIndex` | `CodeIndexProofs` |
| `Registry` | what the registry of resources promises those who name things (abstract) | `MCOperations`, through `ResourceRegistry` | |
| `ResourceRegistry` | resolution, linking, merging, reading | `MCOperations`, `MCResourceRegistry` | `LayersProofs` |
| `Recall` | both tiers of a recall | `MCOperations` | `RequestProofs` |
| `Remember` | scopes, the gate, working notes | `MCOperations`, itself | `RequestProofs` |
| `MemoryRow` | edits, stamps and deletion of a row | `MCOperations` | `RequestProofs` |
| `UserAccounts` | accounts over HTTP and the command line | `MCOperations` | `RequestProofs` |
| `FrontEnds` | HTTP and MCP requests and their workspaces | `MCOperations` | `RequestProofs` |

`MCStores`, `MCProgress` and `MCOperations` each check several modules side by side. These share no state as they are
modelled (each sees of the others only what its own actions allow any of them to do to its state), so a variable
`part` says whose behaviour it is, and the state spaces are added and not multiplied. What is composed is composed
inside a module: the worker with its lock, the registry's calls with the merge pass, edits with the stamps of
consolidation, upkeep with those who record, recall and forget, the two front ends over one database.

Definitions keep the source's names where they can. A variable commented *history* is not in the code; it records
what a property needs to remember. Guards read one only where a bound or a stated assumption is meant. A definition
whose name begins with `Mut` is a deliberate mistake, next to what it mistakes; it is used by nothing and shows that
a property can tell the code from a plausible bug.

### VectorStore

The half of `storage.Store` that keeps vectors, as one who uses it may think of it: rows, and for every process what a
search of it finds. A write sets rows at once; between its beginning and its return the process may find the old or
the new vector; from then on it finds what it wrote (`Promise`); a restart finds all there is; of the writes of
others nothing is promised before that. `SQLiteStore` implements it through the refinement mapping at its end: an id
is found when its row or, where the index is warm, its entry says so, and the open ids of a process are those of its
unfinished calls.

### SQLiteStore

A row is its embedding column: a vector, a vector of another dimension, NULL, or no row. A thread is a goroutine
serving a request; `pc` says where it stands: after the SQL statement and before the index mutation (`upsert`,
`delete`), between the two statements of the file clean-up (`files`), or in one of the stages of
VectorSearch: before the look at `indexWarm` (`ensure`), holding `indexMu` for writing (`select`, `fill`), or about
to search. `IndexMuFree` and `ConnFree` are the two resources: the write half of `indexMu`, and the pool's one
connection, which the rows of a warm hold. `Reopen` ends a process anywhere and starts it with an empty, cold index.

`BulkDelete` (by type and source, by symbol) does not touch the index, so it hands the id to nobody: what is left
in the index are ghosts, which searches return and callers skip because GetMemory finds no row.

`wrote` is the process that last set or deleted an id's embedding and has made, or owes, the index mutation. All
properties are about a process and the ids *it* wrote last. About others the code promises nothing.

`Overlap = FALSE` says that two calls of one process are not about one id at the same time. Without it a
PutMemory and a DeleteMemory can execute their statements in one order and their index mutations in the other, and
`IndexFollowsOwnWrites` fails: nothing in the code orders them. The properties are stated under that
assumption because ids are fresh UUIDs and the only writers of an existing id are edits and passes.

### VectorIndex

`ids`, `mat` and `idToIdx` of InMemoryVectorIndex with Upsert and the deletion that moves the last slot into the hole.
`latest` (history) is what the calls amount to.

### PostgresOpen and PostgresCalls

`PostgresOpen` is engine.New over Postgres: the connection hook and the schema, each under the session's advisory
lock, a `CREATE .. IF NOT EXISTS` as the two steps it is in Postgres, and enforceEmbeddingDim with the column's
dimension beside the one in `meta`. A rebuild of the column may fail at any time, which is a warning only: with memories
there are to re-embed the open goes on to fail at the first of them, without any it goes on to record the dimension
(`pgUnbuilt`, history). Processes are configured alike while any of them is open; they are killed anywhere.
`PgLapse = FALSE` says that an open that was cut short is tried again with the same dimension.

`PostgresCalls` is the pool: a statement takes a connection and gives it back, tryAdvisoryLock keeps its own until the
release, and the calls under the lock need a second one. The data are a file's code tables: symbols' memories,
their projections, references by name. A pass deletes references, symbols, memories, and writes them anew, each in a
statement that may fail; a process may crash at any point.

### Knowledge

What somebody who records episodes may think consolidation does: what was said waits; it becomes a fact under a new id
(`Learn`), or turns out to be known (`Settle`); a fact goes out of use (`Retire`), without a classifier only when a
later one is on record; what a client forgot does not come back into use. Two things are promised weakly, because
the code does no better: a pass that had read a fact may write it back after it was forgotten, out of use
(`Resurface`), and the revision of a retired fact is born retired (`Learn`'s second disjunct). Nothing is said of
passes, statements, edges, vectors and stamps. `Consolidation` implements it under the mapping at its end: the
pending episodes are what waits, the rows of kind fact are the facts, the unmarked ones are in use, and the ids below
the next free one are used.

### Consolidation

One consolidator is one process with one index. A pass selects the pending episodes (`Begin`), takes them in order
(`Classify`: search, verdict), and writes: fact, then for UPDATE and DELETE the retirement of the target (its edges
read, closed one by one, the `supersedes` edge, the row), the provenance edge, the stamp. Each write is an action;
`Abort` and `Restart` end the pass between any two; `EdgeError` ends it where a foreign key is missing because a
client has forgotten the memory. `target` and `ep` hold *rows as they were read*, because that is what is written
back. `Record` and `Forget` are other clients.

Similarity is a choice: `Tops` lets any fact be the top hit except that a fact with the very content always is when
it is among the hits; `Similar` lets the fact be missing among the hits when more than `TopK` memories may have the
same content. `LLM` says whether a classifier answers (any verdict, any text) or the offline rule does.

### LeaderLock

TryAcquireWorkerLock and TryAcquireIndexLock as those who call them understand them: who is told that the lock is his
is inside alone, until he leaves or his process dies, which gives back *his* lock and nobody else's. A session of
Postgres may end before the work does; from then on the lock has lapsed: it still goes to one at a time, but says
nothing of the work begun under it. `System2Worker` implements it with `inside` the replicas in a cycle and `lapsed`
the lost sessions, `CodeIndex` with `inside` the passes under way and no lapse, since its lock is the flock.

### System2Worker

Services (StartSystem2), loops (`ladym worker`) and once-workers (`--once`) over one lock. `pc` goes through
`check` (the non-blocking look at the stop channel), `lock`, the steps of RunSystem2Cycle in their order, `ran` or
`failed`, `wait`. `Crash` releases the lock with the process; `SessionLost` releases it under a running cycle, which
only an advisory lock can do (`MaxLosses = 0` is flock). `FlockFails` is what flockPath makes of any errno: "held".

### CodeIndex

A file is its version: its hash, its symbols, the calls among them. A pass is a record: the queue, the file in hand,
the version as it was *read*, and the point between two statements. `Edit` changes files under a pass; `Abort` ends
it anywhere; `force` ignores hashes. `Readings` is the map from qualified names that projectCodeRefs builds, where
of two memories of one name the last one counts; `Projected` are the edges it writes, some of which may fail without
failing the pass.

### EmbeddingSpace

A vector is the configuration that made it. An engine goes `closed`, `dim`, (`embed_dim`), `tokenizer`,
(`embed_tokenizer`), `open`; `EmbedOne` is one write of reembedAll and `Close` may come anywhere. `Resume` says that
a re-embedding that was cut short is finished by the next open (the operator does not change the configuration back).

### ResourceRegistry

`res` are rows, with ids in the order of creation; `Matches` are the rows that have a name (retired ones too),
`Foremost` those of which the exact look-up may take one. It takes the first row IterMemories returns, and no statement
asks for an order: SQLite scans by rowid, which an upsert keeps, so that is the oldest (`InOrder`); Postgres moves a row
that is written again, so there it is any of them. `Hits` is the vector look-up of a process's own index, filtered by
pairs of names that are near enough for writing, reading or merging. A call goes Resolve, (Search, Grow or Create),
Record, Link. `work` is a merge pass: the live rows as it read them, the pair in hand, and where it stands between its
statements. The LLM's confirmation is a choice. `Overlap = FALSE` lets calls and passes follow each other only.

### Registry

What somebody who speaks of things by name may think the registry does: a name is met once and leads to one entity
from then on (`Meet`); what is recorded under a name is shown by that entity at once (`File`); two entities turn out
to be one, and the names of the younger lead to the older (`Join`), which shows an operation before the younger ceases
to (`Move`) and in the end everything its names were used for (`Joined`). A joining may be cut short (`Tear`). From
then on a later joining may find some names gone elsewhere, and an operation may stay with an entity its name no
longer leads to; but a name still only moves to an older entity, the one that is joined, and no operation is lost:
`shown` gives up an entry for another one only. Nothing is said of aliases, vectors, thresholds, rows and how the
entities to be joined are found. `ResourceRegistry` implements it under the mapping at its end: a name leads to the first
row that has it, retired or not, `shown` are the valid edges, and the pair in hand is being joined from Absorb until
the loser is marked.

### Maintenance

Decay and MaintainL4 as a cycle runs them: each lists the episodes once and then writes row by row, while episodes
come, are accessed, linked and forgotten. The backfill takes a batch of those without a class, skips the ones with
resource edges, stamps what the vocabulary or the classifier knows; linking asks about a bounded number of pairs. A
failure ends the cycle at any write, and the next one begins again.

### Playbooks, MentalModels, ForwardIntents

The three passes above the facts. `Playbooks`: clusters of similar episodes around the oldest, the verdict against the
live playbooks with similar texts, the new version stored before the old one is retired. A cluster makes a text
(`Tells`) and texts are alike or not (`StoriesAlike`), whatever episodes they come from: two clusters may make one text,
and in the run two do. `MentalModels`: any partition of the uncovered members may be the clusters; a model, then its
`abstracts` edges one by one; every `MergeEvery` passes similar models are merged into a new one, the old ones retired
edge by edge (the closed ones, the one to the new model, then the row), then the edges written; the LLM may fail to
answer. `ForwardIntents`: expiry, the window of episodes newer than the watermark, predictions stored one by one, the
watermark. An episode is created, embedded and stored at different times, which is what makes it *late*.

### Recall

Search, the rows of the hits, the ranking (any choice of the candidates), and when they do not suffice the expansion,
anchor by anchor, node by node with its depth and the `seen` set shared by all; superseded memories lead to their
newest version, symbols to their file. Between any two reads memories are forgotten, linked by callers with any
relation, and retired (`disturbed`). A Retire is a statement at a time (the edges read, closed, the `supersedes` edge, the
row) and may stop at any, so recalls meet memories that name a newer version and are not marked.

### Remember

A thread takes a scope (workspace and buffer, `LoadOrStore`), asks the gate, and writes or drops, or records an event
without asking; SetWorkspace retargets the engine under it and replaces its buffer. What is stored of an event is a
sentence made of it (`Sentence`), and the gate compares what it is told with the stored sentences: a client's words
equal one only when they are such a sentence themselves, or when an edit has put those words in its place (`Reword`).
`verdict` remembers whether the event that made a duplicate was of the scope's own workspace.

### MemoryRow

One row with its content, hash and embedding, an editor that has read it, a stamp that has read it. An edit that
keeps the content read writes that content without hash and embedding; a stamp writes the whole row.

### UserAccounts

A clerk is a request, authenticated or of a server with authentication disabled, or a command: reading an account, then
writing it whole, where any statement may fail. `meant` adds up
the changes field by field in the order they are written; `crossed` are accounts of which two changes overlapped.

### FrontEnds

A request stands at its route, at writing rows, or at the check of the ids it names. `forced` is the workspace withAuth
puts on it, from a row of the account that is read once. Scope settles the workspace of a write; EnforceMemoryWorkspace
looks at the ids one after the other, and the act comes after the last look. MCP's calls go one after the other over
an engine whose default two of the tools set. `asked` (history) is where the caller was told the request would act.

### ConfigLoad, SecretStore, CjkDictionary

`ConfigLoad` has one setting of each kind, a text and a validated number, each with a flat and a nested spelling; a
value is the rank of the source it came from, and ApplyKey takes the keys of the merged table in any order, as Go's
`range` does. `SecretStore` is the calls of the command line over `master.key` and `secrets.enc`: read, open and thereby
empty the temporary file (of a fixed name, so calls share it), fill it, rename it. `fd` is the file a call has opened,
wherever others have moved it since; `Over` is what is left when one list of entries is written over another: entries of
either, and cut ones (`Torn`). `CjkDictionary` is download, removal and load over one directory, file by file, with the
manifest's time as what a process remembers.

## 3. The runs

| run | bounds | properties | result |
|---|---|---|---|
| `stores` | store: 2 processes, 3 goroutines (2 in one process), 1 id, 2 vectors and a bad one; embeddings: 6 configurations (2 dimensions, 2 tokenizers or hosted), 3 memories, 1 engine at a time; Postgres: 2 engines, 2 dimensions, 1 memory; configuration: 2 files, environment, flags; dictionary: 2 processes, 3 variants, 2 downloads or removals; secrets: 2 processes, 1 entry, 2 keys; index: 4 ids, 2 vectors | TypesOK, IndexFollowsOwnWrites, ImplementsVectorStore, OneSpace, SetupNeverRaces, WritesFit, NumbersFollowPrecedence, SegmenterIsRight, SecretsOpen, IndexIsTheMap | hold |
| `progress` | SQLite: 2 goroutines, 1 id; Postgres: 2 goroutines, 3 connections, 1 symbol; upkeep: 3 episodes, batches of 2, 1 question | TypesOK, RefsAreFound, EveryCallReturns, KnownAreClassed | hold |
| `operations` | row: 2 editors, 1 stamp, 3 contents; accounts: 2 clerks, 2 accounts; recall: 4 memories, up to 2 edges to begin with, 2 hops, 2 hits, 1 write or retirement; remember: 2 threads, 2 workspaces, 1 text and its sentence, 1 note kept; L5: 3 members, 3 models; L6: 3 episodes, 1 shown at a time; L3: 3 episodes of 2 steps, 3 playbooks, texts alike that share a step; registry: 2 processes, 3 names, 3 resources, 3 operations, 2 failures, rows in order; requests: 2 over HTTP and MCP, 2 workspaces, 2 rows | TypesOK, VectorFollowsContent, EditsSurvive, ChangesAddUp, GraphIsFollowed, NotesAreShared, OneModelPerMember, MergeLosesNobody, NoneSkipped, HabitsHavePlaybooks, NamesLeadToOperations, ImplementsRegistry, ActsWhereAsked | hold |
| `consolidation_offline` | 1 consolidator, 3 episodes over 2 contents, 7 ids, 1 forgotten memory, 1 failure | StampedIsLearned, OneFindableFact, SupersededIsRetired, ForgottenStaysDead, ImplementsKnowledge, BacklogDrains | hold |
| `consolidation_llm` | 2 consolidators under the lock, 2 episodes, 6 ids, 1 forgotten, 1 failure, classifier | SingleSuccessor | holds |
| `consolidation_chain` | 3 episodes, no failure, offline | NewestIsReached | **violated** |
| `worker_replicas` | a service, a loop, a once-worker; 2 failures, 1 crash, 1 lost session, limit 2 | CyclesExclude, ImplementsLeaderLock, StopTakesEffect, SurvivorsConsolidate | hold |
| `index_project` | 2 indexers, 2 files, 2 versions, 2 symbols, 1 failure | ReportIsTrue, CallsAreEdges | hold |
| `index_shared` | 2 projects with one path, 1 indexer, no failure | ReportIsTrue | **violated** |
| `registry_lost` | 2 names, 3 operations, no failure, overlapping | OperationsLinked | **violated** |
| `gate_workspace` | 2 threads, 2 workspaces, 1 text and its sentence | DropsAreOfTheWorkspace | **violated** |
| `config_sources` | 2 files, environment, flags | SettingsFollowPrecedence | **violated** |

Some properties are conjunctions of two that a reader should know by name: `IndexFollowsOwnWrites` (`OwnWritesWin`,
`DeletedStaysGone`), `OneSpace` (`OneDim`, `OneTokenizer`), `OneFindableFact` (`NoDuplicateLive`, `LiveIsFindable`),
`NamesLeadToOperations` (`OneEntityPerName`, `OperationsReachable`), `SegmenterIsRight` (`NeverBroken`,
`SwitchesAreNoticed`), `EveryCallReturns` (one for each store). `TypesOK` is every part's type invariant.

Why the bounds are enough. *Store*: ids do not interact (each action changes each id by itself, a warm takes all or
some), so one id shows every interleaving of one; two vectors tell a fresh one from a stale one; three goroutines
give a warm beside a write in one process and a foreign write in another. The proofs remove the bounds.
*Index*: a hole that is neither the last slot nor its neighbour needs three ids, and an id to come back the fourth.
*Postgres*: a race needs two processes, exclusion of locks two holders and a pool with one connection more than
locks; a reference needs a symbol, which may call itself. *Embedding*: a re-embedding stopped half way needs two
memories, and a third is neither the first nor the last. *Configuration*: two files can disagree, environment and
flags are above both. *Secrets, dictionary*: two calls overlap; a call made after a kill is the third state of a file.
*Consolidation*: a fact, its successor and its successor's successor need three episodes; a retry after a failure
needs a second pass over the same episode; forks of a chain need one fact retired twice, which two consolidators in
turn, or one and its retry, do. *Worker*: exclusion needs two contenders, standby a third. *Upkeep*: a batch of two
and three episodes make one wait for its turn. *L3*: a cluster of two grows to three and shrinks back. *L5*: a merge
needs two models and its result, with a member each and one that comes later. *L6*: a window of one makes three
passes. *Recall*: two hits, a node two hops away, a foreign one. *Indexer*: edges need two symbols in a file,
clean-up a version that drops one, and the hash of another file a second file. *Registry*: a chain of two merges or
a name near two others needs three names. *Row, accounts*: two actors give all overlaps of two changes; the proofs
remove the bounds. *Requests*: one request checks a row that another deletes while MCP goes elsewhere; likewise.

Symmetry is used for contents and consolidators in `consolidation_llm` and for the actors of `operations` (editors,
clerks, threads, requests), where no liveness is checked. Deadlock is checked in `consolidation_offline`,
`consolidation_llm`, `worker_replicas` and `index_project`; the parts of the others may come to an end (a row that is
deleted, a recall that is done, a bound that is used up).

### Fairness

* `SQLiteStore`: strong fairness of every step of a call that has begun. Go's RWMutex blocks new readers when a
  writer waits and `database/sql` queues waiters for the connection, so a goroutine is not passed over for ever.
  Nothing is assumed of calls beginning.
* `PostgresCalls`: strong fairness of getting a connection (pgxpool queues those who wait) and of a statement not
  failing every time, weak fairness of the steps of a call. Nothing is assumed of calls beginning.
* `Maintenance`: weak fairness of the steps of a cycle (the worker goes on), and strong fairness of the writes that a
  cycle tries again after a failure: a statement that is tried again and again succeeds some time.
* `Consolidation`: weak fairness of beginning a pass (the worker loop starts a cycle every interval) and of its steps.
* `System2Worker`: weak fairness of the steps of a replica that is on. Nothing is assumed of starting one.
* The other modules state safety only.

`MCProgress` puts what is asked for in different parts into one formula, each disjunct with its part: in a behaviour of
one part the formula says what that part asks for.

### What the properties are conditional on

A condition in a property is a case in which the code does not keep it. Each was found by a counterexample:

* `IndexFollowsOwnWrites`, `ImplementsVectorStore`: `Overlap`, above.
* `OneFindableFact`: one consolidator, and `TopK` at least the number of memories of one content
  (`operations/consolidate.go:172`). The search ranks all layers; the episodes themselves rank equal to the fact and
  can crowd it out, and then a duplicate is added. Consolidate over HTTP or MCP takes no worker lock: two passes at
  once add a duplicate as well.
* `SupersededIsRetired`: no failure. A pass that stops after the `supersedes` edge leaves a fact with a successor
  and no mark.
* `BacklogDrains`: offline. With a classifier an UPDATE with nothing similar goes on without a stamp
  (`consolidate.go:225`), unlike a DELETE with nothing similar, and the episode may wait for ever.
* `CyclesExclude`: no lost session. Over Postgres the cycle goes on over other connections.
* `ReportIsTrue`: no failure, or no forced pass and no version that comes back. After a purge that was cut short
  `index_state` still has the old hash. And the runs have distinct module names: `a.py` and `a.js` in one
  directory delete each other's symbols (`code/indexer.go:248-263`, `307-310`).
* `CallsAreEdges`: no failure. A failed projection is not repeated, because the next pass skips the file.
* `OneSpace`: one engine at a time, `Resume`. Going back to the old configuration after an interrupted re-embedding is
  accepted, since `meta` still names it, with vectors of both. What needs no such discipline is `MetaComesLast`. It
  speaks of a tokenizer that *replaces* another: the first one is recorded without a look at the vectors, and
  if an open is killed between recording the dimension and the tokenizer and the next one has another tokenizer,
  the record is not what the vectors were made with.
* `NamesLeadToOperations`: no merge pass cut short, calls and passes that do not overlap. Over SQLite the resource a name
  leads to has its operations; over Postgres (`~InOrder`) one of those it may lead to has, because the retired loser of a
  merge keeps the name it was created with and comes first as soon as the winner's row is written again
  (`operations/resource.go:62`).
* `ImplementsRegistry`, `OperationsLinked`: calls and passes that do not overlap (`registry_lost` shows the other
  case). `operations` checks only the first, since what it promises of `shown` includes the second. `ImplementsRegistry`
  also asks for rows in order: over Postgres a name may go back to a loser, which the abstract registry forbids.
* `VectorFollowsContent`, `EditsSurvive`: no edit of other fields has written an old content back (`~reverted`,
  `api/crud.go:119`); no stamp has written back a row that had changed (`~undone`, `consolidate.go:64`).
* `WritesFit`: replicas that are configured alike, and an open that was cut short is tried again (`PgLapse`). A rebuild
  that fails over a table without memories is a warning (`store_postgres.go:211-236`), and the new dimension is recorded
  all the same (`engine/engine.go:172`): until another rebuild succeeds, writes do not fit (`pgUnbuilt`).
* `RefsAreFound`: a symbol whose memory is forgotten by hand takes its projection with it and leaves its references,
  which no clean-up of the file finds again (`store_postgres.go:775`).
* `EveryCallReturns`: more connections than locks. With as many holders as connections all wait (`PoolSize = 2`).
* `KnownAreClassed`: the episodes that cannot be classified do not fill a batch. They stay at its head in every cycle
  (`maintain.go:235`), so that with `BackfillBatch` of them nothing behind them is ever classified.
* `NoneSkipped`: one workspace, and episodes that are stored in the order of their creation. The watermark is one key
  for all workspaces, and a creation time: an episode that was created before and stored after it is never shown.
* `GraphIsFollowed`: complete next to the hits; complete at two hops (if `GraphHops` allows as
  many) for a single hit only, because what one hit meets
  at its last hop is not expanded for another (`recall.go:243`); and not behind a version that is said to supersede the
  hit, which is returned and not gone beyond (`recall.go:216-231`). A hit has such an edge when a Retire stopped
  before its last write, or when a caller linked it with the relation `supersedes`, which nothing refuses (`api.go:757`).
* `HabitsHavePlaybooks`: by groups. Two habits whose playbooks read alike can replace each other's playbook in one pass
  (`proceduralize.go:151`), so of a group of such habits one is sure to have its playbook, and a habit whose playbook is
  like no other has its own.
* `NotesAreShared`: not for a workspace the engine itself was bound to: SetWorkspace throws its notes away.
* `ChangesAddUp`: no two changes of the account cross; a patch writes back the whole row it read, a deleted one too.
* `SecretsOpen`: no call that makes a key overlaps another, and no reset is killed between its two renames
  (`secrets.go:380`), after which every entry is unreadable. And no entry is cut unless two calls were at the one
  temporary file at once: os.WriteFile empties it, then fills it (`secrets.go:362`, `371`, `375`), so either can rename
  it empty or with the other's entries behind its own (`mixed`). Even so no entry is sealed with a wrong key.
* `SegmenterIsRight`: a process may remember the wrong manifest for a download that was killed or overlapped another.

The model also shows what no property forbids, because nothing in the repository speaks of it: UPDATE may take a
fact that has been retired for its target (the index entry outlives Retire) and clones its marks, so that the new
fact is retired from birth and recall never shows it (`consolidate.go:231`).

### Findings

* `consolidation_chain`: Retire closes the incoming `supersedes` edge of what it retires too, so a chain of three
  versions loses its first link: LatestInChain and recall's second tier, which follow valid edges, stop at the first
  version. `supersedes.go:54` says LatestInChain returns the newest one, `supersedes.go:19` that outgoing edges are
  closed.
* `index_shared`: `index_state` and the clean-up of code tables are keyed by relative path alone, so two projects in
  one database disturb each other; `README.md:501` promises isolation.
* `registry_lost`: an `operates_on` edge written between the two readings of the loser's edges is closed and not
  rebuilt, against `operations/maintain.go:357`.
* `gate_workspace`: the gate looks for a recent duplicate among the events of the engine's own workspace, whichever
  workspace the scope is bound to (`operations/attention.go:77`), against the isolation of `README.md:501`. What is
  dropped is the sentence under which an event of the engine's workspace is stored, remembered in another workspace:
  `scenarios/S09-attention-gate.md:16` shows a duplicate with such a sentence.
* `config_sources`: a setting that one file spells flat and the other nested survives the merge twice, and Go's map
  order decides (`config/config.go:581`); `README.md:494-496` and `config.go:1081` promise an order of precedence. The
  numeric LLM settings are normalised per file and keep it (`NumbersFollowPrecedence`).

## 4. The proofs

TLAPS checks the following for all values of the constants that the modules' ASSUMEs allow. These say what kind a
constant is (a natural number, a set of pairs), that a value meaning "nothing" is none of the others, and, in two
places, what the code guarantees: calls are among the symbols of a file, because BuildRefs resolves them there
(`CodeIndexAssumption`); episodes are numbered in the order of creation (`PlaybooksAssumption`). Nothing else is assumed
of sizes: every bound of the runs (ids, failures, downloads, windows) is a variable of the theorems, and so are the
thresholds of the registry, which are settings: the relations of similarity that they cut out may be any.

Every safety property of the passing runs is stated by a theorem. Where a property needs a condition that is not part
of it, the theorem names the condition, and each is one of the cases listed above in which the code does not keep the
property:

| theorem | condition | meaning |
|---|---|---|
| `IndexFollowsOwnWritesTheorem`, `ImplementsVectorStoreTheorem` | `~Overlap` | no two calls of a process on one id at once |
| `OneSpaceTheorem` | `OneEngine`, `Resume` | one engine at a time, which resumes what was cut short |
| `MetaComesLastTheorem` | `OneEngine` | one engine at a time |
| `UpTypeCorrect`, `ProgressTypeCorrect` | `LinkingBudget \in Nat` | the budget of questions is not negative |
| `WritesFitTheorem` | `~PgLapse` | a dimension whose open was cut short is tried again (a rebuild may fail at any time) |
| `SingleSuccessorTheorem` | `WorkerLock` | consolidation passes take the worker lock |
| `OneFindableFactTheorem` | `Alone`, `~LLM`, `[]Room` | one consolidator, offline, and at no time more memories of one content than a search returns |
| `ReportIsTrueTheorem`, `CallsAreEdgesTheorem`, `HashComesLastTheorem` | `Separate` | projects share no relative path, files no module name |
| `OperationsLinkedTheorem`, `NamesLeadToOperationsTheorem` | `~Overlap` | calls and merge passes follow each other; rows in any order |
| `ImplementsRegistryTheorem` | `~Overlap`, `InOrder` | and rows come back in the order of their creation |

A hypothesis that is a constant of the model holds in the run that checks the property; `Room` is what `TopK` is
chosen for in `consolidation_offline`.

### The compositions

The runs check MCStores, MCProgress and MCOperations; the theorems are about their parts. Three lemmas (`StoresParts`,
`ProgressParts`, `OperationsParts`) say that a behaviour of a composition is one of each of its parts, so that every
theorem of a part holds of what is checked. `StoresTypeCorrect`, `ProgressTypeCorrect` and `OperationsTypeCorrect` draw
the conclusion for `TypesOK`.

### StoreProofs

*SQLiteStore*: `TypeCorrect`, `IndexFollowsOwnWritesTheorem` (with `OwnWritesWinTheorem` and
`DeletedStaysGoneTheorem`), `ImplementsVectorStoreTheorem`. The
properties speak of quiet ids and warm indexes only and say nothing of the way there. The inductive invariant adds:
one warm at a time in a process, since it holds the write half of indexMu (`OneWarm`); what a running warm has
selected is still what the table says, for every id the process wrote last and has no call on, since the process's own
writes need the connection (`SnapCurrent`); the ids a file clean-up holds are the file's (`FileClaim`); and, without
overlap, that the claims of two calls are disjoint (`Disjoint`), that a pending mutation agrees with the row
(`PendingAgrees`), and that the index of a settled id agrees with it or is about to be loaded (`Settled`). The
refinement needs one fact more, that a warm runs on a cold index (`Cold`); then each statement maps to a Write of the
abstract store, the index mutation and the return to a Finish, a warm to a Refresh, a restart to a Restart, and the
invariant is the abstract Promise.

*VectorIndex*: `IndexTypeCorrect`, `IndexIsTheMapTheorem`. What the property says is inductive once the slices are
typed; the work is in the deletion, of the last slot and of another one.

### ConsolidationProofs

`TypeCorrect`, `StampedIsLearnedTheorem`, `ForgottenStaysDeadTheorem`, `SupersededIsRetiredTheorem`,
`SingleSuccessorTheorem`, `OneFindableFactTheorem`, `ImplementsKnowledgeTheorem`. All but `OneFindableFactTheorem`
hold of any number of consolidators. None of the properties says what a pass holds between two statements, and a pass
holds whole rows. `KindInv`: no id is ever an episode in one hand and a fact in another, because ids are given out
once; so a row written back changes no row of the other kind. `LearnedInv`: what a pass has read as a fact has been
learned, and a pass without a classifier that is past its write has learned its episode. `EdgeInv`: a `supersedes`
edge leaves a fact that is retired or that its pass retires next. `ChainInv`: under the lock the outgoing versions of
the fact in hand are those still to be closed, which is why the edges of an earlier, interrupted retirement do not
make a second successor. `FoundInv`, `OnceInv`: a live fact is embedded and in the index of the one consolidator from
its first search on, and what a pass is about to write is not there yet; with `Room` a search that does not see a
content proves that no live fact has it.

The refinement of `Knowledge` holds without a condition, for passes side by side and any restarts. The rows a pass
writes back are long read, so it needs that an id says one thing wherever a row of it is kept (`WordsInv`), that only
clients take memories away (`GoneInv`), and that a pass about to mark its target has a later fact on record, and a
target that was read as retired is out of use (`TurnInv`). Then the fact's row is a Learn, the mark a Retire (or a
Resurface, or nothing), the stamp a Settle, and every other write a stutter.

### CodeIndexProofs

`TypeCorrect`, `ReportIsTrueTheorem`, `CallsAreEdgesTheorem`, `HashComesLastTheorem`, `ImplementsLeaderLockTheorem`.
`Stage` says how much of a file's artifacts is deleted and rewritten at each point of a pass; `OthersIdle` follows
from the index lock, so a file has one writer. `HashHolds` is the heart: a stored hash vouches for the artifacts, or
the file is in hand, or a pass failed and the hash is one the file will not have again (`plain`). It is why the hash
is written last, and why a forced pass that fails breaks the promise. For the edges, what a pass has done is drawn
already or is in the batch it will project (`Pending`), and a code_ref belongs to a symbol that has a row
(`RefsHaveRows`). `HashComesLast`, an action property, needs of the same invariant only what `Stage` says at the last
statement. The lock is refined whatever paths projects share: a pass under way is that of the holder (`PassHolds`).

### System2WorkerProofs, PostgresCallsProofs

*System2Worker*: `TypeCorrect`, `CyclesExcludeTheorem`, `ImplementsLeaderLockTheorem`, `LockIsUsedTheorem`,
`StopsAfterCurrentCycleTheorem`, `ErrorsAreConsecutiveTheorem`. Exclusion is not inductive: `CycleHolds` says that who
is in a cycle is the holder, as long as no session was lost; `StopIsNear` says that a replica whose stop was asked for
and that stands at the lock has begun nothing since. The refinement of `LeaderLock` needs `CycleHolds` and
`LockIsUsed`: who takes the free lock finds nobody inside, and what a replica gives back as it leaves its cycle is its
own.

*PostgresCalls*: `PoolTypeCorrect`, `RefsAreFoundTheorem`, `NoStandstillTheorem`. A pass that is past the lock holds
it (`HoldsLock`), so one at a time is between the deletion and the insertion; after the deletion of references only
those of forgotten symbols are left (`Emptied`); what it will insert is of symbols it has written or has still to
write (`Prepared`). `NoStandstill` is the safety half of `EveryCallReturns`: if the pool has more connections than
there are locks, no process gets to where each of its calls waits for another. It follows from counting: connections
in statements, connections kept by locks and free ones make up the pool (`Balanced`), and a lock is kept by the very
call it guards (`Placed`); so when none is free and no statement runs, as many connections as there are locks would be
all.

*Maintenance*: `UpTypeCorrect`, for any episodes and any budget of questions.

### OpeningProofs

*EmbeddingSpace*: `SpaceTypeCorrect`, `OneSpaceTheorem` (with `OneDimTheorem` and `OneTokenizerTheorem`),
`MetaComesLastTheorem`. An open engine is only the end of the story: the invariant follows a re-embedding through its
stops. `VectorsFit` says that every vector is of the space on record or of the unfinished target's, `OnItsWay` that an
engine on its way has that target and what its re-embedding has already written, `TargetHasOrigin` that a re-embedding
is always of a database with a dimension on record. `MetaComesLast`, an action property, needs no resumed
re-embedding, so it has an invariant of its own that says nothing of what is open: whatever a re-embedding need not
write any more is of its configuration (`Rewritten`), and before a dimension is on record nothing is stored
(`NoneBefore`).

*PostgresOpen*: `PgTypeCorrect`, `SetupNeverRacesTheorem`, `WritesFitTheorem`. `SetupOf`: who is in a setup has the
lock and what it found missing is missing still. `ColumnIsClaimed`: a column that is not what `meta` says is of the
dimension that is owed, or of an engine about to record it, or left by a rebuild that failed over no memories.
`OneDimOpens`: who is not closed has one dimension.

*ConfigLoad*: `CfTypeCorrect`, `NumbersFollowPrecedenceTheorem`. A number has one spelling once its file is
normalised, so what is merged so far is the highest file that has it (`MergedSoFar`) and the order of the map has
nothing to decide (`AppliedSoFar`). The same invariant fails for text settings, which is the finding.

*SecretStore*: `SecretTypeCorrect`, `SecretsOpenTheorem`. While no call that makes a key has overlapped another, it is
alone (`KeyCallIsAlone`), and what the others have read and have written to the one temporary file, in whatever mixture,
is sealed with the present key (`PlainInv`, `SetKeyInv`, `ResetKeyInv`). While no two have been at the temporary file
at once, the one that has emptied it finds it empty and no entry is cut (`UnmixedInv`, an invariant of its own).

*CjkDictionary*: `DictTypeCorrect`, `SegmenterIsRightTheorem`. A placed file is absent or whole, always (`NoPartial`).
As long as changes neither overlap nor are killed, the one that is under way has left behind what it says (`SoFar`), at
rest the manifest is right (`AtRest`), and its time is later than any that a process remembers of an earlier one
(`Remembers`), so that a process that notices no change has what is installed.

### LayersProofs

*ForwardIntents*: `L6TypeCorrect`, `NoneSkippedTheorem`. What a pass has shown comes before all it has not
(`ShownFirst`); episodes of one instant are late, and the watermark is the creation of an episode, so what is stored
behind it is late too.

*MentalModels*: `L5TypeCorrect`, `OneModelPerMemberTheorem`, `MergeLosesNobodyTheorem`. A merge goes through states in
which a member has no model. `Merged`: what will be linked to the merged model is exactly what those still to be
retired cover; so nobody is covered twice, and who is not covered waits (`KeptInv`).

*Playbooks*: `PbTypeCorrect`, `HabitsHavePlaybooksTheorem`, for any texts and any relation of likeness between them. The
greedy clustering is a recursive function on sets; that it exists for every finite set is proved by a least
counterexample (`ClustersExist`). What a pass replaces while it treats a cluster is like that cluster's text: so a group
that is like no other loses a playbook only to one of its own, and once one of the group has been treated it has a
playbook in hand (`Treated`, `InHand`).

*ResourceRegistry*: `RegistryTypeCorrect` (also with overlapping calls), `OperationsLinkedTheorem`,
`NamesLeadToOperationsTheorem`, `ImplementsRegistryTheorem`. The look-up takes a row that has the name, retired ones
included, so the invariant is about the rows that may come first (`Answers`: the oldest where rows come in order, any
otherwise): a live resource answers to each of its names, as the only live one, except the loser of a merge that has
handed them over (`OwnNames`), the loser's operations are the winner's too before its edges go (`EdgesFollow`), and an
operation is an edge of whoever answers to its name or about to become one (`Reached`). `PassKnows` says that the rows a
pass read are still so; it is what overlapping calls break. The refinement of `Registry`, where rows come in order,
follows from the same invariant step by step: a row that takes a name is a `Meet` because a name in resolution has no
owner yet (`CallKnows`), Absorb is a `Join` because the loser was the first to answer to its names (`OwnNames`; after a
pass that was cut short only because the winner is older), each edge written or closed is a `Move` by `EdgesFollow`, and
marking the loser is `Joined` by `Reached`. All else is a stutter.

### RequestProofs

*MemoryRow*: `RowTypeCorrect`, `VectorFollowsContentTheorem`, `EditsSurviveTheorem`, `DeletedStaysDeletedTheorem`.
`SeenIsSound` adds that every row a client holds was sound when it was read.

*UserAccounts*: `UserTypeCorrect`, `ChangesAddUpTheorem`. An account that no two changes crossed has one writer
(`OneWriter`), who holds the row as it still is (`HoldsTheRow`).

*FrontEnds*: `FrontTypeCorrect`, `ActsWhereAskedTheorem`, an action property. The invariant: where a request writes is
settled when it is admitted (`PutIsAsked`), and what it has checked stays checked (`CheckedIsAsked`), because a row
never moves to another workspace and an id never names two rows; and the HTTP engine keeps its default (`FrontTyped`).

*Remember*: `RememberTypeCorrect`, `NotesAreSharedTheorem`. The buffer on record for a workspace is that of every call
bound to it and of no other call, no other workspace and not the engine's own (`OwnBuffer`).

*Recall*: `RecallTypeCorrect`, `GraphIsFollowedTheorem`, for any graph, any relation that links, and retirements that stop
anywhere. Each result that is no longer an anchor is queued with depth one, or all it leads to has been met
(`Expanding`); a single result is not yet expanded, being expanded, or all next to it, but for the versions said to
supersede it, is queued with depth two or has been expanded (`AroundOnly`). A result that was marked before the recall
began is none (`Undisturbed`), and a step of a Retire that changes what a recall under way may have read disturbs it.

### What is only model-checked

* Liveness (`EveryCallReturns`, `KnownAreClassed`, `BacklogDrains`, `StopTakesEffect`, `SurvivorsConsolidate`): the
  prover has no rule for fairness and ENABLED.
* The properties that are violated, by their runs.

Some theorems are of properties no passing run lists (types, `OperationsLinked`, `LockIsUsed`,
`StopsAfterCurrentCycle`, `ErrorsAreConsecutive`, `DeletedStaysDeleted`, `HashComesLast`, `MetaComesLast`,
`NoStandstill`, the indexers' `ImplementsLeaderLock`): they hold of every instance, and the runs are spent on what is
not proved.

## 5. What is not modelled

Scores and thresholds are real numbers: similarity is a choice or a relation on names. Wording, parsing, formatting,
HTTP decoding, flags, TOML, TLS, password hashing, prompts, metrics, evaluation, benchmarks and user interfaces are
left out. The embedding and language models are external: what they answer is a choice in the module that asks.
Listings, counts and exports read rows that other modules write and are left out. The Postgres store's other
statements are those of the SQLite store over pgvector; it has no index of its own to keep. The query cache is an LRU
without a lock: used by one goroutine it is a map, used by several it is a data race that ends the process, and
neither leaves a state to speak of. Init, doctor, hooks, remote commands and the client libraries parse, print and
make one call. Components without a module are listed in `PROJECT.json` with the reason.

## 6. The plan

Done: the store with its abstract specification and refinement, the index, opening a database on SQLite and Postgres,
the Postgres calls, configuration, secrets, dictionary; consolidation; the worker; upkeep, L3, L5, L6; the
indexer; the registry, recall, the gate and its notes; row edits, accounts and the front ends; the abstract
specifications of store, lock, knowledge and registry; eight modules of proofs.

Next, in order of what can go wrong:

1. Decay beside the pending set of `Consolidation`, as one module: which episodes can be forgotten before they are
   learned.
2. `init`'s migration of a configuration, and the hooks' edits of JSON files, as files replaced by rename.
