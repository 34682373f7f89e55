# CapabilityCommons in TLA+

A verification project for CapabilityCommons, a FastAPI service over PostgreSQL
that keeps a reviewed, versioned graph of "context objects", indexes what is
published, answers questions from it, and fills it from books by an ingest pipeline.
Paths below are relative to `src/src/capability_commons/` unless they start with `src/`.

- [The system](#the-system): components, state, operations, what is hard
- [Modules](#modules): which module models what, and how it corresponds to the code
- [Runs](#runs): what TLC checks, with which bounds
- [Fairness](#fairness)
- [Proofs](#proofs): what TLAPS proves, from which assumptions, by which argument
- [Where code and documents disagree](#where-code-and-documents-disagree)
- [Not claimed](#not-claimed)
- [Not modelled](#not-modelled)

To check: `tlc -config services.cfg MCServices`, `tlapm KnowledgeProofs.tla`, and
likewise for the others.

## The system

### Processes and how they interact

The **API process** serves requests concurrently (asyncio, one database session per
request, READ COMMITTED, `db/session.py`). The **outbox worker** is a process of its
own (`cli/worker.py`); nothing prevents several. The **ingest pipeline**
(`cli/ingest/`), the **seeding** command (`cli/seed.py`) and the key command
(`cli/keys.py`) are run by an operator. All of them meet in the database only:
the API queues rows in `outbox_events` in the transaction of a publication, the worker
polls them, the search reads the segments and embeddings the worker writes, and the
pipeline works on local files, mirrors its passes into the job tables and ends in a seed.
There are no locks in the process and only one row lock in the code
(`FOR UPDATE SKIP LOCKED` in the worker); everything else rests on transactions that
read, decide, write and commit, and on a few unique constraints.

### Inventory

| Component | State | Operations | What is hard | What makes it correct | Module |
|---|---|---|---|---|---|
| Registry (`services/registry.py`) | `context_objects.lifecycle_state`, `current_version_id`; versions | `create_object`, `create_version`, `update_draft_version`, `publish_version`, `deprecate_object`, `mark_version_validity` | load, decide, commit in separate statements; the ORM writes only changed columns, so races lose updates column by column | gapless version numbers; a current version is immutable; a published object shows an announced version of its own | `Registry`, `Catalog` |
| Publish gate (`services/publish_gate.py`) | none: reads reviews, cases, the version | `check` | checks and commit are different statements | what is published passed all three checks | `Registry` |
| Reviews (`services/review.py`) | `review_records`, `contradiction_cases` | `submit_review`, `open_`/`resolve_contradiction`, `mark_*` | they write the columns publication writes too | approvals are never lost; withdrawn versions are not public | `Registry` |
| Outbox worker (`cli/worker.py`) | `outbox_events.processed_at`, row locks | poll, claim, dispatch, mark, clean up | handlers commit the session that holds the lock; crashes; failing events; several workers | at least once; no lost event; progress behind failures | `OutboxWorker` |
| Indexer, embedding (`search/indexer.py`, `services/embedding.py`) | segments, embedding columns | `reindex_version`, `embed_version` | delete-then-insert against another worker; an external call between read and write | drained queue means fresh index; no embedding is lost | `OutboxWorker` |
| Entities (`services/entities.py`) | entities, aliases, links, edges | `create_entity`, `add_alias`, `merge_entities` | nine statements over three tables after one check | a merged entity has nothing left; no neighbour is lost | `Knowledge` |
| Edges and graph (`services/registry.py`, `graph/`) | `edges` | `create_edge`, neighbourhood, paths | cycles, type filters, uniqueness nowhere | walks are complete, paths shortest | `Knowledge` |
| Evidence (`services/evidence.py`) | sources, spans, citations | cite an edge | lookup, then insert | a citation is announced once | `Knowledge` |
| Files (`api/routes/files.py`, `storage/`) | rows and stored bytes | upload, download, delete | two stores, no common transaction | no row without bytes unless its deletion was asked for | `FileStore` |
| Keys and rate limit (`api/auth.py`, `api/rate_limit.py`, `cli/keys.py`) | `api_keys`, `rate_limit_log` | create, revoke, rotate; count, admit; clean up | requests between middleware and dependency; expiry; windows deleted while counted | dead keys are refused; at most the limit per minute | `Access` |
| Response cache (`api/response_cache.py`) | entries with time stamps | get, set, invalidate | eviction at the limit | nothing is newer than the clock; the documents' LRU does not hold | `ResponseCache` |
| Search (`search/adapters/postgres_search.py`) | read-only | filters, text, vector, fusion | publication between the two searches; ranks of different lists | fusion respects agreement; no version twice | `Search` |
| Retrieval, ask, memory (`retrieval/`, `api/routes/ask.py`) | `retrieval_runs`, steps, `conversation_turns` | plan, search, expand, rank, assemble, compose, save | one session of many statements, with a commit in the middle | whole runs; sufficient means reviewed; turns are remembered | `Ask` |
| Answer composer (`retrieval/answer_composer.py`) | none | `compose_answer` | parts of the answer come from different objects | an action comes with its cautions | `Answer` |
| Ingest jobs (`services/ingest.py`) | job, passes | start, complete, fail a pass; fail the job | reports in any order, repeated; each reads, decides and commits without a lock | the job tells what its passes are | `IngestJobs` |
| Segmentation (`cli/ingest/parse.py`) | segments | `markdown_to_segments` | page markers at the ends of segments, and before the first text | segments partition the text, pages fit | `Segmentation` |
| Ingest pipeline (`cli/ingest/`) | manifest and files of a project | init, parse, extract, draft, cite, canonicalize, edges, bundles, validate, load | death between or inside writes; model answers; drafts read once and rewritten several times | no topic's segment, no draft, no safety is lost | `Pipeline` |
| Seeding (`cli/seed.py`) | all registry tables | `seed_graph` | run again, with packs that overlap and objects of the API | links complete, edges once, risk held for review | `Seed` |
| Publication (`publication/`), audit, metrics, evaluation, migrations, deployment | read-only, append-only or outside the program | | | | see [Not modelled](#not-modelled) |

`PROJECT.json` lists every component with its status, and every hazard at its line with
the properties that cover it.

## Modules

### Registry (`Registry.tla`, instances in `MCRegistry.tla`)

One request is one transaction `txn[s]` of a session `s`. Each handler is cut exactly
where the code awaits the database between a read it decides on and its commit:

| Code | Actions |
|---|---|
| `create_object`, `deprecate_object`, `ReviewService.mark_verified`, `open_contradiction`, `resolve_contradiction` | one action each: they decide on nothing that changes later and write at most one column of an existing row |
| `create_version` | `CreateVersionLoad` (max + 1), `CreateVersionCommit` (insert, unique constraint) |
| `update_draft_version` | `LoadObject`, `UpdateLoadVersion` (the immutability check is on what `LoadObject` read), `UpdateCommit` |
| `publish_version` with `PublishGate.check` | `LoadObject`, `PublishLoadVersion` (safety boundary), `CheckReviews`, `CheckContradictions`, `PublishCommit` |
| `submit_review` | `ReviewLoad`, `ReviewCommit` |
| `mark_version_validity` (through `mark_disputed`, `propose_deprecation`) | `MarkLoad`, `MarkCommit` |
| any exception, failed constraint, lost connection | `Rollback` |

Three points of the code shape the model and are easy to miss:

- **Written columns.** SQLAlchemy sends an UPDATE only for columns whose new value
  differs from the loaded one. `Written(new, loaded, now)` is that rule, per column:
  a handler that "sets" what it had loaded leaves another session's value alone.
  It is why a race can produce a published object whose lifecycle nobody rewrote.
- **Eager loading.** `get_object` loads the object with its current version in one
  statement and the versions in the next. A version that is the current one keeps the
  values of the first statement; another one is read at the second. `LoadObject` and
  `Loaded` keep that apart.
- **The gate raises.** A blocked publication can only roll back, so a failed check is
  the absence of the next step.

`publish_version` takes a `bypass_gate` parameter that no caller in the repository
sets; the model has no bypass. `in_review` and `archived` are written by no handler of
these services and are not in `Lifecycle`. Two risk classes stand for the four bands
(the gate asks only whether a band is high), `rejected` stands for CHANGES_REQUESTED too,
and `resolved` for all three settling outcomes of a case.

### Catalog (`Catalog.tla`)

The abstract specification: what readers of the public catalogue may see. An object
becomes visible, or shows another version, only in a step that announces a version; it
is never visible with nothing to show; everything else may only take it out.
`Registry` implements it under the refinement mapping at the end of `Registry.tla`
(`shown` is `current`, `visible` is "lifecycle is published", `announced` is the outbox).

### OutboxWorker (`OutboxWorker.tla`, instances in `MCOutboxWorker.tla`)

| Code | Actions |
|---|---|
| `_poll_batch`: the select of ids | `Poll` |
| the claim, one session per event | `Claim` (claims, or skips an event that is locked or processed), `EndBatch` |
| `_dispatch`, handlers with nothing to do | `DispatchNothing` |
| `VersionIndexer.reindex_version` | `ReadVersion`, `DeleteSegments`, `InsertSegments` |
| `EmbeddingService.embed_version` | `ReadSegments`, `CallProvider`, `StoreEmbeddings` |
| `processed_at` and its commit | `Mark` |
| an exception in a handler | `HandlerRaises`, `ProviderFails` |
| death of the process at any point | `Crash` |
| requests of the API meanwhile, the operator | `LoadEdit`, `CommitEdit`, `Publish`, `OtherEvent`, `RepairKey` |

Both handlers commit the session they are given. That commit releases the row lock
*before* the event is marked; the model's places `mark_locked` (nothing committed, lock
still held) and `mark` (committed, lock gone) differ for that reason, and `Locking`
lists the places with the lock. The segments of a version are abstracted to the
revision of the text they were chunked from, the id of the `version.reindexed` event
committed with them, and whether they are embedded. The unique `(version, ordinal)`
makes an insert fail if someone has inserted since the delete; an update of deleted
segments raises `StaleDataError`; both are `HandlerRaises`. Every version has at least
one segment, because the title is indexed. Without a key the handler skips the
embedding and the event counts as processed (`DispatchNothing`).

`LoadEdit`, `CommitEdit` and `Publish` are the projection of `Registry` the worker can
see, kept apart so that each module can be explored deeply. An edit tests what it loaded
(`services/registry.py:178`) and may commit on a version published meanwhile, as in the
first disagreement below; its `version.updated` has no handler, so `released` remembers
which text a publication has announced. `cleanup_rate_limits`, which runs
in the same loop, touches only the windows of the rate limiter and is in `Access`.

### Knowledge (`Knowledge.tla`, `Vocabulary.tla`)

Entities, aliases, links, edges and citations are rows in one set `rows`, each with the
columns the handlers look at. `Vocabulary` has the enumerations several modules share.

| Code | Actions |
|---|---|
| `merge_entities` | `MergeBegin` (the checks), nine times `MergeStatement` (the UPDATEs and DELETEs in `Statements`, in order), `MergeCommit`; `MergeLost` |
| `create_entity`, `add_alias`, `attach_entities`, `create_edge` | one action each: they insert rows nobody else decides on |
| `attach_span_to_edge` | `AttachLookup`, `AttachInsert` (primary key, foreign key) |
| `neighbors`, `paths_between`, `reverse_prerequisites` | the operators `Neighbours`, `PathLength`, `ReversePrerequisites` |

A merge is one transaction, but at READ COMMITTED each of its statements sees what
others have committed before it. The transaction's own changes are two sets, the rows it
has deleted and the rows it has written, and `View` is the database seen through them.
Requests run between any two statements. No route or command calls `merge_entities`, so
two merges at a time do not occur; `late` remembers which rows were written to an entity
after its merge had begun, because those stay where they are.

### FileStore (`FileStore.tla`)

`upload_file` is `UploadBegin`, `UploadPut`, `UploadCommit`; `delete_file` is
`DeleteLoad`, `DeleteBytes`, `DeleteCommit`; a request may end after any of them
(`RequestLost`: the process dies, the commit fails, the version does not exist).
`FirstStep` is the order of the two stores. A download is the property's point of view.

### Access (`Access.tla`)

`create_key`, `revoke_key`, `rotate_key` of the key command; `Arrive` and
`CountRequest` are the middleware before and after its awaits, `Authenticate` and `Refuse` the
dependencies; `Cleanup` is the worker's `cleanup_rate_limits`; `Tick` the clock in
minutes. The middleware looks for a key hash the dependency has not set yet, so the
model counts what the code counts: public routes, by client address.

### ResponseCache (`ResponseCache.tla`)

`Get`, `Set`, `Invalidate`, `CacheTick`. The cache is a dict of one event loop without
awaits, so each method is one step. No route uses it at this commit. Nothing is claimed of
what it evicts: see [Where code and documents disagree](#where-code-and-documents-disagree).

### Search, Answer, Ask (`Search.tla`, `Answer.tla`, `Ask.tla`)

`Search` has the filters, the two rankings and their fusion as operators on a catalogue of
published versions, and the two steps of editors that change it. Which versions match a
query, in which order, is an input. `Answer` is `compose_answer`: a text in the answer is
a pair of what it is and which version it comes from. `Ask` is the session that uses them:

| Code | Actions |
|---|---|
| `public_ask`, `execute_plan` | `BeginAsk`, `ResolveSeeds`, `SearchText`, `SearchVector` (the versions), `LoadHits` (their rows and facets, and the fusion), `ExpandGraph`, `RankHits`, `Commit` |
| `save_turn`, the response, the session closed | `SaveTurn`, `Respond` |
| an exception or a lost connection anywhere | `AskLost` |
| editors meanwhile | `Publish`, `Deprecate`, `Edit` |

Each step is one group of statements that see the same database. Scores are integers:
10^-6 in the search, where the code rounds to six digits, 10^-4 in the ranking.
The graph is that of `Knowledge`, with the operators checked there.

### IngestJobs, Segmentation, Seed, Pipeline

`IngestJobs` has the service's operations on one job as functions of the row
(`StartPass`, `CompletePass`, `FailPass`) and the processes that report on it:

| Code | Actions |
|---|---|
| `get_job`, the job and then its passes | `LoadJob`, `LoadPasses` |
| the operation, its flush and the commit | `CommitReport`, which writes the columns that changed (`Flushed`) |
| a report that fails on the way, of which the tracker only warns | `LoseReport` |
| `create_job` | `CreateJob`: its flush fails at this commit, so the rows are there from `JobsInit` on |

The flush locks the rows it writes until the commit, so both are one step; nothing locks
what was read. `services` has one reporter; with two in its place `JobTellsPasses` fails, see
*Not claimed*. `Pipeline` uses `CompletePass` for
its mirror, which one process makes.

`Segmentation` is `markdown_to_segments` on a sequence of pieces (headings of three
levels, text, page markers), where a piece stands for its characters. The code knows six
levels; three are enough for a stack of headings to be cut, kept and refilled.

`Seed` is `seed_graph`: one transaction that adds what is missing of a pack of nodes and
a CSV of edges, over what the API (`ApproveAndPublish`) and earlier seeds left.

`Pipeline` has one action per command. A command works alone on local files, so it is a
list of file operations (`DecisionSteps`, `MarkSteps`, ...) and `Execute` carries out all
of them or the first few, the last of which may be torn (`Tear`: the file is truncated
and nothing flushed). The language model's answer is any member of a set of shapes, or a
failure after the retries, which drops the item and not the pass. `load` ends in
`SeedGraph`; the manifest's mirror ends in `CompletePass`, and only `parse`, which is no
coroutine, gets that far: the others hand it to a task of a loop that ends first.
Segments are numbered within their source (`SegmentId`), and a matrix may name them with the
source or by the bare number (`Bare`), as the model answers. `SegmentsOf` resolves them as
`run_draft` does, against the one source of the row that `MergeRows` has kept; `Readings` as
`run_cite` does, against the segments it has shown.

`MCIngest` has packs, projects, matrices, drafts and decisions; `MCServices` puts all of these
parts into one run.

## Runs

| Run | Question | Result |
|---|---|---|
| `registry_serial` | Any sequence of requests, one at a time: does the gate hold at each publication, is the current version immutable, is what is public live, is a replaced version superseded? | holds |
| `registry_concurrent` | Two requests interleaved statement by statement: numbering, announcement, approval, refinement of `Catalog` | holds |
| `registry_edit_race` | Is the current version immutable under concurrency? | **violated** |
| `registry_stale_approval` | Does an edited high-risk version need a new review? | **violated** |
| `registry_review_hides` | Does the lifecycle only move forward? | **violated** |
| `outbox_single` | One worker under fairness, with crashes, a provider that may refuse, and edits loaded before a publication and committed after it: is each publication processed, is everything processed once the key is good, is the drained index fresh? | holds |
| `outbox_pair` | Two workers: exclusion, at-least-once, pending embeddings | holds |
| `outbox_starvation` | Does progress survive a batch full of failing events? | **violated** |
| `services` | The nine service and ingest parts, each with its requests, crashes and repetitions | holds |
| `ask_forgotten` | Is the turn of an answered question remembered? | **violated** |
| `canonicalize_risk` | Does a merge of drafts keep their risk? | **violated** |
| `load_past_gate` | Has what a load published passed the strict gate? | **violated** |

What the properties say, and what it would take to break them:

- `GateAtPublication`: at each publication all three checks hold *of the rows at the
  commit*, not of the rows as checked. One request at a time only (see below).
- `CurrentIsImmutable`, `PublishedIsLive`, `PriorSuperseded`: relate the current version
  to its validity over long alternations of publish, mark, review and edit of two versions.
- `VersionNumbersGapless`: both of two overlapping creations compute the same number.
- `PublishedWasAnnounced`, `ImplementsCatalog`: the lost-update rule makes this delicate:
  a publication may leave lifecycle and current version to another session's values.
- `ApprovalOutlivesGate`: the only gate check that cannot be undone between check and commit.
- `SoleHandler`, `ProcessedIsIndexed`, `EmbeddingPending`: several workers, repeated
  deliveries after a crash, reindexing that overtakes an embedding.
- `FreshWhenSettled`: with one worker, a drained queue means the index holds the text
  that was published last, or a later one. An edit that commits on a version published
  meanwhile changes the public text without an event the worker takes; the property asks
  for the text as it was published.
- `PublicationsProcessed`, `RetriedOnceFixed`: progress, with and without a working key.
- `MergedEntityIsEmpty`, `SurvivorActive`, `MergeKeepsNeighbours`: after any merges,
  with requests between their statements, nothing old is left on a merged entity, the
  events lead to a live one, aliases and links are the target's, and nodes an edge joined
  are joined still. The type of the edge may be lost: see
  the disagreements.
- `CitedOnce`: one event per citation, over racing requests, merges and cascades.
- `WalksAreComplete`: the breadth-first walks against walks of exactly *k* edges.
- `StoresAgree`: the only way to a row without bytes is a delete, and a removed file has
  no bytes, whichever of two deletes was cut short.
- `AdmittedWithinLimit`, `DeadKeyNeverServed`: history of what was let through, over
  cleanup, expiry, rotation and requests that hang between their steps.
- `FusionAgreement`, `EvidenceOnce`, `CompletedIsReviewed`, `RunsAreWhole`,
  `ActionIsCautioned`: one question through search, fusion, graph, ranking, sufficiency
  and composition while editors publish and review. `CompletedIsReviewed` is about the
  items a run judges, as many as the request wants reviewed. A request may want up to twenty
  and the pack shows eight (`retrieval/service.py:348` against 364), so with 13 to 20 a
  completed run can have all its reviewed items past the end of the pack; the property
  counts those as unseen. It does not say that as many are reviewed as were asked for: the
  score weighs reviews against citations and relevance, where
  `src/docs/spec/capability_commons_agentic_data_lite_spec.md` (11.4) makes the count a
  condition of its own. `ActionIsCautioned` is about the cautions of the guide that is quoted;
  only how-to and failure questions never come without any, others may.
- `PagesCoverText`: all documents of up to six pieces. The first page of a document without
  headings that begins with a marker is left free: see the disagreements.
- `JobTellsPasses`: one process's reports in any order, and `MirrorFollowsManifest` for the pipeline's.
- `SeedCompletesGraph`, `SeedEdgesOnce`, `HeldUntilReviewed`: sequences of overlapping
  packs over what the API wrote. `SeedCompletesGraph` leaves a pack's `suggested_edges` out.
  `HeldUntilReviewed` lets high-risk drafts be announced, as the seed does with every object
  it does not hold back.
- `DraftCoversMatrix`, `ArchivedReplaced`: three commands in any order with a crash at any
  file operation of one of them. `DraftCoversMatrix` is about topics within one source
  (of two sources the code loses segments: see the disagreements); `ArchivedReplaced`
  about file names: an heir that was torn while it was written counts, so it does not say that
  content survives.

Every property of a passing run has a mutant in `PROJECT.json`: a plausible bug in one
mapped definition that makes TLC refute the property under the run's own bounds.

### Bounds, and why they are enough

The passing runs are exhaustive within their bounds: about 5.6 million distinct states for
`registry_serial`, 3.6 million for `registry_concurrent`, 3.3 million for `outbox_pair`, 0.39
million for `outbox_single`, which also checks liveness on them, and 1.35 million for `services`.

- *Two versions, one object* (registry): every handler touches one object and relates at
  most two of its versions (new and prior); a second object is independent except for
  the constraint in `Catalog!Publish` that a version is shown by one object only, which
  is proved for all sets.
- *One or two sessions*: each handler has one window between its read and its commit; two
  sessions put any other handler into that window. Larger numbers are covered by the proofs.
- *Two bodies*, one of them unsafe where the boundary matters: the gate tells no more apart.
- `MaxPublishes`: publishing A, B, A again needs three, which the serial registry has.
- `EditValidity` (serial) is `{"deprecated"}`: a PATCH may carry any `validity_status`.
  Sending CURRENT for a replaced version breaks `PriorSuperseded`, as the client asked for;
  the run leaves that request out rather than the property.
- Outbox: *BatchSize* 4, 2 and 1 stand for the code's 50: what matters is whether the
  failing events fill it. `MaxPublishes` 2 with two versions gives a publication that
  overtakes another, and the republication of a version edited meanwhile; `MaxEditors` 1 is one edit
  that waits for its commit at a time; `MaxFaults` 1 places one crash or provider failure anywhere.
- *Parts* (`services`): a behaviour takes one of the nine parts, chosen in `Init`, with the
  others at rest. The parts write no table in common and call nothing of one another, so
  their steps commute, and every invariant speaks of one part: interleaving them would
  multiply the states and add no behaviour. What does interact is inside one part: ask
  with the graph and the catalogue, pipeline with the seed and the job.
- Knowledge: three entities, two merges and one request. Two merges give a chain
  (A into B into C); a request fits between any two statements. `StartRows` has edges whose ends and
  types overlap without any two being equal, and every subset of it is a start.
- Files: three requests on two keys give two deletes that race, one of them lost.
- Access: limit 1, retention and lifetime of 1 minute, clock up to 2, two requests and two
  keys: a window expires while a request to it waits, a key expires between two requests.
- Cache: three keys over a limit of two.
- Jobs: three of the eight passes are reported on, so that one may be last, first or between.
- Ask: one question, two editor steps, so that one falls between any two statements. The
  questions differ in the filters, the depth of the ranking, the intent and the number of
  reviewed objects, which exceeds the pack in one: `PackSize` is 2 where the code has 8.
- Seed: four seeds or approvals of three packs over three databases; pipeline: three
  commands and one crash from three starting projects, so that each pass is reached and
  followed by two others.
- Symmetry is used only in runs without liveness properties.
- `CHECK_DEADLOCK FALSE` in the outbox and services runs: requests and faults are bounded,
  so the system comes to rest. The registry runs do check deadlock.

## Fairness

`FairSpec` asks for weak fairness of each worker's loop and nothing else. The loop
(`run`, `cli/worker.py:30`) goes on until it is stopped, catches what a handler raises
and sleeps a bounded time when idle, so an enabled step of it is taken. After a crash
the process is started again: the repository's compose files do not start the worker at
all and `src/docs/DEPLOY_GUIDE.md:215` leaves running it to the operator, so this
supervision is an assumption about the deployment, and the liveness results hold as far
as it does. Clients and the operator owe nothing; `RetriedOnceFixed` has the repaired
key as its premise. No fairness is assumed of the registry: requests may stop anywhere. The parts of
`services` are checked for safety alone: their callers are requests and commands, which
nobody owes, and nothing in them waits.

## Proofs

All for any number of objects, versions, sessions, workers, events, edits and faults, and
of entities, rows, requests, questions, files, keys, clients, passes, packs, seeds, projects,
commands, crashes, documents and cache entries.

| Module | Theorem | States |
|---|---|---|
| `RegistryProofs` | `TypeCorrect` | `Spec => []TypeOK` |
| | `PublishedAlwaysAnnounced` | `Spec => []PublishedWasAnnounced` |
| | `RegistryImplementsCatalog` | `Spec => ImplementsCatalog` |
| `RegistryRaceProofs` | `ApprovalHolds` | `Spec => []ApprovalOutlivesGate` |
| | `NumbersAlwaysGapless` | `Spec => []VersionNumbersGapless` |
| | `SerialPublishedIsLive` | `OneSession` implies `Spec => []PublishedIsLive` |
| | `SerialGateAtPublication` | `OneSession` implies `Spec => GateAtPublication` |
| | `SerialCurrentIsImmutable` | `OneSession` implies `Spec => CurrentIsImmutable` |
| | `SerialPriorSuperseded` | `OneSession` and no edit to `current` imply `Spec => []PriorSuperseded` |
| `OutboxWorkerProofs` | `TypeCorrect` | `Spec => []TypeOK` |
| | `NeverHandledTwiceAtOnce` | `Spec => []SoleHandler` |
| | `PublicationsIndexed` | `Spec => []ProcessedIsIndexed` |
| | `EmbeddingsStayPending` | `Spec => []EmbeddingPending` |
| | `OneWorkerFresh` | `OneWorker` implies `Spec => []FreshWhenSettled` |
| `KnowledgeProofs` | `MergedAlwaysEmpty` | `KnowledgeSpec => []MergedEntityIsEmpty` |
| | `CitationsOnce` | `KnowledgeSpec => []CitedOnce` |
| | `SurvivorAlwaysActive` | `KnowledgeSpec => []SurvivorActive` |
| | `WalksAlwaysComplete` | `KnowledgeSpec => []WalksAreComplete` |
| | `MergesKeepNeighbours` | `KnowledgeSpec => MergeKeepsNeighbours` |
| `AskProofs` | `AskTypes` | `AskSpec => []AskTypeOK` |
| | `RunsAlwaysWhole` | `AskSpec => []RunsAreWhole` |
| | `EvidenceAlwaysOnce` | `AskSpec => []EvidenceOnce` |
| | `FusionsAgree` | `AskSpec => []FusionAgreement` |
| | `ActionsAreCautioned` | `AskSpec => []ActionIsCautioned` |
| | `CompletedAlwaysReviewed` | `AskSpec => []CompletedIsReviewed` |
| `ServiceProofs` | `StoresAlwaysAgree` | `FilesSpec => []StoresAgree` |
| | `DeadKeysRefused` | `AccessSpec => []DeadKeyNeverServed` |
| | `LimitHolds` | `AccessSpec => []AdmittedWithinLimit` |
| | `ServicesTyped` | `Spec => []TypeOK` of `MCServices` |
| `IngestProofs` | `JobAlwaysTells` | `Reporters = {one}` implies `JobsSpec => []JobTellsPasses` |
| | `GraphCompleted` | `SeedSpec => []SeedCompletesGraph` |
| | `EdgesOnce` | `SeedSpec => []SeedEdgesOnce` |
| | `RiskHeld` | `SeedSpec => []HeldUntilReviewed` |
| | `SeedTyped` | `SeedSpec => []SeedTypeOK` |
| | `SeedAgain` | a pack that was seeded can be seeded again, which changes no object, event or edge |
| | `PipelineTypes` | `PipelineSpec => []PipelineTypeOK` |
| | `MirrorAlwaysFollows` | `PipelineSpec => []MirrorFollowsManifest` |
| | `ArchivedAlwaysReplaced` | `PipelineSpec => []ArchivedReplaced` |
| | `DraftsAlwaysCover` | `PipelineSpec => []DraftCoversMatrix` |
| | `LoadsAreSeeds` | `PipelineSpec => [][\E pack : LoadsPack(pack)]_<<db, seeded>>` |
| | `LoadsCompleteGraph` | `PipelineSpec => []SeedCompletesGraph` |
| | `LoadsEdgesOnce` | `PipelineSpec => []SeedEdgesOnce` |
| | `LoadsHoldRisk` | `PipelineSpec => []HeldUntilReviewed` |
| | `LoadsTyped` | `PipelineSpec => []SeedTypeOK` |
| | `SegmentsTyped` | `SegmentationSpec => []SegmentationTypeOK` |
| | `PagesAlwaysCover` | `SegmentationSpec => []PagesCoverText` |

**Assumptions.** `RegistryAssumption` (`None` is no object, version or body; the set of
versions is finite, which a table is), `RequestAssumption` (clients send values of the
enumerations), `WorkerAssumption` (bounds are numbers, `None` is no version);
`KnowledgeAssumption` and `StartAssumption` (entities are no versions, edge ids are not
used again), `FileStoreAssumption`, `AccessAssumption` (limit, retention and lifetime are
numbers, the last two positive), `JobsAssumption` (somebody tracks at least one pass),
`SeedAssumption` (what the columns of a database are; its events refer to objects; a node's
state is one of the enumeration, since any other ends the seed before it writes, and its
citations are finitely many), `GraphAssumption` (the graphs an ask finds have rows of the tables),
`CatalogAssumption` and `QuestionAssumption` (versions are finitely many and belong to
objects; a request has passed its schema, and a ranker names a version once),
`PipelineAssumption` (a slug has one file, and the slugs of a project are finitely many; an
answer of the model has passed its schema: it names slugs, or, for the child of a split,
none), `ProjectAssumption` (a behaviour starts with a project of which nothing was archived
yet, its files named by slugs and each of them torn or a node with a state of the
enumeration), `SegmentationAssumption` and `CacheAssumption` (bounds are
numbers, and the cache holds at least one entry).
TLC evaluates them in the runs of their modules.

Four theorem hypotheses are no assumptions of a module, because the code does not ensure
them. `OneSession`, `OneWorker` and the one reporter of `JobAlwaysTells` are what the
properties hold for: with two the run `registry_edit_race` and the section
*Not claimed* show what goes wrong. `"current" \notin EditValidity` leaves out the one
request whose sender asks for what `PriorSuperseded` excludes.

**Registry types.** `TypeOK` is not inductive: a transaction's record holds `None` in
the fields its request does not use, so a commit is well typed only if its request has
filled in the fields it writes. `TypeInv` adds `FilledIn` per operation, and that a
version with an owner has a body.

**Announcement and refinement.** `CatalogInv` adds to `PublishedWasAnnounced` what a
publication under way still knows (`StillKnows`): its version belongs to its object,
and if it loaded the object as showing a version, the object shows one still. The second
half is what carries the commit when `Written` skips the update of `current` or
`lifecycle`. The refinement then splits the steps into stutters (`StutterSeen`),
withdrawals (`WithdrawalSeen`) and publications (`PublicationSeen`).

**Races.** `SessionsMove` sums up how one step may change a session's record.
`GateInv` says that from the review check on, a high-risk publication has its approval;
it is kept because approvals only grow (`ApprovalsKept`). `NumbersInv` adds to
`VersionNumbersGapless` that a number computed but not inserted is within
`1 .. n + 1`; together with the unique constraint it must be `n + 1` when it is inserted.

**Worker.** `TypeInv` adds that a worker's event exists and has the type its handler
needs, and that a version's segments carry the id of a queued `version.reindexed` event
of that version. Exclusion follows from how a worker comes to hold a lock (`MovesTo`).
For delivery, `DeliveryInv` adds what a worker at the mark has achieved (`Achieved`): a
publication's version has segments with a later event, and segments written with the
event itself are embedded. Both survive other workers because the id kept with the
segments only grows (`SegmentsMove`); marking is then safe without the lock.

**One request, one worker.** With one session nothing commits between a request's load
and its own commit, so what it has loaded is what the rows hold (`Agrees`), and what the gate
has checked stays true until the update. With one worker, `Fresh` says that either the index
has the text that is shown and nobody is about to overwrite it with an older one
(`Outdated`), or a publication of what is shown is still queued (`Owed`), and a worker that
handles it works with the text that is shown (`Answers`).

**Merges and citations.** `MergedEntityIsEmpty` speaks of committed rows, but a commit
publishes what the merge has prepared. `KnowledgeInv` therefore says it of the merge's
view too (`MergedKeepsLate`), adds that source and target are still what the merge has
checked (`MergeOpen`), and that from the statement that moves a kind of rows on, the source
has none of that kind left in the view but what was written late (`Progress`). The
proof has one lemma for each kind of statement and one for all requests (`Inserts`).
`CitedOnce` needs that an edge's id never comes back once its citations have gone with it
(`CitesFollowEdges`). `MergesKeepNeighbours` follows a merge's view statement by statement
(`MergeKeeps`): each alias and link of the source is still seen or has its like under the
target, and each edge has one in the view that joins the same nodes, once the target stands
for the source. That an edge the three lists match has such a neighbour is the lists' first
condition, its end; the type is what they do not keep.

`SurvivorActive` and `WalksAreComplete` count hops up to a bound. Both proofs show that the
sets of what is reached grow until they stop, that they stop within the bound because
each growth takes a new member of a finite set, and that a set that stopped is closed;
then one merge, or one edge, is an argument about closed sets.

**Ask.** `AskInv` says of the session, statement by statement, what it has gathered
(`SessionOK`): hits are of distinct versions, candidates stay so when the graph adds to
them, the ranking is a permutation of the candidates, and what it calls reviewed is in
`reviewed`, which only grows. Of the history it says that runs are whole and that an
answer's run is in it (`HistoryOK`). `FusionAgreement` is arithmetic: a rank in both lists
is worth more than the two roundings can take away, in lists of up to 150 hits, and the
service never asks for more. That is a fact about the numbers 60 and 10^6, not about a
catalogue, and is proved for all of them at once (`RankOutweighs`). `CompletedIsReviewed` comes
down to the 1500 that are missing when citations and relevance give all of their 6000: three
eighths of the 4000 of reviews. Judged items past the end of the pack are as many as the pack is
short of. `ActionIsCautioned` goes through
the parts of the answer with the cautions each brings along.

**Files.** `FilesInv` adds that an upload owns its key until its row is there
(`Uploading`, `KeysFresh`) and that a delete works on a key somebody found (`Deleting`):
without that, the bytes of a late upload could come back after a delete.

**Keys and limits.** A dead key stays dead: revocation is final, the clock goes on, a
rotation writes to a fresh row (`KeyInv`). For the limit, the count of a window is at least
what was admitted in it, as long as the worker may not delete it, and a request that
still has to be counted counts in such a window (`LimitInv`): this is where the
retention must be longer than a request takes.

**Jobs.** A reporter that is alone has read the job as it still is (`AloneInv`), so its flush
writes what the operation made of the job. That the result tells its passes is then one case
per operation (`Tells`).

**Seeding.** `SeedInv` is the three properties and `Shaped`: events refer to objects, and
an object a seed made has a version. The second is why a review changes no link that
was due before: what it publishes first is an object of the API only, and
`SeedCompletesGraph` leaves those to the next seed. For the three properties a pack's nodes may
be anything. `SeedTypes` needs of them that their state is one of the enumeration and that their
citations can be counted. `SeedAgain` is an argument about one transaction and the same
one after it: a pack that was seeded creates nothing and knows the same nodes
(`SameKnown`), asks for the same edges and finds each of them once.

**Pipeline.** A command is a list of file operations that may be cut off after any of them,
or inside a write of the manifest. `PipelineInv` is kept by what one operation does (`Kept`)
together with what is still to come: a list is `Orderly` if each report to the database
follows the mark of its pass in the manifest, and each move to the archive follows the write
of all that replaces the file, none of which is moved away in between (`Stands`). Every prefix
of an orderly list keeps the invariant, and the lists of all commands are orderly, those of a
merge or split with any decisions of the model included (`DecisionIsOrderly`).
`MirrorFollowsManifest` needs, beside itself, that the report about to be made is already in
the manifest (`Told`). `ArchivedReplaced` counts hops up to the number of slugs; the invariant is
`Replaced`, the same without counting: every set of slugs that has the drafts and is closed
under "replaced by" has every archived one. A fresh draft may replace an archived one
and a draft may be archived again, which such sets survive. `DraftCoversMatrix` follows a
draft pass operation by operation: what it has written covers its rows, nothing is written twice
since rows of one slug are merged first, and the passes in between do not claim to draft. If
all rows of a slug name one source, the merged row resolves each of their ids as they do.

**Loads.** The pipeline reads the files it wrote before it seeds them, so what the seed promises
must be carried over to packs that commands, crashes and the model have made. `LoadInv`
joins the invariants of the pipeline and of the seed and adds that every file is torn or
well formed (`FilesOK`). Operations of other commands leave the database alone (`Calm`). Of
a load, the argument says which operation has which position: the drafts are marked, the
pack's files written, and only then comes the seed, with what the files hold, of which none is
torn. So a load that is cut off has seeded nothing or a whole pack (`LoadsAreSeeds`), which is
a step of `Seed`, and its properties follow; with `SeedAgain`, the load that is repeated
after a crash does no harm.

**Types of all parts.** `MCServices` takes one part per behaviour. `ServicesTyped` shows that each part's
inductive invariant is kept while it runs (`Served`, `Ingested`) and while another does. Two
of them hold for part of the behaviours only, the graph's and that of a job by itself,
because the ask starts from any graph, and reports by hand need no manifest.

**Segments.** The headings of a document cut it into pieces that do not overlap and cover all
from the first heading on (`CutAtHeadings`); a page count never decreases along the text
(`PagesGrow`), so a text's page lies between the page of its segment's start and the page of
the last place with content (`PiecePages`); a document without headings is one piece.

**Recursion over data.** The prover cannot instantiate a theorem about a property given as
an operator, so `DataInduction` states induction about a *set* of numbers: a set with 0
and all successors has every natural. From it follow the existence of what a recursive
function over `0..n` computes (`IterationsExist`) and least elements (`LeastNatural`); the
proofs about walks, chains of merges, rankings and sums rest on these.

**Only model-checked.** The liveness properties `PublicationsProcessed` and `RetriedOnceFixed`,
which are beyond the prover, like ENABLED. Every invariant and action property of a passing
run is stated by a theorem.
The runs that expect a violation state what the code does not do, and have no theorem.
The cache has its types proved and nothing else: what the documents say of its eviction does not hold.

## Where code and documents disagree

1. **Edit races publication** (`services/registry.py:178`, run `registry_edit_race`). The
   check "Published current versions are immutable" uses the object as loaded; a publication
   that commits before the edit makes the edit change a published version.
2. **Approval survives edits** (`services/publish_gate.py:89`, `registry_stale_approval`).
   `src/docs/OPERATIONAL_TASKS.md:259`: "if a published high-risk object is edited, it should
   return to `IN_REVIEW` before re-publishing". No handler writes IN_REVIEW, and an approval
   counts for whatever the version contains later.
3. **Review hides a published object** (`services/review.py:44`, `registry_review_hides`).
   Reviewing a new draft writes REVIEWED to the object, which takes the published version
   out of the public API; `src/docs/ARCHITECTURE.md:547` shows a lifecycle that only moves on.
4. **Starvation behind failing events** (`cli/worker.py:68`, `outbox_starvation`). The comment
   at `cli/worker.py:90` says a dedicated session keeps events behind a failing one from
   starving; as soon as permanently failing events fill a batch, they do.
5. **Turns are forgotten** (`retrieval/conversation_memory.py:78`, `ask_forgotten`).
   `save_turn` flushes after the request's last commit, and the session is closed without
   another: no turn is ever stored. Line 3 of the file: "Stores and retrieves
   conversation turns so follow-up queries can incorporate context from prior turns".
6. **Merged drafts lose their risk** (`cli/ingest/canonicalize.py:128`,
   `canonicalize_risk`). Safety is carried over from the deprecated drafts only; a draft
   that already has the canonical slug is overwritten without being looked at. The
   docstring at line 99: "A merge or split must never lower the risk band or drop safety text".
7. **A refused publication is published by the next load** (`cli/ingest/load.py:64`,
   `load_past_gate`). The patch to `published` comes before the validation and stays when
   that refuses; a plain load validates without the gate and seeds the drafts as they are.
   `cli/ingest/validate.py:253`: the blockers are errors "so the load step refuses to ship
   broken content".

Others met while modelling. The model does what the code does, and the properties are stated
so that they hold; no run of its own is about them. The first five contradict a text of the
repository:

- Two processes that complete the last two passes of a job at once each read the other's pass as
  running (`services/ingest.py:119`): all passes end completed and the job stays running, though
  the docstring at line 118 says "If all passes are done, complete the job." `services` with two
  `Reporters` shows it as a violation of `JobTellsPasses`. Only jobs that were not made by
  `create_job` can come to it at this commit.
- Rows of one slug from two sources lose segments (`cli/ingest/draft.py:267`). They become one row
  with the first one's `source_id`, bare ids of the other source are resolved against that
  (line 335), and a bare id that both have is kept once. The docstring at line 256: "Merge their
  segment_ids so a single draft sees all of the source." `DraftCoversMatrix` without its
  hypothesis `OneSource` fails on it.
- Merging entities deletes edges that equal no other (`services/entities.py:155`). Three
  independent IN lists recognise a duplicate by its end, the kind of the end and its type, each of
  which may come from another edge. The comment at line 144: "Delete source-as-src edges that
  would duplicate a target-as-src edge." The ends stay joined (`MergeKeepsNeighbours`); the
  relation the edge stood for is gone with its citations.
- The segment of a document without headings that begins with a page marker has a first page on
  which nothing of it lies (`cli/ingest/parse.py:146`). The docstring at line 73: "page at the
  segment's first non-marker character".
- The cache is not LRU (`api/response_cache.py:47`): the entry set first goes, whatever was read
  since. `src/docs/ARCHITECTURE.md:976`: "with a max of 1000 entries and LRU eviction". No route
  uses the cache.

- `create_job` takes the job's id before the flush that assigns it, so its passes are
  refused and no request creates a job (`services/ingest.py:54`).
- The pipeline's mirror is called best effort, but from a coroutine it never runs at all
  (`cli/ingest/project.py:159`): after `parse` the database hears of no pass.
- Requests with a key are limited by no key: the middleware reads a hash the dependency sets
  later (`api/rate_limit.py:30`), though `src/docs/ARCHITECTURE.md:349` and 820 speak of a quota
  per key. The model counts the public routes by address, as the code does.
- A merged entity still accepts aliases, links and edges: no handler looks at the status.
- `beginner_safe` with an explicit `difficulty_max` of 5 lifts the cap of 3
  (`search/adapters/postgres_search.py:50`).
- Graph-expanded candidates pass no filter of the question, and a version published between
  text and vector search may stand beside the one it replaced (`retrieval/service.py:143`).
- Of an answer's next steps those without a slug are dropped, though the comment at
  `retrieval/answer_composer.py:302` says that dropping was the old behaviour; steps start
  at number 2 when the guide has no smallest viable version.
- `rotate_key` on a key that is already revoked makes a second live successor
  (`cli/keys.py:75`).
- `set` on a full cache evicts another entry even when it only replaces one
  (`api/response_cache.py:45`).
- A pack's drafts are announced for indexing as if published (`cli/seed.py:312`); a second
  load never changes an object that exists; evidence spans are inserted again by each seed
  (`cli/seed.py:471`); two equal edges of the API make the seed fail (`cli/seed.py:346`).
- A split whose children all lack a slug archives the parent and leaves nothing
  (`cli/ingest/canonicalize.py:196`); a torn draft counts as existing for
  `--skip-existing`; `init` that died refuses its own directory; a torn manifest ends the
  project (`cli/ingest/project.py:179`).
- Text before the first heading is in no segment (`cli/ingest/parse.py:60`).

## Not claimed

- Under concurrency the boundary and contradiction checks, the risk band seen by the gate
  and the validity columns are all subject to lost updates and check-then-act races at
  READ COMMITTED. The model has these races; `GateAtPublication`, `PublishedIsLive` and
  `PriorSuperseded` are stated for one request at a time, and nothing in the
  repository promises more.
- With two workers `FreshWhenSettled` fails: a slow worker can insert segments from text it
  read before an edit and a second publication. It needs three publications and one edit.
  With any number of workers the index does not follow an edit that commits on a published
  version: no event tells it.
- With two reporters `JobTellsPasses` fails: the job of two processes that finish together stays
  running (see above), and a lost update may leave a job running whose pass has failed.
- A key configured after versions were processed without one embeds nothing retroactively:
  the code logs the skip and promises nothing.
- Two merges at a time: nothing in the repository runs one, let alone two.
- Two turns of one conversation with the same number: no constraint forbids them, but as no
  turn is stored at all there is no state to show it on.

## Not modelled

- The composition of `Registry` with `OutboxWorker`. The worker sees of the registry which
  texts were published when; `LoadEdit`, `CommitEdit` and `Publish` are that projection, and the
  product of both state spaces is out of TLC's reach at bounds that would show more.
- `chunk_text`, the segment serializer, prompts, rendering of public pages and exports,
  logging: text without state.
- Listings with a cursor, metrics, the evaluation command, the review queue,
  `search_entities`: reads of one statement.
- `attach_facets`, `create_source`, `create_span`, feedback and contributions, the audit
  log: they insert or overwrite rows that no other handler decides on.
- The intent classifier by a language model: its answer is one of the intents, which the
  questions of `Ask` give directly; the text of gaps in a pack.
- Ranking inside PostgreSQL, embeddings as vectors, YAML, PDF conversion, HTTP: external.
- Routing, error mapping, request validation, configuration: no state.
- Migrations, deployment scripts, data packs: not part of the running program.
