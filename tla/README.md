# code2graph: a TLA+ model of the extractors, the graph and the CLI around them

code2graph turns source files into structural facts and a graph of symbols. The
libraries (`src/`, `query/`) are pure functions: extractors that walk a syntax
tree, resolvers that link names, an index that answers questions. The state, the
concurrency and the failures are in the CLI (`cli/`), which keeps a SQLite cache
per project, shares it between processes and between releases, reads a tree nobody
locks, and extracts files in worker processes that may crash or hang. The CLI is
modelled as state machines. The libraries are modelled as operators, compared with
definitions of what they compute, and as the steps of the one stateful part, the
incremental graph.

## The system

| part | state | operations | talks to |
|---|---|---|---|
| worker pool (`cli/src/refresh/prepare/{pool,recovery,api}.rs`) | work cursor, results, a registry of worker pids, one session per thread | claim an item, send, read, recover from a death by one respawn, kill at the deadline, join | worker processes over pipes; the monitor thread shares the registry |
| worker process (`cli/src/worker`) | none between requests | decode a request, extract, answer, die, hang | pool thread |
| refresh preparation (`refresh/prepare/pipeline.rs`, `plan.rs`, `budgets.rs`) | a candidate under construction | discover, plan, read, hash, extract, resolve | file tree, pool, prior snapshot |
| revalidation and publication (`refresh/publish.rs`) | attempt counter | discover and read again, publish, retry | file tree, cache store |
| command lifecycles (`execution/lifecycle.rs`) | the selected snapshot | select, check currency, refresh, answer, fall back to a stale snapshot | all of the above |
| cache store (`cache/store.rs`, `cache/store/*`) | SQLite tables: compatibility, candidates, files, graphs, active slots | publish in one transaction, collect garbage, invalidate, select, load, read by pages | other processes through the database |
| cache policy (`execution/cache_policy.rs`) | none | load a prior or condemn the cache | store |
| opening and schema (`cache/schema.rs`, `open_writable`) | layout version, tables | create, join, validate, reset, rebuild | other processes and releases |
| cache directory (`lifecycle.rs`: prune, clear, rebuild) | the directory | judge, unlink, remove | processes that have the database open |
| extractors (`src/extract/*.rs`) | none | collect symbols, references, scopes, bindings and exports of one file; validate them | worker process |
| resolver tiers (`src/resolve`) | none | link references to definitions; merge the tiers | refresh |
| incremental resolution (`src/resolve/incremental`, `refresh/resolve.rs`) | subgraphs of files, definition index, pending references and their answers | batches of updates and removals, restore, deltas | prior snapshot, consumers of deltas |
| query index (`query/src`) | owned index of a graph | build, patch by deltas, paged reads, impact | query commands |
| selectors and query commands (`cli/src/selector`, `cli/src/commands`) | none | resolve names, identities and positions, answer, aggregate, limit | index or cache store, the disk |
| symbol identities (`src/symbol`) | none | render, parse, stamp with a package | everything that is persisted |
| codecs, project selection, configuration syntax, language bindings | none | conversions and lookups | - |

What makes them correct, and hard to test:

* *Pool.* No thread may block where the deadline's monitor cannot reach it; a pid
  may not be signalled after it was reaped; a crashing file must not take its
  neighbours with it; the verdict must not depend on scheduling; nothing is
  answered twice or left behind.
* *Refresh.* The tree changes while it is read. A published snapshot should be the
  tree of some moment, an answer called fresh should be true to a moment of the
  command, and drift should be blamed only on a tree that changed.
* *Store.* Each transaction may fail at any statement; other processes read
  between transactions; rowids are reused; builds differ in their fingerprints.
* *Opening.* The version is read before the lock; two releases, two first openers
  and a pruner may meet in one directory.
* *Incremental graph and query index.* Updating must equal rebuilding, whatever
  batches, deltas and restarts led there.
* *Wire.* Both sides write and read the same keyed maps by hand, under limits that
  each applies for itself; an answer must never be taken for that of another
  request.
* *Extractors.* Calls, reads, writes, imports, scopes and bindings are collected by
  separate walks that meet only by byte offsets. No two may claim one byte, and
  together they must make a name mean what the language says.
* *Resolvers and queries.* Searches through cycles and diamonds, unions of tiers,
  bounds that cut between two levels, positions counted in lines and columns.

`PROJECT.json` lists every component with what is modelled of it, every hazard at
its line with the properties that cover it, and the findings.

## Modules

| module | models | abstract specification |
|---|---|---|
| `ExtractionBatch` | what the pool promises: each item answered once, then return | - |
| `WorkerPool` | pool threads, sessions, registry, monitor, recovery, worker processes | `AnswersEveryItemOnce`: refines `ExtractionBatch` |
| `SnapshotSlots` | what the cache promises: slots that are replaced whole | - |
| `CacheStore` | tables and transactions of the cache, processes of several builds | `PublishesWholeSlots`: refines `SnapshotSlots` |
| `SourceIndex` | `index` and queries over a tree that is being edited | - |
| `CacheDirectory` | opening, rebuilding, pruning and clearing one cache directory | - |
| `Facts` | the facts of one file, identities, scope walk, edges and their keys | |
| `FileSubgraph`, `GlobalIndex` | one file resolved by itself; the definition index and every lookup in it | |
| `IncrementalGraph` | the store of subgraphs under batches, restarts and deltas, with a consumer | full resolution of the current facts (`AnswersAreCurrent`) |
| `GraphIndex` | the query index, built and patched | `MirrorAgrees`: patched equals built |
| `Resolvers` | conformance, local-type, name, scope, FFI, external and folded-name tiers and their union | reference definitions in `Algorithms` |
| `Impact`, `Queries` | bounded reverse reachability; paged reads, selectors and commands | reference definitions in `Algorithms` |
| `Refresh` | budgets, package assignment, continuing from persisted subgraphs; projects for the tiers | reference definitions of its own (`RefreshesContinue`, `DiscoveryIsExact`, `MergeKeepsTheBest`) |
| `SymbolIds` | the written and the wire form of identities | |
| `WorkerWire` | frames, scan, keyed maps, conversion, validation, worker loop, both clients | |
| `Algorithms` | inputs that grow element by element, and the reference definitions | |
| `ExtractSupport` | syntax trees, the queries walks make of them, the helpers all extractors share, foreign exports | |
| `RustExtractor`, `EcmaScriptExtractor`, `PythonExtractor`, `JvmExtractors` (Java, Kotlin, Scala), `CFamilyExtractors` (C, C++, C#), `MobileExtractors` (Swift, Dart), `SystemsExtractors` (Go, Pascal, Solidity), `ScriptingExtractors` (PHP, Lua, Ruby, shell), `DocumentExtractors` (SQL, HCL, Svelte) | every walk of every extractor | |
| `Extraction` | choice of the extractor, repeated identities, the contract | the language's own binding (`NamesAreFound`) |
| `WorkerPoolProofs`, `CacheStoreProofs`, `SourceIndexProofs`, `CacheDirectoryProofs`, `IncrementalGraphProofs`, `GraphIndexProofs`, `MirrorProofs`, `AlgorithmProofs` | theorems | |
| `MC*`, `SampleFacts`, `SampleSources` | constants, contents, commands and sample sources for TLC, with the layout of the sample trees | |

The modules are joined at the places where the code is. `SourceIndex` uses the
pool as "a file extracts, fails, or is never answered" (`WorkerPool` checks that
this depends on the file alone: `Contained`) and the store as two slots that are
replaced in one step (`CacheStore` checks that: `PublishesWholeSlots`).
`CacheDirectory` treats a publication as one write, for the same reason.
`WorkerPool` treats a reply as one step; `WorkerWire` says what is in it.
`IncrementalGraph` composes `FileSubgraph` and `GlobalIndex` with a consumer's
`GraphIndex`; `Queries` reads that index, with `Impact` as an instance; `Refresh`
uses the same subgraphs; `Extraction` resolves what it extracts with `FileSubgraph`.

### WorkerPool

One action per statement that other threads can observe: `Claim` is the
`fetch_add`, `OpenSession`/`Register` the spawn and its entry in the registry,
`DeadlineCheck`, `Send`, `Read`, `ReadEof` one trip of `extract_with_recovery`,
`Respawn`, `Unslot`, `Reap`, `ReplaceWorker`, `Reslot` the statements of
`ProcessSession::respawn` in their order, `KillAll` a round of the monitor. Files
have a *nature* that decides how a worker takes them: facts, extraction error,
crash, hang, torn protocol. `StrayDeath` is a process killed from outside, `Expire` the
deadline or a cancellation. Panics of pool threads are not modelled, and neither
is the payload of a message.

### CacheStore

The tables are sets of records with the keys of the schema. A publication goes
statement by statement (`InsertCompatibility`, `PutCandidate`, one `InsertGraph`
or `ReuseGraph` per tier, `Activate` within it, `Collect`, `Commit`) on a private
copy that becomes visible at the commit; `Rollback` is any failure or the death
of the process. Readers select, open and page in transactions of their own.
`NextRowids` gives a rowid one above the largest in the table, as SQLite does
without AUTOINCREMENT. Blobs are the facts they hold.

### SourceIndex

A process goes through `list` (the walk of the currency check), `verify` (content
check of `index`), `prior`, `scan` (the walk of a preparation), `read`, `rescan`
and `recheck` (revalidation), `publish`, `published`. Walks and reads take one
file per step, in any order, and edits of files, manifests and rules come
between. A file's content has a nature: it extracts, fails to, has facts that
fail validation after enrichment, is no UTF-8, or exceeds a budget. A stamp
stands for size, mtime and inode; with `StampsTell = FALSE` an edit may leave it
alone. The compatibility of a snapshot is the manifests' state and the set of paths the
budgets retained (`IsCompatible`); currency check, reuse of a prior and revalidation all
ask for it, so the inventory count after it in the currency check never decides.
`past[p]` is a history variable: the worlds since the command began.
The graph is left out: it is a function of the facts. One resolver tier is enough
for what is asked here, since tiers meet only inside the store.

### CacheDirectory

Files are databases with a `user_version`, a layout and whether a snapshot is in
them; the path names at most one of them, and an unlinked one lives on for those
who have it open. `open_writable` is `MakeDirectory`, `Connect`, `ReadVersion` and then
one of `InitializeOrJoin`, `Validate` (with `ResetLegacy`) and `Recreate`; a
prune is `Judge`, `Unlink`, `RemoveDirectory`, and `Clear` skips the judgement. `Close` is the
end or the death of a process at any point.

### Facts, FileSubgraph, GlobalIndex, IncrementalGraph, GraphIndex

`Facts` holds what extraction leaves of a file, with names as strings and written
paths as sequences of segments. `BuildSubgraph` is `build_subgraph`: references that
their own file answers become edges, the others are left pending with the domains in
which an answer may be found. `GlobalIndex` is the definition index of
`stitch.rs` with its buckets, re-exports and `ResolvePending`. An action of
`IncrementalGraph` is one call of the store: `ApplyBatch` with the order in which
the changed files are visited (bounds of a tracked delta depend on it),
`RefuseBatch`, `Restart` with any damage to persisted units, and for the consumer
`Apply` (again, late, or never) and `Reindex`. Sorted bucket vectors are sets,
because every order is a total order on identities. `sound` turns false where the
source reports an index invariant error. Snapshot tokens are the graph they stand
for.

### Resolvers, Refresh, Impact

One operator per tier, from the facts of all files to its edges, then
`MergeGraphs` and `SupplementScopedGraph`. `Refresh` has three parts: the budgets
in listing order, the climb for manifests and the choice among them, and
`ResolveScope`, which decides whether a refresh continues from persisted subgraphs
or starts over. It has a specification of its own, `RefreshSpec`: files and references
for the tiers, facts, manifests and listed files that come one at a time, and refreshes of
ever new trees with damage to persisted units in between. `Algorithms` takes these steps over (`RefreshInputs`,
`RefreshNext`), so that one run checks them. `Impact` is the level-by-level search with its paging loop, and the
commands that share one bound among seeds.

### Queries

A context holds the index, the hashes of the loaded snapshot, raw references and
the disk as it is now. Reads are sequences of rows under cursors, and every reader
goes through the paging loop. A text is a sequence of characters, with carriage
returns, line feeds, and characters of two bytes; that is all that positions and
hunks depend on. A search looks for a whole word of a field instead of a substring.
The error of an answer keeps its kind only.

### SymbolIds, WorkerWire

A text is a sequence of characters, one standing for each class the escape rules
distinguish. A stream of the protocol is a sequence of cells, one for a marker with
its number, one for each byte of a text. Both directions are modelled: what a
worker writes and the parent reads, and the reverse, with the scan for depth,
string and collection limits, the keyed maps with unknown, repeated and missing
keys, the conversion to facts, and the validation on either side. `Serve` is the
worker's loop, and the two clients are the persistent session and the one-shot
process.

### Extraction

A syntax tree is a sequence of nodes in the order of a walk, with parents, fields,
kinds and texts; the parser is external, and the samples are trees as the grammars
give them. Tree-sitter trees are immutable and the walks only collect, so a walk is
the set of nodes it keeps, and a helper with an accumulator the sequence it makes.
Leaves are one byte wide, which keeps all that offsets decide. Sample nodes carry
marks: a declaration has a positive one and each use of it the negative. No
operator of an extractor reads a mark; they state what the language says the
name means. Lines, columns, signatures, visibilities and entry points (routes, test
and main markers) are left out.

## What is checked

| run | system | shows |
|---|---|---|
| `pool_safety` | 2 threads, 4 pids, 2 items of 5 natures, 1 stray death | the pool's safety properties and its refinement of the batch |
| `pool_liveness` | the same, 3 natures | the pool drains after the deadline; without hanging files it returns by itself |
| `store_safety` | 3 processes, 2 builds, 2 tier sets, 4 publications begun | keys, loadability, garbage, pages of one graph, whole slots |
| `store_upgrade` (violation) | the same | an older build's row blocks a newer build's publications |
| `index_safety` | 1 process, 2 files, 2 contents (one no UTF-8), quiet edits, 2 edits, 2 commands (`index`, `index --trust-mtime`, queries, stale queries) | what is published existed, what is fresh is vouched for, drift is blamed on edits only |
| `index_race` | 2 processes, 1 file whose facts may never validate, a quiet edit, 2 commands (`index`, `index --force`) | `index` is exact while another process replaces rows, and every command ends |
| `directory_open` | 3 processes of 2 builds, 2 files, any initial cache | an open succeeds only on the build's own layout; only a rebuild costs a snapshot |
| `graph_incremental` | 3 Rust files in several versions, batches of one and two, damaged units, a consumer of deltas | definition index, pending references, stored answers and the consumer's index equal those built anew |
| `graph_stale` (violation) | the same without damage | an edge through a re-export outlives its target |
| `graph_delta` (violation) | 2 files of one Go package | a delta removes a symbol that is still defined |
| `algorithms` | 14 kinds of growing inputs | impact, queries, inherited members, tiers, re-exports, persistence, identities, discovery, protocol: each against a definition of what it computes |
| `extraction` | sample sources of 22 languages | facts meet the contract, no byte has two roles, names mean what the language says |

The properties of `algorithms`, by kind of input:

* `ImpactIsExact`: each symbol at its least distance with the widest path of that
  length, truncation told exactly, one bound for all seeds.
* `QueriesAreExact`: selectors by name, display, identity and position mean exactly
  the definitions (or endpoint-only identities) they should; every command prints the
  first rows of all there are, with the right total; each import is evidence of one
  dependency; a character is at the byte its line and column say; a diff selects
  what it touches.
* `SearchesAreExact`: inherited members by simple paths, re-exports by all chains.
* `MergeKeepsTheBest`, `NameTierRecalls`: the union keeps each fact (source, target, role and
  place) with one confidence, the greatest, and one edge for each provenance that
  has it; what the scope tier finds by the name as written, the name tier finds too.
* `RefreshesContinue`: a refresh that continues from persisted units, sound or
  damaged, holds the same units as one that starts over.
* `IdentitiesRoundTrip`, `DiscoveryIsExact`, `AnswersCrossThePipe`: written forms are
  read back and nothing else is; the nearest manifest that parses owns a source and
  budgets are respected exactly; facts that are within the limits arrive as they
  were sent and no reply is taken for that of another request or file.

### Bounds

* Two pool threads and two items are the least with a neighbour and a shared
  cursor; four pids let both threads respawn, since a file is retried once.
* In `CacheStore` three processes allow two publications around a paging reader, and
  four begun publications allow one to be collected and its rowid to be reused.
* In `SourceIndex` two files distinguish a mixture from a state of the tree; two
  edits fall on both sides of any read; two attempts stand for the three of
  `MAX_REFRESH_ATTEMPTS`. Files can be created, changed and deleted. Two commands are
  a publication and a judgement of it. The model takes it that stamps and manifest
  states do not recur. Contents may, and so may absence: with more edits than the
  runs allow, a file could be back at its old bytes at each moment it is read, and
  `PublishedTreeExisted` therefore asks for one common moment of stamps and
  manifests, and for bytes and absence file by file.
* In `CacheDirectory` two files are one that is unlinked and its successor. Layout
  versions 1 to 3 hold one older than both builds. Nothing else is bounded:
  processes open, publish, close and prune for ever.
* In `IncrementalGraph` nothing is bounded but the contents: the file that asks has a
  reference for each way of resolution, the one that forwards renames, defines or
  re-exports, the third defines, defines something else, or is invalid.
* `algorithms` tries all prefixes and subsets of its pools up to `MaxLineEnds` 3 lines
  of a diffed file and two hunks, `MaxRelations` 4 supertypes, `MaxUses` 2 references over any set of files,
  `MaxCandidates` 4 listed files, `MaxScipLen` 3 characters after five beginnings,
  `MaxLinks` 3 edges over any set of definitions, `MaxText` 4 characters.
  `PageSize` 2 and `MaxNameFanout` 2 are small enough to be passed. The limits of the
  protocol (`RequestFrameMax` 120, `ResponseFrameMax` 800, `MaxDepth` 8,
  `MaxStringBytes` 16, `MaxCollectionItems` 12, `MaxErrorMessageBytes` 6) are such
  that parts of the pool lie just within and just beyond each.
* `extraction` has a family of sources for each language. A family is a template
  whose places are filled in several ways, so that each walk meets the positions
  that another one leaves to it.

### Fairness

Safety is checked without fairness. `ExpiryDrainsPool` assumes that the threads and
the monitor of a process run; a worker need not answer. `AnswersWithoutHang` also
assumes, as a premise of its own (`WorkersRun`), that a worker that was sent a file it does not hang on answers or dies:
it is a sequential program. `EveryCommandEnds` assumes weak fairness of one
sequential process; it waits for no other, and SQLite's busy timeout is the
failure `GiveUp`. Editors are never assumed to stop, except that the run bounds
their edits; the number of attempts is what ends a command there.

## What is proved

TLAPS proves the following for any constants that satisfy the named assumptions: any
number of threads, processes, files, builds, contents and steps. Each theorem of a
state property has the same shape. The property is seldom inductive, so the component's
module ends with a stronger invariant made of named parts; the proof shows that it
holds initially, that each action keeps it, and that it implies the property.

**`WorkerPoolProofs`**, from `PoolAssumption` (threads, pids and work).

* `TypeCorrect`; `KillsHitOwnWorkers` (`HandlesAreLive`), `BlockedReadsAreReachable`
  (`BusyIsKillable`) and `PoolReapsItsWorkers` (`NoWorkerOutlivesPool`) from
  `Ownership`: which processes a thread owns at each statement of its loop, that no
  process has two owners and exists exactly while it is owned, and that a worker is
  busy only while its owner reads.
* `PoolImplementsBatch` (`AnswersEveryItemOnce`) from `Accounting`: an item below the
  cursor is answered or held by exactly one thread. Pushing a result is the batch's
  answer, everything else stutters.
* `FilesAreContained` (`Contained`) and `VerdictIsSerial` (`SerialVerdict`) from
  `Containment`. `Contained` speaks of finished items only. To keep it one must know of
  the items under way that a waiting reply is the one the file deserves or spoilt by
  an earlier item of the stream; that a torn stream was torn by an item below every one
  its thread can still take; and that a death on the second attempt is the file's own,
  since the replacement was spawned for it alone. The serial verdict adds that a
  returned pool has answered everything (`Accounting`) and takes the least item that is
  fatal: there is none before it that could have torn its stream.

**`CacheStoreProofs`**, from `StoreAssumption` (what a refresh hands to the store) and
`ViewAssumption` (a view is told from the lack of one).

* `TypeCorrect`, with the job of a transaction and the view of a reader.
* `RowsAlwaysAgree` (`RowsAgree`), `LoadsAreSound` (`LoadsFindNoCorruption`),
  `CollectorIsComplete` (`NothingSupersededIsKept`) and `ReadersSeeOneGraph`
  (`PagesNeverMix`) from `StoreInv`, which is about the committed tables and the private
  ones of the writer alike. The keys of the schema are not enough: a graph must have
  the facts of its candidate, a slot a graph of its own tier and class, and the
  snapshot with the largest rowid must be active, as otherwise collecting it would
  free the rowid for a reader to find it under another graph. `TiersUntouched` says
  that a transaction which has not come to a tier has left its slots alone, so that no
  graph is found without a slot in the middle of it. `CollectorIsComplete` is about
  snapshots and candidates: no publication collects compatibility rows, and one of
  those is what `store_upgrade` meets.
* `CacheImplementsSlots` (`PublishesWholeSlots`) from `SlotsFollow`: seen from the slots a
  transaction has, at any point, only put its own candidate where something was or
  was not, and emptied nothing. At the commit all its tiers change at once.

**`SourceIndexProofs`**, from `IndexAssumption` (natures, bounds, commands, finitely many
files, markers outside what they mark).

* `TypeCorrect`: a snapshot lies in the slot of its class, and its rows and omissions
  name different files.
* `PublishedTreesExist` (`PublishedTreeExisted`) from `IndexInv`: a listing agrees, file by
  file, with moments of the command, and once revalidation has begun there is one
  moment whose stamps and manifests are those of the candidate, at which each file
  read again since had its stamp. Stamps count edits: what the tree still holds from
  before an edit it held at each moment since then (`Since`), so rows no younger than
  that edit (`Dated`) which revalidation finds again were all there at such a moment.
* `IndexAnswersAreCurrent`: what `index` calls fresh the command could vouch for, with any
  number of processes publishing in between. `FreshAnswersAreCurrent` is
  `FreshMeansCurrent`, queries included, under `QueriesStand`. A query does not
  answer from what it published but from what is active afterwards: perhaps the snapshot of
  another process, or a complete one that is preferred to its partial one. So the
  theorem is for processes that only `index`, or for one process whose queries have no
  `--allow-partial`, as in the runs; without that the property is false, as the
  observations below say.
* `DriftIsTheTrees` (`DriftBlamesTheTree`), for any number of attempts, from
  `AttemptsCost`: every attempt given up has an edit of its own, and an attempt
  whose edit has not come yet is `Undisturbed`, which means that all it has read and
  listed is what the tree still holds. `FactsAreValid` excludes facts that fail
  validation after enrichment, for which the property is false (see below).

**`CacheDirectoryProofs`**, from `DirectoryAssumption`.

* `TypeCorrect`; `OpenersGetTheirLayout` (`OpensSafely`): every way into `open` either
  creates the layout or has just compared it, under the lock where the version is read
  again; `OnlyRebuildsDropSnapshots` (`OpeningKeepsSnapshots`): a published snapshot is lost
  only to a process that read an older version from that database. Its invariant adds
  that a version 0 has no tables, so that whoever creates them destroys nothing, and
  that a process on its way to rebuild has seen an older version. What it saw may no
  longer be true, as described under the observations.

**`IncrementalGraphProofs`**, from `BatchAssumption` (batches name files of the order) and
`QualifierAssumption` (qualifiers are lists of names, `Vec<String>`).

* `IndexExact` (`IndexIsOfFiles`) and `PendingExact` (`PendingIsOfFiles`) from `Exact`: every
  subgraph lies under its owner, the definition index is the one of the files held, the
  pending references are theirs, the reverse index holds exactly their domains, and
  answers are stored for exactly those references. That taking the records of one
  owner out leaves the others' alone needs the owners, and that a patched reverse index
  is the one built anew needs the pending references of the version before. The
  re-export bucket is the hard case: it is patched per replaced file, and the lemma
  shows that no record of another file is taken along.
* `TypeCorrect`, which adds that every answer is at most one edge.
* `SelectiveResolutionSuffices` (`AnswersAreCurrent`) from `Exact`: a commit resolves again
  the references a changed definition matches by name, domain and namespaces, and
  that is enough for each reference without a re-export. The step has two halves. A
  reference no changed definition matches meets the same definitions before and after, in
  each of the buckets its lookup asks (`MatchedIsAffected`, `SameAnswer`). And the alias search finds
  just the definitions of the path itself where no record has that path
  (`LookupWithoutAlias`). The search is a recursive function whose trail only
  grows. `AliasSearchUnfolds` shows that its equation has a solution, and hence
  that TLA+'s choice of one satisfies it: the least of the answers closed under a step
  of the search is one, which takes no induction.
  Which references the hypothesis leaves out is what `graph_stale` is about.

**`GraphIndexProofs`**, from no assumption on constants.

* `DeltaIsRebuild`: for any two graphs and a delta that is their difference (each symbol
  and edge removed or added once, changed symbols added with their new content), the
  index of the first with the delta applied is the index built from the second. All
  buckets are compared, those by name and by endpoint too, the reference counts of
  endpoints, and the identities known only as endpoints. Both sides are folds. The
  fold over a list is shown to depend on the set it lists, when nothing is listed
  twice, and a count to be the number of edges at an endpoint. Induction along a list
  is done with the least number of a set (`LeastNumber`, `InductionUpTo`), which
  takes no operator parameter.

**`MirrorProofs`**, from `BatchAssumption`, `OrderAssumption` (the order of files is a list),
`ListAssumption` (a subgraph holds lists, `Vec`) and `QualifierAssumption`.

* `MirrorStaysExact` (`MirrorAgrees`), `LineageIsEnough` (`LineageSuffices`) and
  `RemovalsAreAbsences` (`RemovedAreAbsent`). The inductive invariant is `Exact`, with
  four more parts: files and stored answers are made of lists, and a pending reference
  has at most one edge (`Held`), the snapshot last told of is the graph of the store (`SnapshotIsGraph`), the delta on its
  way is the whole difference of the two graphs it names (`DeltaIsWhole`), and the
  consumer's index is built from the graph of its token. That a
  delta made of the changed files and the references selected with them misses nothing
  uses that all other files and answers stay as they are; `DeltaIsRebuild` does the
  rest. The theorems have a hypothesis, `Separate`: no identity is defined
  twice and no edge comes from two places. It is needed: two files of a Go or
  Java package share the symbol of their package, and `graph_delta` shows what happens
  then. It is no empty condition: it holds in every state of `graph_incremental`, which one
  sees by adding `INVARIANT Separate` to `MCIncrementalGraph.cfg`.
* `OnlyAliasesGoStale` (`GraphIsFullResolution`, which `graph_stale` refutes): in every
  state where no re-export lies on a pending reference, the graph is that of a full
  resolution. So the alias is all that sets the two apart.

**`AlgorithmProofs`**, from `FileAssumption`, `FactAssumption` and `TreeAssumption` (what is in
the pools has the shape of facts, and trees hold facts that a worker's answer was accepted
with) and `DiscoveryAssumption` (directories are lists of segments, sizes and limits are
numbers).

* `RefreshesAlwaysContinue` (`RefreshesContinue`), for any facts, trees and sequence of refreshes
  and damage. The lemma behind it, `BuiltIsRestorable`, follows `build_subgraph` for facts
  that passed validation and shows that each check a restore makes holds of the result. The
  invariant of the chain (`ChainInv`) says of each persisted unit that it was
  built from the facts beside it, except perhaps for its schema.
* `DiscoveryStaysExact` (`DiscoveryIsExact`). The climb for manifests ends at the first
  directory an earlier file has recorded; `CandidatesCover` shows that it misses no
  ancestor, since the directories recorded are closed under parents. Budgets are
  a fold over the listing: `AdmissionIsExact` says after each prefix what is retained, what it
  weighs and why each other file was left out.
* `MergeAlwaysKeepsTheBest` (`MergeKeepsTheBest`), for any files and references. The general
  part is `UnionKeepsTheBest`: of any list of graphs whose edges have one of the four
  confidences, the union has every fact, invents none, gives each the greatest
  confidence, and keeps one edge for each provenance. The rest shows tier by tier
  that its edges have one of these confidences (`IsGraded`); for the scope tier that
  takes the whole of `build_subgraph` and of the stitching. A project only ever
  grows by files and references of the pools (`ProjectInv`).

Only model-checked:

* Liveness, which is out of the prover's reach: `ExpiryDrainsPool`,
  `AnswersWithoutHang`, `EveryCommandEnds`.
* The other properties of `Algorithms`, and those of `Extraction`. Searches, parsers and walks of
  trees are RECURSIVE operators there, which the prover does not take, or functions of several
  arguments and filters of sequences by an operator, which its library says nothing of.
  Induction over numbers, lists and folds is possible as long as it is
  put as a fact about a set of numbers, and the proofs above do so.
* `NameTierRecalls` is about the kinds of definitions and references in the pools; of
  facts in general it is not true: for a relationship that names its subject the name tier
  takes that one for the source, and it answers with a module only where one is asked for.

## Findings

`PROJECT.json` quotes the claim each violation run refutes.

* `store_upgrade`: a former build's compatibility row blocks a new build's publications.
* `graph_stale`: a reference resolved through a `pub use` is not looked at again when the
  file behind the alias changes. In the CLI, one refresh is a restore and one batch,
  so the graph this refresh publishes has the stale edge. Persisted units hold no
  answers: the restore of the next refresh resolves all references anew.
* `graph_delta`: removing one of two files of a Go or Java package removes the package
  symbol from the consumer although the other file still defines it.

The models also show the following, which no run states as a property. Each is in
the definitions named, and is why a property excepts a case or a run leaves out a
command.

Cache and refresh:

* `Collect` deletes what no slot names: a process that pages through a snapshot, in
  transactions of its own, loses it to another's publication (`store.rs:589`).
* `Active` prefers a complete snapshot: a query with `--allow-partial` over an
  out-of-date complete snapshot refreshes, publishes a partial one, and answers
  from the old one as fresh (`lifecycle.rs:1186`). `index_safety` has no such query.
* `Answer` of a query selects again after its publication: if another process,
  which validated an older tree, publishes in between, the query answers from that
  as fresh. `index_race` has only `index`, which reports what it validated.
* `Trusted` reuses facts by stamps and `MatchesRecord` does not accept them: after
  an edit that kept its stamp, a refresh with `--trust-mtime` ends as drift of a
  tree nobody touches. `DriftBlamesTheTree` excepts the flag.
* Facts that never validate after enrichment are reported as drift of an unchanged
  tree, after all attempts (`publish.rs:246`). `index_safety` has no such file, and
  the theorem about drift says so (`FactsAreValid`).
* `index` reuses a partial snapshot with omissions that no longer apply: of a file that
  would parse by now, although a comment promises a re-check (`lifecycle.rs:1354`), and of
  an oversized file that is gone, as recorded omissions are compared in one direction
  (`lifecycle.rs:1264`) and such a file is not among the paths the compatibility id hashes
  (`fingerprint.rs:130`). Another file that is added or gone changes that id.
* `EditRules` changes no key: facts made under former binding rules are served as
  fresh, and `index --force` of an unchanged tree `Conflicts` with itself.
* `Read` counts a file deleted after it was listed as an omission, not as drift: a
  command without `--allow-partial` fails as partial over a tree in which every
  file could be indexed (`pipeline.rs:160`).
* `Judge` and `Unlink` are apart: a prune removes a cache that another process made
  or rebuilt in between; and `Keeps` does not spare a newer cache whose project is
  gone, against `README.md:165`.
* `Recreate` trusts the version it read before it had the lock: an older build can
  destroy the cache a newer one made in between (`store.rs:197`, `230`).
* `ApplyMetadataBudgets` counts retained files without an extractor against
  `max_files` (`budgets.rs:11`).

Graph and queries:

* A definition that is spelled like its caller in a folded name gives an edge from a
  shared package symbol to itself; the name tier drops callers located in the later
  copy of such a symbol; which copy's payload a tracked delta carries depends on hash order.
* `ExternalEdges` mints an external target although a local or a re-export shadows the
  import.
* `ChangedSymbols` maps lines of the diff to bytes of the working tree without comparing
  its hash, and follows links, where `ResolvePosition` does neither
  (`diff_impact.rs:58`, `position.rs:19`); an added line that itself starts with `++ `
  reads as a file header (`diff_impact.rs:176`).
* `references` looks facts up under the file as it was typed, unlike other commands,
  which normalise the path first (`lifecycle.rs:1165`).

Identities and protocol:

* The written form is not lossless for package fields with a space or that are a lone
  `.`: the header is split at spaces (`id.rs:404`), although `id.rs` and
  `serde_impl.rs:3` call it so. `IdentitiesRoundTrip` leaves them aside
  (`HasPlainPackage`).
* A worker encodes facts with strings or messages over the parent's limits; the parent
  takes them for a protocol error, which ends the refresh.
* A binding rule with a construct over the string limit is refused by the frame scan
  before the worker can skip it, so every request fails, although `runtime.rs:66`
  says that such strings never break extraction.
* The one-shot client compares a frame with its prefix against the limit for the
  payload (`process.rs:213`), so it refuses answers that the persistent one accepts,
  although `runtime.rs:29` promises the same behaviour.

Extractors. `NamesAreFound` and `UseHasOneRole` hold of the sample families; three
more families are in the sample modules and left out of `MCSources`, since the code
contradicts its own comments on them:

* Lua locals are never bound (`LuLocalSources`): `lua.rs:679` looks for a node kind that
  `lua.rs:176` says is only a field label, and for a list directly under a declaration
  where `lua.rs:278` says an assignment stands between.
* Each segment of a Swift `import App.Limits` is a Read as well (`SwImportSources`),
  against `swift.rs:796`.
* A TypeScript top-level `const` has a definition binding and a later local one
  (`TsConstantSources`): uses in the file resolve to a synthesised local, against
  `resolve/scope_graph.rs:31`; `go.rs:781` avoids this by design. Values of Scala
  classes have the same pair.

Smaller ones, which the samples are written around:

* Declared names that are also Reads: parameters in Dart, of Swift and single-name
  TypeScript and Java lambdas, of C++ references and PHP by-reference; loop variables of C++, C# and PHP;
  Solidity contract and member names; C and C++ macro names and uninitialised declarators;
  C# catch names and base lists; names of Pascal method implementations; Scala enum cases.
* Names that are not bound: Dart loop and closure parameters, lambda parameters in C#
  and Scala, Kotlin primary-constructor properties, Pascal locals, Lua loop variables and `self`.
* Bound too widely: catch and for-each variables in Java and C#, loop variables in Swift
  and C++, class attributes in Python, columns in SQL, unit-wide parameters of Pascal interfaces,
  blocks in PHP taken for scopes though its variables belong to the function.
* Rebinding: each assignment in Python, Ruby, PHP and each `:=` in Go makes a new
  binding; `let x = x` in Rust binds its right side to the new `x`.
* Imports: aliases in TypeScript and Python bind the original name; Scala's
  `import a.b, c.d` is one path; PHP imports keep no path; dotted Pascal units give one import per segment.
* Identities shared or missing: an inline `mod lib {}` and the file's own module; several
  namespaces of a C# or PHP file get the first one's name; SQL tables of one leaf name in
  several schemas; common table expressions of one name; nested C++ and Pascal types
  and PHP functions under `if` have no symbol.

## Not modelled, and the plan

`PROJECT.json` gives a reason for each component that is not modelled, or only in
part. Cache codecs, the parsers of manifests and configuration, project selection,
argument parsing and printing are conversions without state; language bindings wrap
the library; process containment and compaction are left to the operating system and
to SQLite. `status`, `--no-cache` and `--frozen` are not in `SourceIndex`: they select
among steps it has. A row of the map stands for the code a definition
translates; an auxiliary operator whose lines lie inside those of the operator that
uses it has mostly no row of its own. What could still be added:

1. Action properties of the proved components: that an answered item is never
   answered again, that a slot's class never changes, that the rowids of a reader's
   graph stay with it.
2. `IndexAnswersAreCurrent` for queries whose publication is not overtaken, as a statement about
   one command instead of a hypothesis about all.
3. Lines, columns and visibilities of the extractors, and their entry points.
