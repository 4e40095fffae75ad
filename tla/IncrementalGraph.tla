-------------------------- MODULE IncrementalGraph --------------------------
(***************************************************************************)
(* The incremental scope-tier store with its tracked snapshots             *)
(* (resolve/incremental/{store,state,tracked}.rs) and a consumer that keeps*)
(* a query index current from the deltas (query/src/index/update.rs).      *)
(*                                                                         *)
(* The store patches an index and re-resolves what a change can affect.    *)
(* What it must never do is end up with a graph that resolving the same    *)
(* files from nothing would not produce.                                   *)
(***************************************************************************)
EXTENDS GlobalIndex, GraphIndex, FiniteSetsExt

CONSTANTS
  FileOrder,    \* the file keys, sorted
  Batches,      \* the batches of changes: sequences of <<"upsert", facts>>
                \* and <<"remove", file>>
  Damaged       \* persisted subgraphs that are not what was stored

VARIABLES
  files,        \* file key -> its subgraph
  index,        \* the global definition index
  pending,      \* <<owner, ordinal>> -> pending reference
  by_domain,    \* the reverse index: {<<domain, name, id>>}
  resolved,     \* <<owner, ordinal>> -> <<edge>> or <<>>
  snapshot,     \* the token of the graph held
  delta,        \* the delta of the last batch
  mirror,       \* the consumer's query index
  verdict       \* what the consumer's last application of a delta said

store == <<files, index, pending, by_domain, resolved, snapshot>>
vars == <<store, delta, mirror, verdict>>

Target(change) == IF change[1] = "upsert" THEN change[2].file ELSE change[2]
Targets(batch) == {Target(c) : c \in Range(batch)}

ASSUME OrderAssumption == FileOrder \in Seq(STRING)

ASSUME BatchAssumption == \A batch \in Batches : Targets(batch) \subseteq Range(FileOrder)

(***************************************************************************)
(* prepare_changes: a batch is taken whole or not at all.                  *)
(***************************************************************************)
Accepted(batch) ==
  /\ Cardinality(Targets(batch)) = Len(batch)
  /\ \A c \in Range(batch) : c[1] = "upsert" => ValidStructure(c[2])

(* The isolated subgraph of every set of facts that can be accepted. *)
Built ==
  LET given == {c[2] : c \in {d \in UNION {Range(b) : b \in Batches} : d[1] = "upsert"}}
  IN  [facts \in {f \in given : ValidStructure(f)} |-> BuildSubgraph(facts)]

(* A subgraph is made of lists (Vec), and so is the qualifier of a pending *)
(* reference (Vec<String>).                                                *)
GivenSubgraphs == Range(Built) \cup UNION {Range(damage) : damage \in Damaged}

ASSUME ListAssumption ==
  \A sub \in GivenSubgraphs :
    \A list \in {sub.symbols, sub.intra, sub.pending} : list \in Seq(Range(list))

ASSUME QualifierAssumption ==
  \A sub \in GivenSubgraphs : \A p \in Range(sub.pending) : p.segs \in Seq(STRING)

(***************************************************************************)
(* Derived state of pending references (state.rs).                         *)
(***************************************************************************)
PendingIds(owner, sub) == {<<owner, i>> : i \in DOMAIN sub.pending}

ReverseEntries(ids, refs) ==
  UNION {{<<d, refs[id].name, id>> : d \in Domains(refs[id])} : id \in ids}

AffectedBy(symbol) ==
  LET domains == IF symbol.kind = "Module" THEN {"Module"} ELSE {"Ordinary", "Qualified"}
      key == IF symbol.kind = "Module" THEN symbol.name ELSE LeafName(symbol.id)
  IN  {id \in DOMAIN pending :
         /\ \E d \in domains : <<d, key, id>> \in by_domain
         /\ PendingMatchesSymbol(pending[id], symbol)}

(***************************************************************************)
(* commit_prepared_bounded, for changes that are subgraphs or removals.    *)
(* `next` is the file map after the batch and `targets` its file keys.     *)
(***************************************************************************)
Old(file) == IF file \in DOMAIN files THEN <<files[file]>> ELSE <<>>
New(next, file) == IF file \in DOMAIN next THEN <<next[file]>> ELSE <<>>

SymbolsOf(option) == IF option = <<>> THEN {} ELSE Range(option[1].symbols)

(* An upsert of a file that was not there counts, with or without aliases. *)
ReexportsChanged(next, targets) ==
  \E f \in targets :
    IF f \in DOMAIN next
    THEN \/ f \notin DOMAIN files
         \/ files[f].reexports # next[f].reexports
    ELSE f \in DOMAIN files /\ files[f].reexports # <<>>

AffectedByArrivals(next, targets) ==
  IF ReexportsChanged(next, targets) THEN DOMAIN pending
  ELSE UNION {AffectedBy(s) : s \in UNION {SymbolsOf(New(next, f)) : f \in targets}}

Affected(next, targets) ==
  IF ReexportsChanged(next, targets) THEN DOMAIN pending
  ELSE UNION {AffectedBy(s) : s \in UNION {SymbolsOf(Old(f)) \cup SymbolsOf(New(next, f)) :
                                             f \in targets}}

PatchedIndex(next, targets) ==
  LET replaced == {files[f] : f \in targets \cap DOMAIN files}
      installed == {next[f] : f \in targets \cap DOMAIN next}
  IN  InsertSubgraphs(RemoveSubgraphs(index, replaced), installed)

PatchedPending(next, targets) ==
  LET kept == {id \in DOMAIN pending : id[1] \notin targets}
      installed == UNION {PendingIds(f, next[f]) : f \in targets \cap DOMAIN next}
  IN  [id \in kept \cup installed |->
         IF id \in installed THEN next[id[1]].pending[id[2]] ELSE pending[id]]

PatchedReverseGrowing(next, targets) ==
  LET refs == PatchedPending(next, targets)
  IN  by_domain \cup ReverseEntries({id \in DOMAIN refs : id[1] \in targets}, refs)

PatchedReverse(next, targets) ==
  LET gone == {id \in DOMAIN pending : id[1] \in targets}
      refs == PatchedPending(next, targets)
  IN  (by_domain \ ReverseEntries(gone, pending))
        \cup ReverseEntries({id \in DOMAIN refs : id[1] \in targets}, refs)

PatchedResolved(next, targets) ==
  LET refs == PatchedPending(next, targets)
      definitions == PatchedIndex(next, targets)
      again == Affected(next, targets)
  IN  [id \in DOMAIN refs |->
         IF id \in again \/ id[1] \in targets
         THEN ResolvePending(refs[id], definitions) ELSE resolved[id]]

Commit(next, targets) ==
  /\ files' = next
  /\ index' = PatchedIndex(next, targets)
  /\ pending' = PatchedPending(next, targets)
  /\ by_domain' = PatchedReverse(next, targets)
  /\ resolved' = PatchedResolved(next, targets)

(***************************************************************************)
(* The graph held (IncrementalGraph::graph): files in key order, the first *)
(* symbol of an identity, own edges before resolved ones.                  *)
(***************************************************************************)
SymbolsAt(subs, file) == IF file \in DOMAIN subs THEN subs[file].symbols ELSE <<>>

EdgesAt(subs, answers, file) ==
  IF file \notin DOMAIN subs THEN <<>>
  ELSE subs[file].intra
         \o FlattenSeq([i \in DOMAIN subs[file].pending |-> answers[<<file, i>>]])

SymbolsIn(subs, order) ==
  FirstById(FlattenSeq([i \in DOMAIN order |-> SymbolsAt(subs, order[i])]))

GraphOf(subs, answers) ==
  [symbols |-> SymbolsIn(subs, FileOrder),
   edges |-> FlattenSeq([i \in DOMAIN FileOrder |->
                           EdgesAt(subs, answers, FileOrder[i])])]

Graph == GraphOf(files, resolved)

(***************************************************************************)
(* delta_from_bounds: what the changed files and the references selected   *)
(* with them held before, against what they hold after.  `shown` are the   *)
(* unchanged references the capture looks at.  The changed files are walked*)
(* in the order of a hash set, the same before and after: any `order`.     *)
(***************************************************************************)
BoundSymbols(subs, order) == Range(SymbolsIn(subs, order))

BoundEdges(subs, answers, targets, shown) ==
  LET ids == {id \in DOMAIN answers : id[1] \in targets} \cup (shown \cap DOMAIN answers)
  IN  (UNION {Range(subs[f].intra) : f \in targets \cap DOMAIN subs})
        \cup (UNION {Range(answers[id]) : id \in ids})

InAnyOrder(set) ==
  LET list[n \in 0 .. Cardinality(set)] ==
        IF n = 0 THEN <<>>
        ELSE LET before == list[n - 1]
             IN  Append(before, CHOOSE x \in set : x \notin Range(before))
  IN  list[Cardinality(set)]

DeltaFromBounds(base, token, symbols, symbols2, edges, edges2) ==
  LET ids2 == {s.id : s \in symbols2}
      keys2 == {EdgeKey(e) : e \in edges2}
  IN  [base |-> base, snapshot |-> token,
       removed_symbols |-> InAnyOrder({s.id : s \in symbols} \ ids2),
       upserted_symbols |-> InAnyOrder(symbols2 \ symbols),
       removed_edges |-> InAnyOrder({EdgeKey(e) : e \in edges} \ keys2),
       upserted_edges |-> InAnyOrder(edges2 \ edges)]

NoDelta == <<>>

(* The token is the consumer's "identity for one complete scope-graph      *)
(* snapshot": what matters of it is that equal tokens mean equal graphs.   *)
Token(subs, answers) == GraphOf(subs, answers)

(***************************************************************************)
(* Actions.                                                                *)
(***************************************************************************)
Init ==
  /\ files = <<>>
  /\ index = NewIndex
  /\ pending = <<>>
  /\ by_domain = {}
  /\ resolved = <<>>
  /\ snapshot = Token(<<>>, <<>>)
  /\ delta = NoDelta
  /\ mirror = Build(GraphOf(<<>>, <<>>), Token(<<>>, <<>>))
  /\ verdict = "Applied"

After(batch) ==
  LET upserts == {c \in Range(batch) : c[1] = "upsert"}
      kept == DOMAIN files \ Targets(batch)
  IN  [f \in kept \cup {c[2].file : c \in upserts} |->
         IF f \in kept THEN files[f]
         ELSE Built[(CHOOSE c \in upserts : c[2].file = f)[2]]]

(* apply_batch_with_delta. *)
ApplyBatch(batch, order) ==
  LET targets == Targets(batch)
      next == After(batch)
      shown == Affected(next, targets)
  IN  /\ Accepted(batch)
      /\ Commit(next, targets)
      /\ snapshot' = Token(next, resolved')
      /\ delta' = <<DeltaFromBounds(snapshot, snapshot',
                      BoundSymbols(files, order), BoundSymbols(next, order),
                      BoundEdges(files, resolved, targets, shown),
                      BoundEdges(next, resolved', targets, shown))>>
      /\ UNCHANGED <<mirror, verdict>>

(* An invalid fact or a target named twice leaves everything as it was. *)
RefuseBatch(batch) ==
  /\ ~Accepted(batch)
  /\ UNCHANGED vars

(* The store made from nothing out of a complete set of subgraphs. *)
FromNothing(subs) ==
  LET ids == UNION {PendingIds(f, subs[f]) : f \in DOMAIN subs}
      refs == [id \in ids |-> subs[id[1]].pending[id[2]]]
      definitions == FromSubgraphs(Range(subs))
  IN  [files |-> subs, index |-> definitions, pending |-> refs,
       by_domain |-> ReverseEntries(ids, refs),
       resolved |-> [id \in ids |-> ResolvePending(refs[id], definitions)]]

(* A restart: the persisted subgraphs are hydrated in one mutation.  A     *)
(* single damaged one refuses them all, and the store is made from facts.  *)
Restart(damage) ==
  LET persisted == [f \in DOMAIN files |->
                      IF f \in DOMAIN damage THEN damage[f] ELSE files[f]]
      usable == \A f \in DOMAIN persisted : Restorable(f, persisted[f])
      made == FromNothing(IF usable THEN persisted ELSE files)
  IN  /\ files' = made.files
      /\ index' = made.index
      /\ pending' = made.pending
      /\ by_domain' = made.by_domain
      /\ resolved' = made.resolved
      /\ snapshot' = Token(files', resolved')
      /\ delta' = NoDelta
      /\ UNCHANGED <<mirror, verdict>>

(* The consumer applies the last delta, once or again, late or never. *)
Apply ==
  /\ delta # NoDelta
  /\ LET outcome == ApplyScopeDelta(mirror, delta[1])
     IN  /\ mirror' = outcome.index
         /\ verdict' = outcome.verdict
  /\ UNCHANGED <<store, delta>>

(* A refused consumer indexes the whole graph, unless that is refused too. *)
Reindex ==
  /\ verdict # "Applied"
  /\ ~BuildRefuses(Graph)
  /\ mirror' = Build(Graph, snapshot)
  /\ verdict' = "Applied"
  /\ UNCHANGED <<store, delta>>

Next ==
  \/ \E batch \in Batches : \E order \in SetToSeqs(Targets(batch)) :
       ApplyBatch(batch, order)
  \/ \E batch \in Batches : RefuseBatch(batch)
  \/ \E damage \in Damaged : Restart(damage)
  \/ Apply
  \/ Reindex

Spec == Init /\ [][Next]_vars

(***************************************************************************)
(* Properties.                                                             *)
(***************************************************************************)

Verdicts ==
  {"Applied", "SnapshotMismatch", "DoesNotAdvance", "DuplicateRemovedSymbol",
   "MissingRemovedSymbol", "DuplicateUpsertedSymbol", "DuplicateRemovedEdge",
   "MissingRemovedEdge", "DuplicateUpsertedEdge", "IndexInvariant"}

TypeOK ==
  /\ DOMAIN files \subseteq Range(FileOrder)
  /\ DOMAIN resolved = DOMAIN pending
  /\ \A f \in DOMAIN files : files[f].owner = f
  /\ \A id \in DOMAIN pending : id[1] \in DOMAIN files
  /\ \A id \in DOMAIN resolved : Len(resolved[id]) \in {0, 1}
  /\ verdict \in Verdicts

(* However the files came, changed and went, the patched definition index  *)
(* holds exactly what the files held now define and re-export: nothing of  *)
(* a replaced version survives, and no other file's record was taken along *)
(* (remove_subgraph and insert_subgraph, stitch.rs).                       *)
IndexIsOfFiles == index = FromSubgraphs(Range(files))

(* The pending references and the reverse index by which a change finds    *)
(* the references it can affect hold those of the current files, each in   *)
(* every domain its answer may come from: a missing entry would be an edge *)
(* that is never looked at again (install and remove_owner, state.rs).     *)
PendingIsOfFiles ==
  LET made == FromNothing(files)
  IN  pending = made.pending /\ by_domain = made.by_domain

(* A re-export answers, or could answer, this reference. *)
ThroughAlias(p, definitions) ==
  \E e \in definitions.reexports : e.path = Append(p.segs, p.name)

(* Selective resolution is enough: the stored answer of a reference that no*)
(* re-export lies on is the one the current definitions give, whatever     *)
(* batches led here (affected_by_symbol, state.rs, against resolve_pending,*)
(* stitch.rs).                                                             *)
AnswersAreCurrent ==
  \A id \in DOMAIN pending :
    \/ ThroughAlias(pending[id], index)
    \/ resolved[id] = ResolvePending(pending[id], index)

(* "Output is identical (up to ordering) to running ScopeGraphResolver over*)
(* the same file set" (store.rs).                                          *)
GraphIsFullResolution == Graph = GraphOf(files, FromNothing(files).resolved)

(***************************************************************************)
(* What the consumer's index is exact under: no identity is defined by two *)
(* records, and no edge is held in two places.  A delta looks at the       *)
(* changed files alone, so it cannot see the definition of another file    *)
(* that takes the place of one it removes.                                 *)
(***************************************************************************)
ApartIn(subs, answers) ==
  /\ \A f, g \in DOMAIN subs :
       /\ \A s \in Range(subs[f].symbols), t \in Range(subs[g].symbols) :
            s.id = t.id => f = g /\ s = t
       /\ \A d \in Range(subs[f].intra), e \in Range(subs[g].intra) :
            EdgeKey(d) = EdgeKey(e) => f = g /\ d = e
  /\ \A x, y \in DOMAIN answers : \A d \in Range(answers[x]), e \in Range(answers[y]) :
       EdgeKey(d) = EdgeKey(e) => x = y
  /\ \A f \in DOMAIN subs, x \in DOMAIN answers :
       \A d \in Range(subs[f].intra), e \in Range(answers[x]) : EdgeKey(d) # EdgeKey(e)

Separate == ApartIn(files, resolved)

(* Whichever deltas a consumer is given late, twice or never, and across a *)
(* restart of the store: the index it holds is, to the last bucket and     *)
(* reference count, the one built from the graph its token stands for      *)
(* (apply_scope_delta, update.rs, against build, build.rs).                *)
MirrorAgrees == mirror = Build(mirror.snapshot, mirror.snapshot)

(* "Definitions absent from the result snapshot" (removed_symbols, delta.rs).*)
RemovedAreAbsent ==
  delta # NoDelta =>
    \A s \in Range(Graph.symbols) : s.id \notin Range(delta[1].removed_symbols)

(* A delta that continues from the consumer's token is never refused: only *)
(* its lineage can make the consumer index the whole graph again.          *)
LineageSuffices ==
  [][verdict' # verdict =>
       \/ verdict' \in {"Applied", "DoesNotAdvance"}
       \/ delta[1].base # mirror.snapshot]_vars
=============================================================================
