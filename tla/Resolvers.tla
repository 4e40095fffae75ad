----------------------------- MODULE Resolvers -----------------------------
(***************************************************************************)
(* The resolver tiers over a list of files and their union (resolve/       *)
(* conformance.rs, local_typed_call.rs, symbol_table.rs, scope_graph.rs,   *)
(* ffi_bridge, external.rs, normalized_name.rs, layered.rs).  A graph is   *)
(* its symbols and its edges, in the order the source lists them; file     *)
(* keys are distinct.                                                      *)
(***************************************************************************)
EXTENDS GlobalIndex

CONSTANTS
  MaxNameFanout,    \* the fan-out cap of bare names
  Lowercase         \* name -> its ASCII lowercase

Graph(files, EdgesOf(_, _), symbols) ==
  [symbols |-> symbols,
   edges |-> FlattenSeq([i \in DOMAIN files |->
               FlattenSeq([j \in DOMAIN files[i].references |->
                             EdgesOf(files[i], files[i].references[j])])])]

(* The symbol around a byte among a file's own, as an option. *)
CallerIn(symbols, facts, byte) ==
  LET own == SelectSeq(symbols, LAMBDA s : s.file = facts.file)
      at == EnclosingSymbolIndex(own, byte)
  IN  IF at = 0 THEN <<>> ELSE <<own[at]>>

LinkAll(facts, r, from, targets, Confidence(_), provenance) ==
  [i \in DOMAIN targets |->
     Edge(from.id, targets[i].id, r.role, Confidence(targets[i]), provenance,
          Occurrence(facts, r))]

(***************************************************************************)
(* Members found through the type hierarchy: type-qualified and self calls *)
(* (conformance.rs) and calls on a receiver whose type is written          *)
(* (local_typed_call.rs).  Types are known by bare names, in all files     *)
(* together.                                                               *)
(***************************************************************************)
MemberKinds == {"Method", "Const", "Static", "Field"}

(* member_of_type: <<type, member>>, or <<>>. *)
MemberOfType(symbol) ==
  LET names == DescriptorNames(symbol.id)
      n == Len(names)
  IN  IF symbol.kind \in MemberKinds /\ n > 1 THEN <<names[n - 1], names[n]>> ELSE <<>>

AllSymbols(files) == FlattenSeq([i \in DOMAIN files |-> files[i].symbols])

(* The identity of the first member of that name; NoId when there is none. *)
MemberOf(symbols, type, member) ==
  LET held == SelectSeq(symbols, LAMBDA s : MemberOfType(s) = <<type, member>>)
  IN  IF held = <<>> THEN NoId ELSE Head(held).id

(* The subject a relationship names itself, or the symbol around it. *)
SubjectOf(facts, r) ==
  LET at == EnclosingSymbolIndex(facts.symbols, r.byte)
  IN  IF Len(r.qualifier) = 1 THEN r.qualifier[1]
      ELSE IF r.qualifier # <<>> \/ at = 0 THEN ""
      ELSE LeafName(facts.symbols[at].id)

(* Pairs <<subject, supertype>> in the order they are written. *)
Relations(files) ==
  LET of(facts) ==
        LET written == SelectSeq(facts.references, LAMBDA r :
                         r.role = "IsImplementation" /\ SubjectOf(facts, r) # "")
        IN  [i \in DOMAIN written |-> <<SubjectOf(facts, written[i]), written[i].name>>]
  IN  FlattenSeq([i \in DOMAIN files |-> of(files[i])])

Supertypes(relations, type) ==
  LET own == SelectSeq(relations, LAMBDA pair : pair[1] = type)
  IN  [i \in DOMAIN own |-> own[i][2]]

(***************************************************************************)
(* find_inherited: depth first, the first declared supertype first.  The   *)
(* stack is a sequence whose head is its top; `Defines` answers with the   *)
(* identity of a type's member, or NoId.                                   *)
(***************************************************************************)
PushedInOrder(parents, visited) == Reverse(SelectSeq(parents, LAMBDA p : p \notin visited))

Pushed(parents, visited) == SelectSeq(parents, LAMBDA p : p \notin visited)

FindInherited(type, defined, relations) ==
  LET walk[stack \in Seq(STRING), visited \in SUBSET STRING] ==
        IF stack = <<>> THEN NoId
        ELSE LET ancestor == Head(stack)
             IN  IF ancestor \in visited THEN walk[Tail(stack), visited]
                 ELSE IF ancestor \in DOMAIN defined THEN defined[ancestor]
                 ELSE LET seen == visited \cup {ancestor}
                      IN  walk[Pushed(Supertypes(relations, ancestor), seen) \o Tail(stack),
                               seen]
  IN  walk[Supertypes(relations, type), {type}]

(* The types that define a member, with its identity. *)
Defining(symbols, member) ==
  LET types == {MemberOfType(s)[1] : s \in {t \in Range(symbols) :
                  MemberOfType(t) # <<>> /\ MemberOfType(t)[2] = member}}
  IN  [type \in types |-> MemberOf(symbols, type, member)]

(***************************************************************************)
(* ConformanceResolver.                                                    *)
(***************************************************************************)
OwningType(facts, r) ==
  LET at == EnclosingSymbolIndex(facts.symbols, r.byte)
      owner == IF at = 0 THEN <<>> ELSE MemberOfType(facts.symbols[at])
      written == NormalizeFromPath(r.qualifier)
  IN  IF r.self_receiver THEN (IF owner = <<>> THEN "" ELSE owner[1])
      ELSE IF written = <<>> THEN "" ELSE Last(written)

ConformanceEdges(files, facts, r) ==
  LET type == OwningType(facts, r)
      defined == Defining(AllSymbols(files), r.name)
      inherited == FindInherited(type, defined, Relations(files))
      at == EnclosingSymbolIndex(facts.symbols, r.byte)
  IN  IF /\ r.role \in {"Call", "TypeRef"}
         /\ type # ""
         /\ type \notin DOMAIN defined
         /\ inherited # NoId
         /\ at # 0
      THEN <<Edge(facts.symbols[at].id, inherited, r.role, "Scoped", "Conformance",
                  Occurrence(facts, r))>>
      ELSE <<>>

(***************************************************************************)
(* LocalTypedCallResolver.                                                 *)
(***************************************************************************)
ReceiverType(facts, r) ==
  IF Len(r.qualifier) # 1 \/ r.scope = 0 THEN ""
  ELSE LET binding == ScopeWalk(r.qualifier[1], r.byte, r.scope, facts.scopes, facts.bindings)
       IN  IF binding.kind \in {"Local", "Param"} THEN binding.type ELSE ""

LocalTypedEdges(files, facts, r) ==
  LET type == ReceiverType(facts, r)
      defined == Defining(AllSymbols(files), r.name)
      target == IF type \in DOMAIN defined THEN defined[type]
                ELSE FindInherited(type, defined, Relations(files))
      at == EnclosingSymbolIndex(facts.symbols, r.byte)
  IN  IF r.role \in {"Call", "Read"} /\ type # "" /\ target # NoId /\ at # 0
      THEN <<Edge(facts.symbols[at].id, target, r.role, "Scoped", "LocalType",
                  Occurrence(facts, r))>>
      ELSE <<>>

(***************************************************************************)
(* SymbolTableResolver.                                                    *)
(***************************************************************************)
AnswersByLeaf(r, symbol) == symbol.kind # "Module" /\ LeafName(symbol.id) = r.name

Answers(r, symbol) ==
  IF r.role = "ModuleRef" \/ (r.role = "TypeRef" /\ symbol.kind = "Module")
  THEN symbol.kind = "Module" /\ symbol.name = r.name
  ELSE AnswersByLeaf(r, symbol)

(* A relationship names its subject: the one of this file, or the only one.*)
ExplicitSubject(symbols, facts, r) ==
  LET named == SelectSeq(symbols, LAMBDA s :
                 Answers([r EXCEPT !.role = "TypeRef", !.name = r.qualifier[1]], s))
      here == SelectSeq(named, LAMBDA s : s.file = facts.file)
  IN  IF r.role # "IsImplementation" \/ Len(r.qualifier) # 1 THEN <<>>
      ELSE IF Len(here) = 1 THEN here
      ELSE IF here = <<>> /\ Len(named) = 1 THEN named
      ELSE <<>>

NameEdges(symbols, facts, r) ==
  LET subject == ExplicitSubject(symbols, facts, r)
      from == IF subject # <<>> THEN subject ELSE CallerIn(symbols, facts, r.byte)
      targets == EntriesAt(symbols, {i \in DOMAIN symbols :
                   /\ Answers(r, symbols[i])
                   /\ <<symbols[i]>> # from
                   /\ IsAnnotation(r) => IsTypeKind(symbols[i])})
      imported == EntriesAt(targets, {i \in DOMAIN targets :
                    /\ r.role = "Import"
                    /\ NamespacesEndWith(targets[i].id, NormalizeFromPath(r.from_path))})
      bound == IF Len(imported) = 1 THEN imported ELSE <<>>
      Certain(s) == IF bound # <<>> THEN <<s>> = bound ELSE Len(targets) = 1
      Confidence(s) == IF Certain(s) THEN "Scoped" ELSE "NameOnly"
      Scoped(s) == "Scoped"
      Embedded(s) == "NameOnly"
  IN  IF from = <<>> THEN <<>>
      ELSE IF Len(targets) > MaxNameFanout
      THEN LinkAll(facts, r, from[1], bound, Scoped, "SymbolTable")
      ELSE IF r.cross
      THEN LinkAll(facts, r, from[1], targets, Embedded, "CrossArtifact")
      ELSE LinkAll(facts, r, from[1], targets, Confidence, "SymbolTable")

SymbolTable(files) ==
  LET symbols == FirstById(AllSymbols(files))
  IN  Graph(files, LAMBDA facts, r : NameEdges(symbols, facts, r), symbols)

(***************************************************************************)
(* ScopeGraphResolver: own edges of all files, then the stitched ones.     *)
(***************************************************************************)
ScopeGraph(files) ==
  LET Stitched(subs, index, waiting) ==
        FlattenSeq([i \in DOMAIN subs |-> subs[i].intra])
          \o FlattenSeq([i \in DOMAIN waiting |-> ResolvePending(waiting[i], index)])
  IN  [symbols |-> FirstById(AllSymbols(files)),
       edges |-> Given([i \in DOMAIN files |-> BuildSubgraph(files[i])], LAMBDA subs :
                 Given(FromSubgraphs(Range(subs)), LAMBDA index :
                   Stitched(subs, index,
                            FlattenSeq([i \in DOMAIN subs |-> subs[i].pending]))))]

(***************************************************************************)
(* FfiBridgeResolver.                                                      *)
(***************************************************************************)
Consumers(abi) ==
  CASE abi = "C" -> {"c", "cpp"}
    [] abi = "Python" -> {"python"}
    [] abi \in {"Wasm", "NodeApi"} -> {"javascript", "typescript"}
    [] abi = "Jni" -> {"java"}

(* An export fact counts when it is the only one of a symbol of its file. *)
WellFormedExports(facts) ==
  LET Once(id) ==
        /\ Cardinality({i \in DOMAIN facts.symbols : facts.symbols[i].id = id}) = 1
        /\ Cardinality({i \in DOMAIN facts.exports : facts.exports[i].symbol = id}) = 1
  IN  EntriesAt(facts.exports, {i \in DOMAIN facts.exports : Once(facts.exports[i].symbol)})

BridgeEdges(files, facts, r) ==
  LET exports == FlattenSeq([i \in DOMAIN files |-> WellFormedExports(files[i])])
      crossing == EntriesAt(exports, {i \in DOMAIN exports :
                    exports[i].name = r.name /\ facts.lang \in Consumers(exports[i].abi)})
      from == CallerIn(AllSymbols(files), facts, r.byte)
      confidence == IF Len(crossing) = 1 THEN "Scoped" ELSE "NameOnly"
  IN  IF r.role # "Call" \/ from = <<>> THEN <<>>
      ELSE [i \in DOMAIN crossing |->
              Edge(from[1].id, crossing[i].symbol, "Call", confidence, "FfiBridge",
                   Occurrence(facts, r))]

(***************************************************************************)
(* ExternalResolver: an imported name nobody defines is a dependency's.    *)
(***************************************************************************)
ImportPath(facts, name) ==
  LET imports == SelectSeq(facts.references, LAMBDA r :
                   r.role = "Import" /\ r.name = name /\ r.from_path # <<>>)
  IN  IF imports = <<>> THEN <<>> ELSE Head(imports).from_path

KnownName(files, facts, name) ==
  \E s \in Range(AllSymbols(files)) : LeafName(s.id) = name

ExternalEdges(files, facts, r) ==
  LET from == CallerIn(AllSymbols(files), facts, r.byte)
      path == ImportPath(facts, r.name)
      spaces == NormalizeFromPath(path)
      minted == GlobalId(facts.lang,
                  Append([i \in DOMAIN spaces |-> <<"Namespace", spaces[i]>>],
                         <<"Term", r.name>>))
  IN  IF r.role = "Call" /\ from # <<>> /\ path # <<>> /\ ~KnownName(files, facts, r.name)
      THEN <<Edge(from[1].id, minted, "Call", "NameOnly", "External", Occurrence(facts, r))>>
      ELSE <<>>

(***************************************************************************)
(* NormalizedNameResolver: names that differ only by case.                 *)
(***************************************************************************)
FoldedEdges(files, facts, r) ==
  LET from == CallerIn(AllSymbols(files), facts, r.byte)
      symbols == AllSymbols(files)
      folded == EntriesAt(symbols, {i \in DOMAIN symbols :
                  /\ LeafName(symbols[i].id) # ""
                  /\ Lowercase[LeafName(symbols[i].id)] = Lowercase[r.name]})
      targets == EntriesAt(folded, {i \in DOMAIN folded :
                   <<folded[i]>> # from /\ LeafName(folded[i].id) # r.name})
      Heuristic(s) == "Heuristic"
  IN  IF from = <<>> \/ Len(folded) > MaxNameFanout THEN <<>>
      ELSE LinkAll(facts, r, from[1], targets, Heuristic, "NormalizedName")

(***************************************************************************)
(* LayeredResolver: of the edges for one fact, those of the greatest       *)
(* confidence, one per provenance.                                         *)
(***************************************************************************)
ResolutionKey(e) == [from |-> e.from, to |-> e.to, role |-> e.role, occ |-> e.occ]

BestPerProvenance(edges, e) ==
  \A other \in Range(edges) :
    EdgeKey(other) = EdgeKey(e) => Rank(other.confidence) <= Rank(e.confidence)

BestForFact(edges, e) ==
  \A other \in Range(edges) :
    ResolutionKey(other) = ResolutionKey(e) => Rank(other.confidence) <= Rank(e.confidence)

MergeGraphs(graphs) ==
  LET edges == FlattenSeq([i \in DOMAIN graphs |-> graphs[i].edges])
      best == {i \in DOMAIN edges : BestForFact(edges, edges[i])}
      first == {i \in best : \A j \in best : j < i => EdgeKey(edges[j]) # EdgeKey(edges[i])}
  IN  [symbols |-> FirstById(FlattenSeq([i \in DOMAIN graphs |-> graphs[i].symbols])),
       edges |-> EntriesAt(edges, first)]

(* What a union of edges must be: every fact is in it with a confidence as *)
(* great, nothing is added, and each fact has one confidence and each of   *)
(* its provenances one edge.                                               *)
AsGood(edge, edges) ==
  \E other \in Range(edges) : /\ ResolutionKey(other) = ResolutionKey(edge)
                              /\ Rank(other.confidence) >= Rank(edge.confidence)

IsUnion(edges, given) ==
  /\ \A e \in Range(given) : AsGood(e, edges)
  /\ Range(edges) \subseteq Range(given)
  /\ \A i, j \in DOMAIN edges :
       ResolutionKey(edges[i]) = ResolutionKey(edges[j]) =>
         /\ edges[i].confidence = edges[j].confidence
         /\ EdgeKey(edges[i]) = EdgeKey(edges[j]) => i = j

TierOf(files, EdgesOf(_, _, _)) ==
  Graph(files, LAMBDA facts, r : EdgesOf(files, facts, r), AllSymbols(files))

(* What the CLI adds to the scope tier. *)
Supplements(files) == <<TierOf(files, ConformanceEdges), TierOf(files, LocalTypedEdges)>>

Layers(files) ==
  <<SymbolTable(files), ScopeGraph(files), TierOf(files, BridgeEdges)>>
    \o Supplements(files)
    \o <<TierOf(files, ExternalEdges), TierOf(files, FoldedEdges)>>

SupplementScopedGraph(scope_graph, supplements) ==
  MergeGraphs(<<scope_graph>> \o supplements)
=============================================================================
