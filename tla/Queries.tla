------------------------------ MODULE Queries ------------------------------
(***************************************************************************)
(* What the query commands read, select and print (query/src/index/        *)
(* lookup.rs, query/src/read.rs, cli/src/selector and cli/src/commands).   *)
(*                                                                         *)
(* A context holds the index, the hashes of the loaded snapshot, the facts *)
(* it can decode, and the disk as it is now.  The hash of a text is the    *)
(* text.  A text is the sequence of its characters; "wide" takes two bytes *)
(* and "invalid" is a byte that no character starts with.  Files are named *)
(* by project paths, which WorkerWire checks, and an absent option is "".  *)
(***************************************************************************)
EXTENDS GraphIndex

CONSTANTS
  IdOrder,       \* every identity, in the structural order
  NameOrder,     \* every name and file, in their order
  Lowercase,     \* name -> its lowercase
  PageSize       \* GRAPH_PAGE_SIZE and its like, all 256

Reads == INSTANCE Impact

RoleOrder == <<"Call", "IsImplementation", "Import", "ModuleRef", "TypeRef", "Read", "Write">>
ProvenanceOrder ==
  <<"SymbolTable", "ScopeGraph", "FfiBridge", "Conformance", "NormalizedName", "External",
    "CrossArtifact", "LocalType">>

Place(order, x) == CHOOSE n \in DOMAIN order : order[n] = x

(* Tuples of numbers, field by field. *)
Earlier(x, y) ==
  \/ IsStrictPrefix(x, y)
  \/ \E n \in DOMAIN x \cap DOMAIN y : x[n] < y[n] /\ \A m \in 1 .. n - 1 : x[m] = y[m]

Ordered(items, KeyOf(_)) ==
  [n \in 1 .. Cardinality(items) |->
     CHOOSE x \in items :
       Cardinality({y \in items : Earlier(KeyOf(y), KeyOf(x))}) = n - 1]

EdgeOrder(key) ==
  <<Place(IdOrder, key.from), Place(IdOrder, key.to), Place(RoleOrder, key.role),
    Place(NameOrder, key.occ.file), key.occ.byte, Place(ProvenanceOrder, key.provenance)>>

(***************************************************************************)
(* GraphRead: rows in order under their cursors, and the loop that every   *)
(* reader runs over the pages of them.                                     *)
(***************************************************************************)
Bucket(entries, key) == {entry[2] : entry \in {e \in entries : e[1] = key}}

IdRows(ids) ==
  LET kept == SelectSeq(IdOrder, LAMBDA id : id \in ids)
  IN  [n \in DOMAIN kept |-> [key |-> Place(IdOrder, kept[n]), item |-> kept[n]]]

SymbolRows(ix, ids) ==
  LET rows == IdRows(ids \cap DOMAIN ix.definitions)
  IN  [n \in DOMAIN rows |-> [rows[n] EXCEPT !.item = ix.definitions[@]]]

Symbols(ix) == SymbolRows(ix, DOMAIN ix.definitions)
SymbolsNamed(ix, name) == SymbolRows(ix, Bucket(ix.by_name, name))
SymbolsWithScip(ix, scip) == SymbolRows(ix, Bucket(ix.by_scip, scip))
SymbolsInFile(ix, file) == SymbolRows(ix, Bucket(ix.by_file, file))
IdsWithScip(ix, scip) == IdRows(Bucket(ix.ids_by_scip, scip))

Admits(filter, edge) ==
  /\ Rank(edge.confidence) >= Rank(filter.min_confidence)
  /\ filter.role \in {"", edge.role}
  /\ filter.provenance \in {"", edge.provenance}

EdgeRows(ix, keys, filter) ==
  LET all == Ordered(DOMAIN ix.edges, EdgeOrder)
      rows == [n \in DOMAIN all |-> [key |-> n, item |-> ix.edges[all[n]]]]
  IN  SelectSeq(rows, LAMBDA row : EdgeKey(row.item) \in keys /\ Admits(filter, row.item))

Edges(ix, filter) == EdgeRows(ix, DOMAIN ix.edges, filter)
Incoming(ix, id, filter) == EdgeRows(ix, Bucket(ix.incoming, id), filter)
Outgoing(ix, id, filter) == EdgeRows(ix, Bucket(ix.outgoing, id), filter)

FromPages(rows) ==
  LET read == Reads!ReadAll(rows, PageSize)
  IN  [n \in DOMAIN read |-> read[n].item]

Innermost(symbol) ==
  <<SpanLen(symbol.span), -symbol.span[1], symbol.span[2], Place(IdOrder, symbol.id)>>

(* The tightest definition around a byte, as an option. *)
SymbolAtByte(ix, file, byte) ==
  LET around == {s \in {ix.definitions[id] : id \in Bucket(ix.by_file, file)} :
                   SpanLen(s.span) > 0 /\ Covers(s.span, byte)}
  IN  IF around = {} THEN <<>> ELSE <<Head(Ordered(around, Innermost))>>

(***************************************************************************)
(* Positions: from line and column to the byte of the bytes on disk.       *)
(***************************************************************************)
BytesIn(text) ==
  FoldLeft(LAMBDA sum, c : sum + (IF c = "wide" THEN 2 ELSE 1), 0, text)

LineEnd(text, start, break) == break - 1  \* a line that keeps its return

LineEndOf(text, start, break) ==
  IF break > start /\ text[break - 1] = "CR" THEN break - 2 ELSE break - 1

(* The first and the last character of a line; <<>> when there is none. *)
SourceLine(text, line) ==
  LET breaks == SelectSeq([n \in DOMAIN text |-> n], LAMBDA n : text[n] = "LF")
      start == IF line = 1 THEN 1 ELSE breaks[line - 1] + 1
  IN  IF line > Len(breaks) + 1 THEN <<>>
      ELSE IF line = Len(breaks) + 1 THEN <<start, Len(text)>>
      ELSE <<start, LineEndOf(text, start, breaks[line])>>

(* An option.  An empty line has a first column. *)
SourceByte(text, position) ==
  LET place == SourceLine(text, position.line)
      at == place[1] + position.column - 1
  IN  IF position.line = 0 \/ position.column = 0 THEN <<>>
      ELSE IF place = <<>> THEN <<>>
      ELSE IF at > place[2] /\ ~(position.column = 1 /\ place[2] < place[1]) THEN <<>>
      ELSE <<BytesIn(SubSeq(text, 1, at - 1))>>

(* No component of the path is a link, and the last one is a file. *)
ContainedRegularFile(entry) ==
  CASE entry.node = "File" -> ""
    [] entry.node = "Link" -> "ProjectSymlink"
    [] entry.node \in {"Absent", "Directory"} -> "ProjectPath"

ReadUtf8Bounded(entry, max_file_bytes) ==
  IF BytesIn(entry.text) > max_file_bytes \/ "invalid" \in Range(entry.text) THEN "Usage"
  ELSE ""

Selected(ids, symbols) == [error |-> "", ids |-> ids, symbols |-> symbols]
Refused(error) == [error |-> error, ids |-> <<>>, symbols |-> <<>>]
ResolvePosition(context, position) ==
  LET entry == context.disk[position.file]
      contained == ContainedRegularFile(entry)
      read == ReadUtf8Bounded(entry, context.max_file_bytes)
      byte == SourceByte(entry.text, position)
      symbol == SymbolAtByte(context.ix, position.file, byte[1])
  IN  IF Reads!PageBy(SymbolsInFile(context.ix, position.file), 0, 1).items = <<>>
      THEN Refused("NoMatch")
      ELSE IF position.file \notin DOMAIN context.hashes THEN Refused("Index")
      ELSE IF contained # "" THEN Refused(contained)
      ELSE IF read # "" THEN Refused(read)
      ELSE IF entry.text # context.hashes[position.file] THEN Refused("Index")
      ELSE IF byte = <<>> THEN Refused("Usage")
      ELSE IF symbol = <<>> THEN Refused("NoMatch")
      ELSE Selected(<<symbol[1].id>>, symbol)

(***************************************************************************)
(* resolve_selector.  A purpose is "DefinitionOnly" or "AnyGraphId"; the   *)
(* options narrow what a selector means to one file and one kind.          *)
(***************************************************************************)
DefinitionMatchesOptions(symbol, options) ==
  options.file \in {"", symbol.file} /\ options.kind \in {"", symbol.kind}

DefinitionMatches(definitions, options) ==
  LET symbols == SelectSeq(definitions, LAMBDA s : DefinitionMatchesOptions(s, options))
  IN  Selected([n \in DOMAIN symbols |-> symbols[n].id], symbols)

TakesEndpoints(purpose, options) ==
  purpose = "AnyGraphId" /\ options.file = "" /\ options.kind = ""

WithScip(ix, scip, purpose, options) ==
  LET defined == DefinitionMatches(FromPages(SymbolsWithScip(ix, scip)), options)
  IN  IF TakesEndpoints(purpose, options)
      THEN Selected(FromPages(IdsWithScip(ix, scip)), defined.symbols)
      ELSE defined

ExactId(ix, id, purpose, options) ==
  IF id \in DOMAIN ix.definitions THEN DefinitionMatches(<<ix.definitions[id]>>, options)
  ELSE IF TakesEndpoints(purpose, options) /\ id \in ix.known THEN Selected(<<id>>, <<>>)
  ELSE Selected(<<>>, <<>>)

PositionMatch(context, position, options) ==
  Given(ResolvePosition(context, position), LAMBDA resolved :
    IF resolved.error # "" THEN resolved
    ELSE DefinitionMatches(resolved.symbols, options))

Matching(context, selector, purpose, options) ==
  CASE selector.by = "Name" ->
         DefinitionMatches(FromPages(SymbolsNamed(context.ix, selector.value)), options)
    [] selector.by = "Scip" -> WithScip(context.ix, selector.value, purpose, options)
    [] selector.by = "Id" -> ExactId(context.ix, selector.value, purpose, options)
    [] selector.by = "Position" -> PositionMatch(context, selector.value, options)

ResolveSelector(context, selector, purpose, options) ==
  Given(Matching(context, selector, purpose, options), LAMBDA answer :
    IF answer.error # "" THEN answer
    ELSE IF answer.ids = <<>> THEN Refused("NoMatch")
    ELSE IF options.require_unique /\ Len(answer.ids) # 1 THEN Refused("Ambiguous")
    ELSE answer)

(***************************************************************************)
(* What a command prints: at most `limit` rows, how many there are, and    *)
(* the selection it speaks of.                                             *)
(***************************************************************************)
Envelope(values, limit, selection) ==
  [error |-> "", results |-> SubSeq(values, 1, Reads!Lesser(limit, Len(values))),
   total |-> Len(values), truncated |-> Len(values) > limit, selection |-> selection]

NoAnswer(error) ==
  [error |-> error, results |-> <<>>, total |-> 0, truncated |-> FALSE, selection |-> <<>>]

Listing(values, limit) ==
  IF values = <<>> THEN NoAnswer("NoMatch") ELSE Envelope(values, limit, <<>>)

ExecuteDefinition(context, request) ==
  Given(ResolveSelector(context, request.selector, "DefinitionOnly", request.options),
        LAMBDA found :
          IF found.error # "" THEN NoAnswer(found.error)
          ELSE Envelope(found.symbols, request.limit, found.ids))

(* What is searched for is a whole word of a field. *)
Fields(symbol) ==
  {symbol.name, symbol.file} \cup symbol.signature \cup Range(DescriptorNames(symbol.id))

SubstringMatches(symbol, text, case_sensitive) ==
  IF case_sensitive THEN text \in Fields(symbol)
  ELSE Lowercase[text] \in {Lowercase[field] : field \in Fields(symbol)}

ExecuteSymbols(context, request) ==
  Listing(SelectSeq(FromPages(Symbols(context.ix)),
                    LAMBDA s : /\ SubstringMatches(s, request.text, request.case_sensitive)
                               /\ DefinitionMatchesOptions(s, request)),
          request.limit)

(* Raw facts, resolved or not. *)
ReferenceEarlier(r, q) ==
  LET Key(ref) == <<ref.byte, Place(RoleOrder, ref.role), Place(NameOrder, ref.name)>>
                    \o [n \in DOMAIN ref.qualifier |-> Place(NameOrder, ref.qualifier[n])]
  IN  Earlier(Key(r), Key(q))

CollectReferences(references, request) ==
  SortSeq(SelectSeq(references, LAMBDA r : /\ request.name \in {"", r.name}
                                           /\ request.role \in {"", r.role}),
          ReferenceEarlier)

ExecuteReferences(context, request) ==
  IF request.file \notin DOMAIN context.references THEN NoAnswer("NoMatch")
  ELSE Listing(CollectReferences(context.references[request.file], request), request.limit)

(* Each edge once, whichever of its ends were selected. *)
CollectRelationEvidence(ix, ids, direction, filter) ==
  LET Rows(id) == IF direction = "Incoming" THEN Incoming(ix, id, filter)
                  ELSE Outgoing(ix, id, filter)
      edges == UNION {Range(FromPages(Rows(id))) : id \in Range(ids)}
  IN  Ordered(edges, LAMBDA edge : EdgeOrder(EdgeKey(edge)))

ExecuteRelations(context, request) ==
  Given(ResolveSelector(context, request.selector, "AnyGraphId", request.options),
        LAMBDA found :
          IF found.error # "" THEN NoAnswer(found.error)
          ELSE Envelope(CollectRelationEvidence(context.ix, found.ids, request.direction,
                                                request.filter),
                        request.limit, found.ids))

AnyImport(min_confidence) == [role |-> "", min_confidence |-> min_confidence, provenance |-> ""]

ImportEdges(ix, min_confidence) ==
  SelectSeq(FromPages(Edges(ix, AnyImport(min_confidence))),
            LAMBDA edge : edge.role \in {"Import", "ModuleRef"})

ExecuteImports(context, request) ==
  IF request.file \notin DOMAIN context.hashes THEN NoAnswer("NoMatch")
  ELSE Listing(SelectSeq(ImportEdges(context.ix, request.min_confidence),
                         LAMBDA edge : edge.occ.file = request.file),
               request.limit)

(* What is defined here is a file, what is not is an identity outside. *)
TargetKey(ix, edge) ==
  IF edge.to \in DOMAIN ix.definitions THEN [file |-> ix.definitions[edge.to].file, id |-> NoId]
  ELSE [file |-> "", id |-> edge.to]

AggregateKey(ix, edge) ==
  [source_file |-> edge.occ.file, target |-> TargetKey(ix, edge), role |-> edge.role]

AggregateOrder(key) ==
  LET outside == key.target.file = ""
  IN  <<Place(NameOrder, key.source_file), IF outside THEN 1 ELSE 0,
        IF outside THEN Place(IdOrder, key.target.id) ELSE Place(NameOrder, key.target.file),
        Place(RoleOrder, key.role)>>

AggregateModuleDeps(ix, min_confidence) ==
  LET edges == ImportEdges(ix, min_confidence)
      keys == Ordered({AggregateKey(ix, edge) : edge \in Range(edges)}, AggregateOrder)
      Evidence(key) == SelectSeq(edges, LAMBDA edge : AggregateKey(ix, edge) = key)
  IN  [n \in DOMAIN keys |-> [key |-> keys[n], count |-> Len(Evidence(keys[n])),
                              evidence |-> Evidence(keys[n])]]

ExecuteModuleDeps(context, request) ==
  Listing(AggregateModuleDeps(context.ix, request.min_confidence), request.limit)

(* Types are used in every way, everything else is called. *)
DefaultImpactRole(ix, id) ==
  IF id \in DOMAIN ix.definitions /\ ix.definitions[id].kind \in TypeKinds \ {"Table", "View"}
  THEN "" ELSE "Call"

ImpactGraph(ix) ==
  LET edges == Edges(ix, AnyImport("Heuristic"))
  IN  [n \in DOMAIN edges |->
         [from |-> Place(IdOrder, edges[n].item.from), to |-> Place(IdOrder, edges[n].item.to),
          role |-> edges[n].item.role, confidence |-> Rank(edges[n].item.confidence)]]

(* One traversal per seed, each by the role that suits it. *)
ImpactOfAll(ix, ids, request) ==
  LET OptionsFor(id) ==
        [max_depth |-> request.depth, max_nodes |-> request.max_nodes, page |-> PageSize,
         filter |-> [min_confidence |-> Rank(request.min_confidence),
                     role |-> IF request.role = "" THEN DefaultImpactRole(ix, id)
                              ELSE request.role]]
      graph == ImpactGraph(ix)
      Key(row) == <<row.seed, row.step.depth, row.step.symbol, row.step.via>>
      answers == FoldLeft(LAMBDA answer, id : Reads!AppendSeedImpact(
                            graph, answer, Place(IdOrder, id), OptionsFor(id)),
                          [rows |-> <<>>, truncated |-> FALSE], ids)
  IN  [answers EXCEPT !.rows = Ordered(Range(@), Key)]

ExecuteImpact(context, request) ==
  Given(ResolveSelector(context, request.selector, "AnyGraphId", request.options),
        LAMBDA found :
          IF found.error # "" THEN NoAnswer(found.error)
          ELSE Given(ImpactOfAll(context.ix, found.ids, request), LAMBDA answer :
                 [Envelope(answer.rows, Len(answer.rows), found.ids)
                    EXCEPT !.truncated = answer.truncated]))

(***************************************************************************)
(* diff-impact.  A diff is the sequence of the lines that are read of it:  *)
(* headers of new sides, and hunks <<first line, number of lines>>.        *)
(***************************************************************************)
DevNull == "/dev/null"

TakeLine(files, line) ==
  IF line.header # "" THEN Append(files, [file |-> line.header, hunks |-> {}])
  ELSE IF files = <<>> THEN files
  ELSE [files EXCEPT ![Len(files)].hunks = @ \cup {line.hunk}]

ParseDiff(lines) ==
  SelectSeq(FoldLeft(TakeLine, <<>>, lines), LAMBDA change : change.file # DevNull)

LineLengths(text) ==
  LET breaks == SelectSeq([n \in DOMAIN text |-> n], LAMBDA n : text[n] = "LF")
      ends == <<0>> \o breaks \o <<Len(text)>>
  IN  [n \in 1 .. Len(breaks) + 1 |-> BytesIn(SubSeq(text, ends[n] + 1, ends[n + 1]))]

(* Here a link is followed and the bytes are not compared with the index. *)
ChangedSymbols(context, change) ==
  LET entry == context.disk[change.file]
      starts == Reads!LineStarts(LineLengths(entry.text))
      ranges == {Reads!LineRangeToByteRange(starts, BytesIn(entry.text),
                                            Reads!ParseHunkHeader(hunk)) :
                   hunk \in change.hunks} \ {<<>>}
  IN  IF \/ entry.node \in {"Absent", "Directory"}
         \/ ReadUtf8Bounded(entry, context.max_file_bytes) # ""
      THEN <<>>
      ELSE SelectSeq(FromPages(SymbolsInFile(context.ix, change.file)),
                     LAMBDA s : \E range \in ranges : Reads!ByteRangesOverlap(s.span, range))

DiffSeeds(context, diff) ==
  FoldLeft(LAMBDA seeds, change :
             seeds \o SelectSeq([n \in DOMAIN ChangedSymbols(context, change) |->
                                   ChangedSymbols(context, change)[n].id],
                                LAMBDA id : id \notin Range(seeds)),
           <<>>, ParseDiff(diff))

ExecuteDiffImpact(context, diff, request) ==
  ImpactOfAll(context.ix, DiffSeeds(context, diff), request)
=============================================================================
