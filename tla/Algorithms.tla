----------------------------- MODULE Algorithms -----------------------------
(***************************************************************************)
(* The pure algorithms against reference definitions.  An `input` of one   *)
(* kind grows by one element at a time, so every prefix of a case is a     *)
(* case; each property speaks of the inputs of its own kind.               *)
(***************************************************************************)
EXTENDS Refresh, Impact

CONSTANTS
  EdgePool, ImpactOptions,          \* edges in key order; bounds to try
  SeedPairs, MaxLineEnds, HunkPool, \* seeds of a command; lines and hunks of a diff
  RelationPool, MaxRelations,       \* declared supertypes
  AliasPool, AliasIndex,            \* re-exports over a fixed index
  IdentityPool, PackagePool,        \* identities; packages to stamp on them
  ScipHeads, ScipCharacters, MaxScipLen, \* beginnings of written identities, and what follows
  PartPool, SourceFile, OtherFile,  \* parts of the facts of one source; another source
  InventoryPool, RulePool, MessagePool, \* files a worker may be asked for, rules, failures
  RequestFrameMax, ResponseFrameMax, MaxDepth, MaxStringBytes, MaxCollectionItems,
  MaxErrorMessageBytes,             \* the limits of the worker protocol
  IdOrder, NameOrder, PageSize,     \* the orders of identities and names; rows in a page
  SymbolPool, LinkPool, MaxLinks,   \* definitions and edges of a queried graph
  Selectors, OptionPool, Filters,   \* what queries ask for
  RawReferences, DiskNow, DiffPool, \* the facts of one file, the sources, diffs of them
  TextCharacters, MaxText           \* texts in which positions are looked up

Ids == INSTANCE SymbolIds
Wire == INSTANCE WorkerWire
Query == INSTANCE Queries

Init ==
  input \in {Begin("impact", {}),
             Begin("diff", [lines |-> <<>>, hunks |-> {}]),
             Begin("types", <<>>),
             Begin("alias", {}),
             Begin("identity", <<>>),
             Begin("pipe", {}),
             Begin("query", [symbols |-> {}, links |-> {}]),
             Begin("position", <<>>)}
    \cup RefreshInputs
    \cup {Begin("scip", [head |-> head, tail |-> <<>>]) : head \in ScipHeads}

(***************************************************************************)
(* Growth.                                                                 *)
(***************************************************************************)
AddEdge ==
  \E key \in DOMAIN EdgePool : Give("impact", input.given \cup {key})

AddLine ==
  /\ input.kind = "diff"
  /\ Len(input.given.lines) < MaxLineEnds
  /\ input.given.hunks = {}
  /\ input.given.lines # <<>> => Last(input.given.lines) > 0
  /\ \E length \in 0 .. 2 :
       Give("diff", [input.given EXCEPT !.lines = Append(@, length)])

AddHunk ==
  /\ input.kind = "diff"
  /\ input.given.lines # <<>>
  /\ Cardinality(input.given.hunks) < 2
  /\ \E hunk \in HunkPool :
       Give("diff", [input.given EXCEPT !.hunks = @ \cup {hunk}])

AddRelation ==
  /\ input.kind = "types"
  /\ Len(input.given) < MaxRelations
  /\ \E pair \in RelationPool : Give("types", Append(input.given, pair))

AddAlias ==
  \E alias \in AliasPool : Give("alias", input.given \cup {alias})

AddIdentity ==
  /\ input.kind = "identity"
  /\ Len(input.given) < 2
  /\ \E id \in IdentityPool : Give("identity", Append(input.given, id))

AddCharacter ==
  /\ input.kind = "scip"
  /\ Len(input.given.tail) < MaxScipLen
  /\ \E c \in ScipCharacters : Give("scip", [input.given EXCEPT !.tail = Append(@, c)])

(* At most one part of the facts is wrong. *)
AddPart ==
  /\ input.kind = "pipe"
  /\ Cardinality(input.given) < 2
  /\ \A n \in input.given : PartPool[n].verdict = "fine"
  /\ \E n \in DOMAIN PartPool \ {1} : Give("pipe", input.given \cup {n})

AddSymbol ==
  \E n \in DOMAIN SymbolPool :
    /\ input.kind = "query"
    /\ Give("query", [input.given EXCEPT !.symbols = @ \cup {n}])

AddLink ==
  /\ input.kind = "query"
  /\ Cardinality(input.given.links) < MaxLinks
  /\ \E n \in DOMAIN LinkPool : Give("query", [input.given EXCEPT !.links = @ \cup {n}])

AddText ==
  /\ input.kind = "position"
  /\ Len(input.given) < MaxText
  /\ \E c \in TextCharacters : Give("position", Append(input.given, c))

Next ==
  \/ AddEdge \/ AddLine \/ AddHunk \/ AddRelation \/ AddAlias
  \/ AddIdentity \/ AddCharacter \/ AddPart \/ AddSymbol \/ AddLink \/ AddText
  \/ RefreshNext

Spec == Init /\ [][Next]_input

(***************************************************************************)
(* Properties.                                                             *)
(***************************************************************************)
(***************************************************************************)
(* Reverse reachability by walks: all walks of each length from the seed,  *)
(* with the weakest confidence on each.                                    *)
(***************************************************************************)
Reached(graph, seed, filter) ==
  LET edges == {e \in Range(graph) : Matches(filter, e)}
      ids == {e.from : e \in edges} \ {seed}
      Longer(ends) == {<<e.from, Lesser(end[2], e.confidence)>> :
                         <<end, e>> \in {pair \in ends \X edges : pair[2].to = pair[1][1]}}
      walks == FoldLeft(LAMBDA done, n : Append(done, Longer(Last(done))),
                        <<{<<seed, Exact>>}>>, [n \in 1 .. Cardinality(ids) |-> n])
      Lengths(id) == {n \in 1 .. Cardinality(ids) :
                        \E end \in walks[n + 1] : end[1] = id}
      Widths(id, n) == {end[2] : end \in {w \in walks[n + 1] : w[1] = id}}
      Row(id) == LET depth == Min(Lengths(id))
                 IN  [symbol |-> id, depth |-> depth, confidence |-> Max(Widths(id, depth))]
  IN  {Row(id) : id \in {i \in ids : Lengths(i) # {}}}

Sooner(a, b) == a.depth < b.depth \/ (a.depth = b.depth /\ a.symbol < b.symbol)

(* Impact reports every symbol at its least distance with the widest path  *)
(* of that length, nearest first, and says it is truncated exactly when a  *)
(* bound left a reachable symbol out; each row names an edge and a parent  *)
(* that bear it out (impact, query/src/impact.rs).                         *)
ImpactIsShortestWidest ==
  input.kind = "impact" =>
    \A graph \in {EntriesAt(EdgePool, input.given)} : \A options \in ImpactOptions :
      \A answer \in {ImpactOf(graph, 1, options)} :
        \A all \in {Reached(graph, 1, options.filter)} :
          LET expected == {r \in all : /\ r.depth <= options.max_depth
                                       /\ Cardinality({q \in all : Sooner(q, r)})
                                            < options.max_nodes}
              Row(s) == [symbol |-> s.symbol, depth |-> s.depth, confidence |-> s.confidence]
          IN  /\ {Row(s) : s \in Range(answer.steps)} = expected
              /\ \A i, j \in DOMAIN answer.steps :
                   i < j => Sooner(answer.steps[i], answer.steps[j])
              /\ answer.truncated = (Cardinality(expected) < Cardinality(all))
              /\ \A s \in Range(answer.steps) :
                   /\ graph[s.via].from = s.symbol
                   /\ graph[s.via].to = s.parent
                   /\ \/ s.depth = 1 /\ s.parent = 1
                      \/ \E t \in Range(answer.steps) :
                           t.symbol = s.parent /\ t.depth = s.depth - 1

(* However many definitions a selector names, one bound holds for all rows *)
(* of the command, and an answer that is not called truncated is complete  *)
(* for each of them (execute_impact, cli/src/commands/impact.rs).          *)
CapacityIsShared ==
  input.kind = "impact" =>
    \A graph \in {EntriesAt(EdgePool, input.given)} :
      \A options \in ImpactOptions : \A seeds \in SeedPairs :
        \A answer \in {ExecuteImpact(graph, seeds, options)} :
          LET Of(seed) == {r.step.symbol : r \in {q \in Range(answer.rows) : q.seed = seed}}
          IN  /\ Len(answer.rows) <= options.max_nodes
              /\ ~answer.truncated =>
                   \A seed \in Range(seeds) :
                     Of(seed) = {r.symbol : r \in Reached(graph, seed, options.filter)}

(* What the impact command prints is right for one definition and for all  *)
(* that a selector names.                                                  *)
ImpactIsExact == ImpactIsShortestWidest /\ CapacityIsShared

(***************************************************************************)
(* The symbols a hunk touches, line by line.                               *)
(***************************************************************************)
LengthOf(lines, n) == FoldLeft(LAMBDA sum, length : sum + length, 0, SubSeq(lines, 1, n))

(* A deletion touches what stands on both sides of its place. *)
Touches(lines, hunk, span) ==
  IF hunk[2] = 0
  THEN LET point == LengthOf(lines, Lesser(hunk[1], Len(lines)))
       IN  span[1] < point /\ point < span[2]
  ELSE \E n \in DOMAIN lines :
         /\ hunk[1] <= n /\ n < hunk[1] + hunk[2]
         /\ \E byte \in span[1] .. span[2] - 1 :
              LengthOf(lines, n - 1) <= byte /\ byte < LengthOf(lines, n)

(* No symbol that a diff changed is missing from the seeds, at the ends of *)
(* the file, for lines without an end and for pure deletions as well       *)
(* (execute, cli/src/commands/diff_impact.rs).                             *)
DiffSelectsTouched ==
  input.kind = "diff" =>
    LET lines == input.given.lines
        hunks == input.given.hunks
        total == LengthOf(lines, Len(lines))
        spans == {span \in (0 .. total) \X (0 .. total) : span[1] < span[2]}
        seeds == DiffSeeds(lines, hunks, spans)
    IN  \A span \in spans \ seeds : \A hunk \in hunks : ~Touches(lines, hunk, span)

(***************************************************************************)
(* Queries, answered from the graph itself.                                *)
(***************************************************************************)
Queried ==
  [symbols |-> EntriesAt(SymbolPool, input.given.symbols),
   edges |-> EntriesAt(LinkPool, input.given.links)]

ContextOf(graph) ==
  [ix |-> Query!Build(graph, 0), hashes |-> [f \in DOMAIN DiskNow |-> DiskNow[f].text],
   references |-> RawReferences, disk |-> DiskNow, max_file_bytes |-> 100]

Ascends(values, KeyOf(_)) ==
  \A i, j \in DOMAIN values : i < j => Query!Earlier(KeyOf(values[i]), KeyOf(values[j]))

(* What a selector means: definitions that the options let through, and,   *)
(* for a relation without options, an identity that only edges know.       *)
Meant(graph, selector, purpose, options) ==
  LET defined == {s.id : s \in Range(graph.symbols)}
      known == defined \cup UNION {{e.from, e.to} : e \in Range(graph.edges)}
      passed == {s.id : s \in {t \in Range(graph.symbols) :
                                 /\ options.file \in {"", t.file}
                                 /\ options.kind \in {"", t.kind}}}
      named == CASE selector.by = "Name" -> {s.id : s \in {t \in Range(graph.symbols) :
                                                           t.name = selector.value}}
                 [] selector.by = "Scip" -> {id \in known : Query!Scip(id) = selector.value}
                 [] selector.by = "Id" -> {selector.value}
      bare == known \ defined
  IN  named \cap (IF purpose = "AnyGraphId" /\ options.file = "" /\ options.kind = ""
                  THEN passed \cup bare ELSE passed)

(* A selector finds exactly what it means, in the structural order, and    *)
(* ambiguity is judged on all of it (resolve_selector, resolve.rs).        *)
SelectorsAreExact(graph, context) ==
  \A n \in DOMAIN Selectors : \A purpose \in {"DefinitionOnly", "AnyGraphId"} :
    \A options \in OptionPool :
      \A meant \in {Meant(graph, Selectors[n], purpose, options)} :
        \A answer \in {Query!ResolveSelector(context, Selectors[n], purpose, options)} :
          /\ answer.error = IF meant = {} THEN "NoMatch"
                            ELSE IF options.require_unique /\ Cardinality(meant) > 1
                            THEN "Ambiguous" ELSE ""
          /\ answer.error = "" =>
               /\ Range(answer.ids) = meant
               /\ Ascends(answer.ids, LAMBDA id : <<Query!Place(IdOrder, id)>>)
               /\ Range(answer.symbols) = {s \in Range(graph.symbols) : s.id \in meant}
               /\ Len(answer.symbols) <= Len(answer.ids)

(* The rows that are printed are the first of all that there are.          *)
Prints(printed, expected, KeyOf(_), limit) ==
  \A answer \in {printed} : \A rows \in {expected} :
    /\ answer.total = Cardinality(rows)
    /\ answer.truncated = (Cardinality(rows) > limit)
    /\ Len(answer.results) = Query!Reads!Lesser(Cardinality(rows), limit)
    /\ Ascends(answer.results, KeyOf)
    /\ \A row \in rows \ Range(answer.results) : \A shown \in Range(answer.results) :
         shown \in rows /\ Query!Earlier(KeyOf(shown), KeyOf(row))

KeyOfEdge(edge) == Query!EdgeOrder(EdgeKey(edge))

(* An edge is printed once, with either end selected or both, and a filter *)
(* or a limit drops no other edge (execute_relations, execute_imports).    *)
RelationsAreExact(graph, context) ==
  \A limit \in {1, 5} : \A filter \in Filters :
    /\ \A n \in DOMAIN Selectors : \A direction \in {"Incoming", "Outgoing"} :
         \A options \in {o \in OptionPool : ~o.require_unique} :
           \A answer \in {Query!ExecuteRelations(context,
                            [selector |-> Selectors[n], options |-> options, filter |-> filter,
                             direction |-> direction, limit |-> limit])} :
             \A ids \in {Meant(graph, Selectors[n], "AnyGraphId", options)} :
               IF ids = {} THEN answer.error = "NoMatch"
               ELSE Prints(answer,
                           {e \in Range(graph.edges) :
                              /\ (IF direction = "Incoming" THEN e.to ELSE e.from) \in ids
                              /\ Query!Admits(filter, e)},
                           KeyOfEdge, limit)
    /\ \A file \in DOMAIN DiskNow :
         LET edges == {e \in Range(graph.edges) :
                         /\ e.role \in {"Import", "ModuleRef"} /\ e.occ.file = file
                         /\ Rank(e.confidence) >= Rank(filter.min_confidence)}
         IN  Prints(Query!ExecuteImports(context, [file |-> file, limit |-> limit,
                                                  min_confidence |-> filter.min_confidence]),
                    edges, KeyOfEdge, limit)

(* Every import is evidence for one dependency, that of its own file on    *)
(* the file or the identity it leads to (execute_module_deps).             *)
DependenciesAreExact(graph, context) ==
  \A filter \in Filters :
    \A answer \in {Query!ExecuteModuleDeps(context, [limit |-> 9,
                                                     min_confidence |-> filter.min_confidence])} :
      LET imports == {e \in Range(graph.edges) : /\ e.role \in {"Import", "ModuleRef"}
                                                 /\ Rank(e.confidence)
                                                      >= Rank(filter.min_confidence)}
          Files(id) == {s.file : s \in {t \in Range(graph.symbols) : t.id = id}}
      IN  /\ \A e \in imports :
               Cardinality({n \in DOMAIN answer.results :
                              e \in Range(answer.results[n].evidence)}) = 1
          /\ \A row \in Range(answer.results) :
               /\ row.count = Cardinality(Range(row.evidence))
               /\ \A e \in Range(row.evidence) :
                    /\ e \in imports
                    /\ e.role = row.key.role
                    /\ e.occ.file = row.key.source_file
                    /\ IF Files(e.to) = {} THEN e.to = row.key.target.id
                       ELSE row.key.target.file \in Files(e.to)
          /\ \A r, q \in Range(answer.results) : r.key = q.key => r = q

(* A symbol search looks at every definition, and a name that is defined   *)
(* twice is reported so even when only one of the two is printed           *)
(* (execute_symbols, execute_definition, execute_references).              *)
ListingsAreExact(graph, context) ==
  \A limit \in {1, 5} :
    /\ \A text \in Range(NameOrder) : \A options \in OptionPool : \A exact \in BOOLEAN :
         LET Says(field) == IF exact THEN field = text ELSE Lowercase[field] = Lowercase[text]
             found == {s \in Range(graph.symbols) :
                         /\ \E field \in Query!Fields(s) : Says(field)
                         /\ options.file \in {"", s.file} /\ options.kind \in {"", s.kind}}
         IN  Prints(Query!ExecuteSymbols(context, [text |-> text, file |-> options.file,
                                                  kind |-> options.kind, limit |-> limit,
                                                  case_sensitive |-> exact]),
                    found, LAMBDA s : <<Query!Place(IdOrder, s.id)>>, limit)
    /\ \A n \in DOMAIN Selectors : \A options \in OptionPool :
         \A answer \in {Query!ExecuteDefinition(context,
                          [selector |-> Selectors[n], options |-> options, limit |-> limit])} :
           \A ids \in {Meant(graph, Selectors[n], "DefinitionOnly", options)} :
             answer.error = "" =>
               /\ Range(answer.selection) = ids
               /\ Prints(answer, {s \in Range(graph.symbols) : s.id \in ids},
                         LAMBDA s : <<Query!Place(IdOrder, s.id)>>, limit)
    /\ \A file \in DOMAIN RawReferences : \A name \in {"", "run"} : \A role \in {"", "Call"} :
         LET refs == {r \in Range(RawReferences[file]) :
                        name \in {"", r.name} /\ role \in {"", r.role}}
         IN  Prints(Query!ExecuteReferences(context, [file |-> file, name |-> name,
                                                     role |-> role, limit |-> limit]),
                    refs, LAMBDA r : <<r.byte, Query!Place(Query!RoleOrder, r.role),
                                       Query!Place(NameOrder, r.name)>>, limit)

(* A byte belongs to a definition around it that holds no other such.      *)
InnermostIsFound(graph, context) ==
  \A file \in DOMAIN DiskNow : \A byte \in 0 .. Query!BytesIn(DiskNow[file].text) :
    \A answer \in {Query!SymbolAtByte(context.ix, file, byte)} :
      LET Holds(s) == s.file = file /\ Covers(s.span, byte)
      IN  IF answer = <<>> THEN \A s \in Range(graph.symbols) : ~Holds(s)
          ELSE /\ Holds(answer[1])
               /\ \A s \in Range(graph.symbols) :
                    Holds(s) => SpanLen(s.span) >= SpanLen(answer[1].span)

(* Who is reached over edges of these roles.                               *)
ReachedFrom(graph, id, roles) ==
  FoldLeft(LAMBDA seen, n : seen \cup {e.from : e \in {l \in Range(graph.edges) :
                                                      l.to \in seen /\ l.role \in roles}},
           {id}, graph.edges) \ {id}

ImpactRows(answer) == {<<IdOrder[row.seed], IdOrder[row.step.symbol]>> : row \in Range(answer)}

ExpectedRows(graph, ids) ==
  LET TypeIds == {s.id : s \in {t \in Range(graph.symbols) : t.kind \in {"Struct", "Class"}}}
  IN  UNION {{<<id, other>> : other \in ReachedFrom(graph, id, IF id \in TypeIds THEN Roles
                                                            ELSE {"Call"})} : id \in ids}

Unbounded(selector, options) ==
  [selector |-> selector, options |-> options, role |-> "", min_confidence |-> "Heuristic",
   depth |-> 9, max_nodes |-> 99]

(* Where the new side of a hunk is: in the file of the header before it.   *)
HunksOf(diff, file) ==
  {diff[n].hunk : n \in {m \in DOMAIN diff :
     /\ diff[m].header = ""
     /\ \E h \in 1 .. m - 1 : /\ diff[h].header = file
                             /\ \A between \in h + 1 .. m - 1 : diff[between].header = ""}}

(* A selector's definitions and those that a diff touches are traversed    *)
(* each by the roles that suit it, and the hunks of a deleted file are     *)
(* nobody else's (execute_impact, execute_diff_impact).                    *)
TraversalsAreExact(graph, context) ==
  /\ \A n \in DOMAIN Selectors : \A options \in {o \in OptionPool : ~o.require_unique} :
       LET answer == Query!ExecuteImpact(context, Unbounded(Selectors[n], options))
       IN  ImpactRows(answer.results)
             = ExpectedRows(graph, Meant(graph, Selectors[n], "AnyGraphId", options))
  /\ \A diff \in DiffPool : \A seeds \in {Query!DiffSeeds(context, diff)} :
       /\ \A s \in Range(graph.symbols) :
            (\E hunk \in HunksOf(diff, s.file) :
               Touches(Query!LineLengths(DiskNow[s.file].text), hunk, s.span))
              => s.id \in Range(seeds)
       /\ \A s \in Range(graph.symbols) :
            s.id \in Range(seeds) =>
              \E hunk \in HunksOf(diff, s.file) :
                Touches(Query!LineLengths(DiskNow[s.file].text),
                        IF hunk[2] = 0 THEN <<Max({1, hunk[1]}), 1>> ELSE hunk, s.span)
       /\ ImpactRows(Query!ExecuteDiffImpact(context, diff, Unbounded([by |-> ""], {})).rows)
            = ExpectedRows(graph, Range(seeds))

CommandsAreExact ==
  input.kind = "query" =>
    \A graph \in {Queried} : \A context \in {ContextOf(graph)} :
      /\ SelectorsAreExact(graph, context)
      /\ RelationsAreExact(graph, context)
      /\ DependenciesAreExact(graph, context)
      /\ ListingsAreExact(graph, context)
      /\ InnermostIsFound(graph, context)
      /\ TraversalsAreExact(graph, context)

(***************************************************************************)
(* Positions.                                                              *)
(***************************************************************************)
BreaksBefore(text, n) == {m \in 1 .. n - 1 : text[m] = "LF"}
LineOf(text, n) == 1 + Cardinality(BreaksBefore(text, n))
ColumnOf(text, n) == n - Max({0} \cup BreaksBefore(text, n))

(* Characters that are part of a line and not of its end.                  *)
Visible(text) ==
  {n \in DOMAIN text :
     text[n] # "LF" /\ ~(text[n] = "CR" /\ n < Len(text) /\ text[n + 1] = "LF")}

(* The first byte of a line that has no character. *)
EmptyLineAt(text, line) ==
  {Query!BytesIn(SubSeq(text, 1, n - 1)) :
     n \in {m \in 1 .. Len(text) + 1 :
              LineOf(text, m) = line /\ ColumnOf(text, m) = 1
                /\ \A v \in Visible(text) : LineOf(text, v) # line}}

ByteOf(text, line, column) ==
  LET shown == {n \in Visible(text) : LineOf(text, n) = line /\ ColumnOf(text, n) = column}
  IN  IF shown # {} THEN {Query!BytesIn(SubSeq(text, 1, n - 1)) : n \in shown}
      ELSE IF column = 1 THEN EmptyLineAt(text, line) ELSE {}

OneAt(start, end, n) ==
  [id |-> IdOrder[n], name |-> "run", kind |-> "Function", file |-> "one",
   span |-> <<start, end>>, signature |-> {}]

(* Whatever ends its lines, every character of a text is at the byte that  *)
(* its line and column say and no other position means one; and a position *)
(* is answered from the bytes that were indexed, and from no others        *)
(* (resolve_position, position.rs).                                        *)
PositionsAreExact ==
  input.kind = "position" =>
    LET text == input.given
        graph == [symbols |-> <<OneAt(0, 99, 1), OneAt(1, 3, 2)>>, edges |-> <<>>]
        ix == Query!Build(graph, 0)
        Context(entry) == [ix |-> ix, hashes |-> [f \in {"one"} |-> text],
                           disk |-> [f \in {"one"} |-> entry], max_file_bytes |-> MaxText + 1]
        others == {[node |-> node, text |-> text] : node \in {"Link", "Absent", "Directory"}}
                    \cup {[node |-> "File", text |-> other] :
                            other \in {Append(text, "a"), Append(text, "invalid"),
                                       Tail(text \o <<"LF">>)}}
    IN  \A line, column \in 0 .. MaxText + 1 :
          LET position == [file |-> "one", line |-> line, column |-> column]
              bytes == ByteOf(text, line, column)
              Answer(entry) == Query!ResolveSelector(Context(entry),
                                 [by |-> "Position", value |-> position], "AnyGraphId",
                                 [file |-> "", kind |-> "", require_unique |-> TRUE])
              here == Answer([node |-> "File", text |-> text])
          IN  /\ Range(Query!SourceByte(text, position)) = bytes
              /\ Query!BytesIn(text) <= MaxText + 1 =>
                   /\ (here.error = "") = (bytes # {})
                   /\ \A byte \in bytes :
                        here.ids = <<graph.symbols[IF byte \in {1, 2} THEN 2 ELSE 1].id>>
              /\ \A entry \in others : entry.text # text \/ entry.node # "File" =>
                   Answer(entry).error # ""

(* What a query selects is what it was asked for, and what it prints is    *)
(* all there is to say of it up to the limit.                              *)
QueriesAreExact == CommandsAreExact /\ PositionsAreExact /\ DiffSelectsTouched

(***************************************************************************)
(* The inherited member by simple paths to a defining ancestor.            *)
(***************************************************************************)
PathsToDefining(start, defined, relations) ==
  LET Ends(path) == IF path = <<>> THEN start ELSE Last(path)
      Open(path) == path = <<>> \/ Last(path) \notin DOMAIN defined
      Longer(paths) ==
        UNION {{Append(path, next) : next \in
                  Range(Supertypes(relations, Ends(path))) \ ({start} \cup Range(path))} :
               path \in {p \in paths : Open(p)}}
      all == FoldLeft(LAMBDA done, n : done \cup Longer(done), {<<>>},
                      [n \in 1 .. Len(relations) |-> n])
  IN  {path \in all : ~Open(path)}

DeclaredBefore(start, relations, p, q) ==
  \E i \in DOMAIN p \cap DOMAIN q :
    /\ \A j \in 1 .. i - 1 : p[j] = q[j]
    /\ p[i] # q[i]
    /\ LET supers == Supertypes(relations, IF i = 1 THEN start ELSE p[i - 1])
           First(type) == Min({n \in DOMAIN supers : supers[n] = type})
       IN  First(p[i]) < First(q[i])

(* An inherited member is the one at the end of the first path to a type   *)
(* that defines it, in the order the supertypes are declared, and is found *)
(* whenever there is such a path: cycles neither hide one nor hang the     *)
(* search (find_inherited, conformance.rs).                                *)
InheritedIsFirstAncestor ==
  input.kind = "types" =>
    LET relations == input.given
        types == UNION {{pair[1], pair[2]} : pair \in RelationPool}
    IN  \A start \in types : \A defining \in SUBSET (types \ {start}) :
          LET defined == [type \in defining |-> GlobalId("java", <<<<"Type", type>>>>)]
              paths == PathsToDefining(start, defined, relations)
              first == CHOOSE p \in paths : \A q \in paths \ {p} :
                         DeclaredBefore(start, relations, p, q)
          IN  FindInherited(start, defined, relations) =
                IF paths = {} THEN NoId ELSE defined[Last(first)]

(***************************************************************************)
(* The name tier beside the scope tier.                                    *)
(***************************************************************************)
WrittenNames(files, e) ==
  UNION {{r.name : r \in {q \in Range(facts.references) :
                           Occurrence(facts, q) = e.occ /\ q.role = e.role}} :
         facts \in Range(files)}

Namesakes(files, id) ==
  {s.id : s \in {t \in Range(AllSymbols(files)) : LeafName(t.id) = LeafName(id)}}

(* What the scope tier answers with a definition of the name as written,   *)
(* the name tier answers too: the tiers differ in precision and not in     *)
(* recall.  Left aside are names over the fan-out cap and callers that     *)
(* several files carry a copy of, of which the name tier knows the first   *)
(* (SymbolTableResolver against ScopeGraphResolver).                       *)
NameTierRecalls ==
  input.kind = "files" =>
    \A files \in {Project} : \A named \in {Range(SymbolTable(files).edges)} :
      LET Capped(e) == Cardinality(Namesakes(files, e.to)) > MaxNameFanout
          Copied(e) == Len(SelectSeq(AllSymbols(files), LAMBDA s : s.id = e.from)) > 1
      IN  \A e \in Range(ScopeGraph(files).edges) :
            \/ LeafName(e.to) \notin WrittenNames(files, e)
            \/ Capped(e) \/ Copied(e)
            \/ \E other \in named : ResolutionKey(other) = ResolutionKey(e)

(***************************************************************************)
(* Re-exports.                                                             *)
(***************************************************************************)

(* A path stands for the definitions under it and under every path that    *)
(* re-exports lead to from it, by however many steps and through cycles    *)
(* (resolved_path_instances, stitch.rs).                                   *)
AliasLookupIsReachability ==
  input.kind = "alias" =>
    LET index == [AliasIndex EXCEPT !.reexports = input.given]
        Reach(start) ==
          FoldLeft(LAMBDA seen, n : seen \cup {a.source_path : a \in
                     {b \in input.given : b.path \in seen}},
                   {start}, [n \in 1 .. Cardinality(input.given) |-> n])
    IN  \A start \in {a.path : a \in AliasPool} : \A type_only \in BOOLEAN :
          ResolvedPathInstances(index, start, type_only) =
            UNION {DirectInstances(index, path, type_only) : path \in Reach(start)}

(* Both searches over declared relations find exactly what simple paths    *)
(* find: inherited members, and the definitions behind re-exports          *)
(* (find_inherited, conformance.rs; resolved_path_instances, stitch.rs).   *)
SearchesAreExact == InheritedIsFirstAncestor /\ AliasLookupIsReachability

(***************************************************************************)
(* Identities.                                                             *)
(***************************************************************************)
HasPlainPackage(id) ==
  id.variant = "Global" =>
    \A field \in {id.package.manager, id.package.name, id.package.version} :
      field # <<".">> /\ \A c \in Range(field) : c # " "

(* What the string leaves out. *)
Unplaced(id) == IF id.variant = "Global" THEN [id EXCEPT !.lang = <<>>]
                ELSE [id EXCEPT !.file = <<>>]

(* The parse succeeds, leaves nothing and gives this identity. *)
ReadsAs(parse, id) == parse.error = "" /\ parse.rest = <<>> /\ parse.value = id

(* Whatever characters a name is made of, an identity comes back from its  *)
(* string, and from its wire form with its coordinates; stamping a package *)
(* on the string and on the identity comes to the same; what the parser    *)
(* takes is written in one form only; and the order of identities is total *)
(* and tells different ones apart.  Package fields with a space in them or *)
(* of a lone dot are left aside: the header has no escape for them         *)
(* (src/symbol/id.rs and descriptor.rs).                                   *)
IdentitiesRoundTrip ==
  /\ input.kind = "identity" =>
       /\ \A id \in {x \in Range(input.given) : HasPlainPackage(x)} :
            /\ ReadsAs(Ids!FromScip(Ids!ToScip(id)), Unplaced(id))
            /\ ReadsAs(Ids!Deserialize(Ids!ToWire(id)), id)
            /\ \A package \in PackagePool :
                 Ids!RewriteSourceModule(Ids!ToScip(id), package)
                   = Ids!ToScip(Ids!WithPackage(id, package))
       /\ Len(input.given) = 2 =>
            LET x == input.given[1]
                y == input.given[2]
                sign == Ids!CompareIds(x, y)
            IN  /\ sign = 0 <=> x = y
                /\ sign = -Ids!CompareIds(y, x)
                /\ sign < 0 => \A z \in IdentityPool :
                                 Ids!CompareIds(y, z) < 0 => Ids!CompareIds(x, z) < 0
  /\ input.kind = "scip" =>
       \A parsed \in {Ids!Deserialize([legacy |-> input.given.head \o input.given.tail])} :
         parsed.error = "" => ReadsAs(Ids!FromScip(Ids!ToScip(parsed.value)), parsed.value)

(***************************************************************************)
(* The pipe between a refresh and its workers.                             *)
(***************************************************************************)
WholeFacts(file, parts) ==
  LET All(field) == FlattenSeq([n \in DOMAIN parts |-> parts[n][field]])
  IN  [file |-> file.path, lang |-> <<Wire!AsStr[file.language]>>, symbols |-> All("symbols"),
       references |-> All("references"), scopes |-> All("scopes"),
       bindings |-> All("bindings"), ffi_exports |-> All("ffi_exports")]

Extracted(facts) == [facts |-> <<facts>>, message |-> <<>>]
Unextracted(message) == [facts |-> <<>>, message |-> message]

(* What the refresh should learn of facts whose parts are judged so. *)
Verdict(parts, facts) ==
  LET Some(verdict) == \E part \in Range(parts) : part.verdict = verdict
  IN  CASE Some("ill-formed") \/ Some("foreign") -> Wire!InvalidFacts(<<"invalid facts">>)
        [] Some("unsendable") -> Wire!Failure("Transport")
        [] Some("overlong") -> Wire!Failure("Protocol")
        [] \A part \in Range(parts) : part.verdict = "fine" -> Wire!Delivered(facts)

Asked(file, request_id) == Wire!FromInventoryFile(request_id, file, <<>>)
FrameFor(file, request_id) == Wire!RequestFrame(Asked(file, request_id), file).value

(* A request for the source, one for the other file behind it. *)
BothServed(extracted) ==
  Wire!RunWorker(FrameFor(SourceFile, 1) \o FrameFor(OtherFile, 2), <<>>,
                 (SourceFile.path :> extracted)
                   @@ (OtherFile.path :> Extracted(WholeFacts(OtherFile, <<>>))))

(* Facts come to the refresh as they were extracted or are refused for     *)
(* what is wrong with them, never changed; a refused answer leaves the     *)
(* next one in its place; an answer is never taken for another request; a  *)
(* worker that dies at any byte of it is taken for dead and not for        *)
(* broken; and a worker of one file comes to the same (worker/protocol,    *)
(* frame.rs, persistent.rs and process.rs).                                *)
FactsCrossThePipe ==
  input.kind = "pipe" =>
    \A parts \in {EntriesAt(PartPool, input.given \cup {1})} :
      \A facts \in {WholeFacts(SourceFile, parts)} : \A outcome \in {Verdict(parts, facts)} :
        \A output \in {BothServed(Extracted(facts)).output} :
          \A reply \in {Wire!ReadFrame(output, ResponseFrameMax)} :
            /\ Wire!ReadReply(output, Asked(SourceFile, 1)) = outcome
            /\ reply.error = "" =>
                 /\ Wire!ReadReply(reply.rest, Asked(OtherFile, 2))
                      = Wire!Delivered(WholeFacts(OtherFile, <<>>))
                 /\ Wire!ReadReply(output, Asked(SourceFile, 2)) = Wire!Failure("Protocol")
                 /\ \A n \in 0 .. Len(reply.value) - 1 :
                      Wire!ReadReply(SubSeq(reply.value, 1, n), Asked(SourceFile, 1))
                        = Wire!Failure("Transport")
                 /\ Len(reply.value) <= ResponseFrameMax =>
                      Wire!OneShot([output |-> reply.value, clean |-> TRUE],
                                   Asked(SourceFile, 1)) = Wire!Legacy(outcome)

(* Of the inventory, what is sent is what was read and nothing that has    *)
(* changed since; the worker extracts under the rules that the project     *)
(* gave; and its failures are told apart from its answers                  *)
(* (validation.rs and runtime.rs).                                         *)
RequestsCrossThePipe ==
  input = Begin("pipe", {}) =>
    /\ \A case \in InventoryPool :
         LET request == Wire!FromInventoryFile(7, case.file, RulePool)
             frame == Wire!RequestFrame(request, case.file)
             received == Wire!DecodeFrame("WorkerRequest", frame.value, RequestFrameMax)
         IN  IF ~case.sound THEN frame.error # ""
             ELSE /\ received.value = request
                  /\ Wire!RulesFor(received.value) = Wire!DefaultRules \o RulePool
    /\ \A message \in MessagePool :
         Wire!ReadReply(BothServed(Unextracted(message)).output, Asked(SourceFile, 1))
           = IF Len(message) > MaxErrorMessageBytes THEN Wire!Failure("Protocol")
             ELSE Wire!Remote(1, message)

AnswersCrossThePipe == FactsCrossThePipe /\ RequestsCrossThePipe
=============================================================================
