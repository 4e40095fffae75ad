------------------------- MODULE DocumentExtractors --------------------------
(***************************************************************************)
(* The extractors of SQL and HCL, and that of Svelte, which hands the      *)
(* scripts of a document to the extractor of their language.               *)
(***************************************************************************)
EXTENDS ExtractSupport

(***************************************************************************)
(* extract/sql.rs.  The text of an identifier is its name without quotes.  *)
(***************************************************************************)
SqlViews == {"create_view", "create_materialized_view"}
SqlCreates == {"create_table"} \cup SqlViews

(* object_name_and_schema: the first object a statement mentions. *)
SqlObject(i) == Child(i, "object_reference")

SqlDescriptors(i) ==
  LET schema == Field(SqlObject(i), "schema")
  IN  (IF schema = 0 THEN <<>> ELSE <<Ns(Text(schema))>>)
        \o <<<<"Type", Text(Field(SqlObject(i), "name"))>>>>

(* Nothing is looked for in a statement that creates something. *)
SqlCreated ==
  {i \in OfKind(SqlCreates) :
     /\ \A up \in Above(i) : Kind(up) \notin SqlCreates
     /\ Field(SqlObject(i), "name") # 0}

SqlColumns(i) ==
  IF Kind(i) \in SqlViews THEN {}
  ELSE {j \in Kids(Child(i, "column_definitions")) :
          Kind(j) = "column_definition" /\ Field(j, "name") # 0}

SqlColumnSymbol(i, j) ==
  LET name == Text(Field(j, "name"))
  IN  MakeSymbol(j, name, "Column", Append(SqlDescriptors(i), <<"Term", name>>))

SqlCollectSymbols ==
  FlattenSeq(Each(SqlCreated, LAMBDA i :
    <<MakeSymbol(i, Text(Field(SqlObject(i), "name")),
                 IF Kind(i) \in SqlViews THEN "View" ELSE "Table", SqlDescriptors(i))>>
      \o Each(SqlColumns(i), LAMBDA j : SqlColumnSymbol(i, j))))

(* A common table expression names its result, and those inside it are not *)
(* looked for.                                                             *)
SqlCteName(i) == Child(i, "identifier")

SqlCtes ==
  {i \in OfKind({"cte"}) : SqlCteName(i) # 0 /\ \A up \in Above(i) : Kind(up) # "cte"}

SqlCteSymbols ==
  Each(SqlCtes, LAMBDA i : MakeSymbol(i, Text(SqlCteName(i)), "Other", <<<<"Type", Text(SqlCteName(i))>>>>))

(* Every mention of an entity but the one that creates it. *)
SqlEntityReferences ==
  LET mentions == {i \in OfKind({"object_reference"}) :
                     Kind(Up(i)) \notin SqlCreates /\ Field(i, "name") # 0}
  IN  Each(mentions, LAMBDA i :
        [RefAt(i, Text(Field(i, "name")), "TypeRef") EXCEPT
           !.qualifier = PathOf(Field(i, "schema"))])

SqlScopes == ScopeTree([i \in OfKind({"statement", "subquery"}) |-> Span(i)])

(* A name that several of them have stands for the last. *)
SqlCteBindings(scopes) ==
  Each(SqlCtes, LAMBDA i :
    [BindingAt(SqlCteName(i), Text(SqlCteName(i)), "Definition", "", scopes) EXCEPT
       !.def = GlobalId(lang, <<<<"Type", Text(SqlCteName(i))>>>>)])

SqlFacts ==
  FactsOf(SqlCollectSymbols, Append(SqlCteSymbols, ModuleSymbol(<<>>)), SqlEntityReferences, SqlScopes,
          SqlCteBindings, <<>>)

(***************************************************************************)
(* extract/hcl.rs.                                                         *)
(***************************************************************************)
(* block_type_and_labels: what stands before the body of a block. *)
HclBlockType(i) ==
  LET first == Least(NamedKids(i)) IN IF Kind(first) = "identifier" THEN Text(first) ELSE ""

HclLabels(i) ==
  LET stops == {j \in NamedKids(i) :
                  Kind(j) \in {"block_start", "body", "block_end", "object_start", "object_end"}}
      labels == {j \in NamedKids(i) \ {Least(NamedKids(i))} :
                   Kind(j) \in {"string_lit", "identifier"} /\ \A stop \in stops : j < stop}
  IN  Each(labels, Text)

(* How many labels name a block, and what they make of it. *)
HclBlocks ==
  [resource |-> [labels |-> 2, kind |-> "Resource", under |-> <<>>],
   data |-> [labels |-> 2, kind |-> "Resource", under |-> <<"data">>],
   module |-> [labels |-> 1, kind |-> "Module", under |-> <<"module">>]]

HclDeclarations ==
  {i \in OfKind({"block"}) :
     /\ Up(i) = Least({j \in NamedKids(Root) : Kind(j) = "body"})
     /\ HclBlockType(i) \in DOMAIN HclBlocks
     /\ Len(HclLabels(i)) >= HclBlocks[HclBlockType(i)].labels}

HclDeclarationSymbol(i) ==
  LET block == HclBlocks[HclBlockType(i)]
      labels == SubSeq(HclLabels(i), 1, block.labels)
  IN  MakeSymbol(i, Last(labels), block.kind,
                 Namespaced(block.under \o Front(labels)) \o <<<<"Type", Last(labels)>>>>)

HclCollectSymbols == Each(HclDeclarations, HclDeclarationSymbol)

(* A traversal of two segments or more refers to the second, of the first. *)
HclIsTraversal(i) ==
  /\ Kind(Least(NamedKids(i))) = "variable_expr"
  /\ Child(i, "get_attr") # 0

HclSegmentOf(i) == Child(i, "identifier")

HclReferences ==
  LET traversals == {i \in OfKind({"expression"}) :
                       HclIsTraversal(i) /\ \A up \in Above(i) : ~(Kind(up) = "expression" /\ HclIsTraversal(up))}
      both == {i \in traversals : HclSegmentOf(Least(NamedKids(i))) # 0 /\ HclSegmentOf(Child(i, "get_attr")) # 0}
  IN  Each(both, LAMBDA i :
        [RefAt(Least(NamedKids(i)), Text(HclSegmentOf(Child(i, "get_attr"))), "TypeRef") EXCEPT
           !.qualifier = <<Text(HclSegmentOf(Least(NamedKids(i))))>>])

(* One scope, and only definitions are bound in it. *)
HclNoLocals(scopes) == <<>>

HclFacts ==
  FactsOf(HclCollectSymbols, <<ModuleSymbol(<<>>)>>, HclReferences, ScopeTree(<<>>), HclNoLocals, <<>>)

(***************************************************************************)
(* extract/svelte.rs: the scripts of a component are extracted one by one, *)
(* each by itself, and their facts are moved to where the script stands    *)
(* and put together.                                                       *)
(***************************************************************************)
(* The scripts that are not empty.  A script's text is itself a tree. *)
SvelteRawText(i) == Child(i, "raw_text")

SvelteScripts ==
  {SvelteRawText(i) : i \in {j \in OfKind({"script_element"}) :
                               \A up \in Above(j) : Kind(up) # "script_element"}} \ {0}

(* The tree of a script by itself. *)
SvelteInner(i) ==
  [n \in 1 .. tree[i].last - i + 1 |->
     [tree[i + n - 1] EXCEPT !.up = IF n = 1 THEN 0 ELSE @ - i + 1,
                             !.last = @ - i + 1,
                             !.start = @ - Start(i),
                             !.end = @ - Start(i)]]

EcmaScript(inner) == INSTANCE EcmaScriptExtractor WITH tree <- inner

SvelteShift(span, delta) == <<span[1] + delta, span[2] + delta>>

(* The facts of a script where it stands (shift_offsets), its scopes put   *)
(* behind "base" others and its own file scope under the document's.  What *)
(* is a module is dropped.                                                 *)
SvelteMoved(found, delta, base) ==
  LET symbols == SelectSeq(found.symbols, LAMBDA s : s.kind # "Module")
      Scope(scope) == IF scope = 0 THEN 0 ELSE scope + base
  IN  [symbols |-> [n \in DOMAIN symbols |-> [symbols[n] EXCEPT !.span = SvelteShift(@, delta)]],
       references |-> [n \in DOMAIN found.references |->
                         [found.references[n] EXCEPT !.byte = @ + delta, !.scope = Scope(@)]],
       scopes |-> [n \in DOMAIN found.scopes |->
                     [found.scopes[n] EXCEPT !.span = SvelteShift(@, delta),
                                             !.parent = IF n = 1 THEN 1 ELSE Scope(@)]],
       bindings |-> [n \in DOMAIN found.bindings |->
                       [found.bindings[n] EXCEPT !.intro = @ + delta, !.scope = @ + base]]]

SvelteFactsOfScripts ==
  Each(SvelteScripts, LAMBDA i :
    Given(SvelteInner(i), LAMBDA inner : [at |-> Start(i), facts |-> EcmaScript(inner)!ExtractFacts({})]))

SvelteMerge(merged, script) ==
  LET moved == SvelteMoved(script.facts, script.at, Len(merged.scopes))
  IN  [merged EXCEPT !.symbols = @ \o moved.symbols, !.references = @ \o moved.references,
                     !.scopes = @ \o moved.scopes, !.bindings = @ \o moved.bindings]

SvelteFacts ==
  LET document == [file |-> file, lang |-> lang, symbols |-> <<>>, references |-> <<>>,
                   scopes |-> ScopeTree(<<>>), bindings |-> <<>>, exports |-> <<>>]
      Merged(scripts) == FoldLeft(SvelteMerge, document, scripts)
  IN  [Given(SvelteFactsOfScripts, Merged) EXCEPT !.symbols = Append(@, ModuleSymbol(path))]
=============================================================================
