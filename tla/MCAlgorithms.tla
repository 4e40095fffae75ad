---------------------------- MODULE MCAlgorithms ----------------------------
(***************************************************************************)
(* The pools the inputs are drawn from.                                    *)
(***************************************************************************)
EXTENDS Algorithms, SampleFacts

(* A diamond, a parallel pair, a cycle through the seed and one beside it. *)
Link3(from, to, confidence, role) ==
  [from |-> from, to |-> to, confidence |-> confidence, role |-> role]

MCEdgePool ==
  <<Link3(1, 2, 4, "Call"), Link3(2, 1, 2, "Call"), Link3(2, 1, 3, "Read"),
    Link3(3, 1, 3, "Call"), Link3(3, 4, 4, "Call"), Link3(4, 2, 3, "Call"),
    Link3(4, 3, 4, "Call"), Link3(5, 2, 4, "Call"), Link3(5, 4, 3, "Read")>>

Bounds(depth, nodes, page, least, role) ==
  [max_depth |-> depth, max_nodes |-> nodes, page |-> page,
   filter |-> [min_confidence |-> least, role |-> role]]

MCImpactOptions ==
  {Bounds(d, n, 1, 1, "") : d \in 1 .. 3, n \in {1, 2, 4}}
    \cup {Bounds(3, 4, 2, 3, ""), Bounds(3, 3, 2, 1, "Call"), Bounds(0, 2, 1, 1, "")}

MCSeedPairs == {<<1, 4>>}

MCHunkPool == {<<0, 0>>} \cup (1 .. 3) \X (0 .. 2)

MCRelationPool ==
  {<<"A", "B">>, <<"A", "C">>, <<"B", "C">>, <<"B", "D">>, <<"C", "D">>, <<"C", "B">>,
   <<"C", "A">>}

(* Files of definitions. *)
Java(file, type, members, references) ==
  LET class == GlobalId("java", <<Ns("app"), <<"Type", type>>>>)
      Member(n) ==
        [id |-> GlobalId("java", <<Ns("app"), <<"Type", type>>, <<"Method", members[n]>>>>),
         name |-> members[n], kind |-> "Method", file |-> file,
         span |-> <<10 * n, 10 * n + 10>>]
  IN  FileOf("java", file,
        <<[id |-> class, name |-> type, kind |-> "Class", file |-> file, span |-> <<0, 90>>]>>
          \o [n \in DOMAIN members |-> Member(n)],
        references, <<>>, <<>>)

Util ==
  [FileOf("rust", "util",
     <<Module("util", "util", 90), Definition("util", "util", "Function", "Term", "helper", 10),
       Definition("util", "util", "Struct", "Type", "Config", 30)>>, <<>>, <<>>, <<>>)
   EXCEPT !.exports = <<[symbol |-> Item("util", "Term", "helper"),
                         name |-> "c_helper", abi |-> "C"]>>]

Hub == FileOf("rust", "hub", <<Module("hub", "hub", 90)>>,
              <<Alias("helper", "", "util"), Alias("mend", "helper", "util")>>, <<>>, <<>>)

Glue == FileOf("c", "glue",
  <<[id |-> GlobalId("c", <<<<"Term", "glue">>>>), name |-> "glue", kind |-> "Function",
     file |-> "glue", span |-> <<0, 50>>]>>, <<Ref("c_helper", "Call", 5)>>, <<>>, <<>>)

(* It calls from the package's own symbol and from a function. *)
Seller ==
  [Shop("shop2", "sell") EXCEPT
     !.scopes = OneScope,
     !.references = <<InScope(Ref("helper", "Call", 5)), InScope(Ref("helper", "Call", 12))>>]

MCFilePool ==
  <<Util, Hub, Glue, Shop("shop1", "helper"), Seller,
   Java("base", "Base", <<"run", "helper">>, <<>>),
   Java("derived", "Derived", <<"go">>,
        <<[Ref("Base", "IsImplementation", 2) EXCEPT !.qualifier = <<"Derived">>],
          [Ref("run", "Call", 12) EXCEPT !.self_receiver = TRUE]>>)>>

(* What the user file does with them. *)
From(ref, path) == [ref EXCEPT !.from_path = path]
Of(ref, qualifier) == [ref EXCEPT !.qualifier = qualifier]

MCUsePool ==
  <<From(Ref("helper", "Import", 1), <<"crate", "util">>),
    From(Ref("dep", "Import", 2), <<"dep">>),
    From(Ref("mend", "Import", 3), <<"crate", "hub">>),
    Ref("util", "ModuleRef", 4),
    Ref("shop", "ModuleRef", 5),
    InScope(Ref("dep", "Call", 12)),
    InScope(Ref("helper", "Call", 14)),
    Of(Ref("helper", "Call", 16), <<"crate", "hub">>),
    Of(Ref("mend", "Call", 17), <<"crate", "hub">>),
    InScope(Ref("mend", "Call", 18)),
    [Ref("Config", "TypeRef", 20) EXCEPT !.annotated = TRUE],
    InScope(Of(Ref("run", "Call", 24), <<"x">>)),
    InScope(Of(Ref("run", "Call", 26), <<"Derived">>)),
    InScope(Ref("Helper", "Call", 28)),
    InScope(Ref("x", "Read", 30))>>

MCUserFile ==
  FileOf("rust", "user",
    <<Module("user", "user", 90),
      [Definition("user", "user", "Function", "Term", "main", 10) EXCEPT !.span = <<10, 60>>]>>,
    <<>>, OneScope,
    <<[Binds("helper", "Import", 0) EXCEPT !.from = <<"crate", "util">>],
      [Binds("x", "Local", 11) EXCEPT !.type = "Derived"]>>)

MCLowercase ==
  LET names == {"app", "Base", "Config", "Derived", "dep", "go", "glue", "helper", "Helper",
                "c_helper", "hub", "limit", "main", "mend", "one", "run", "Run", "sell", "shop",
                "two", "user", "util", "x"}
      Lower(n) == CASE n = "Helper" -> "helper" [] n = "Base" -> "base"
                    [] n = "Config" -> "config" [] n = "Run" -> "run"
                    [] n = "Derived" -> "derived"
                    [] OTHER -> n
  IN  [n \in names |-> Lower(n)]

(* Chains and cycles of re-exports over two definitions of one name. *)
Entry(path, source, owner, ordinal) ==
  [path |-> path, owner |-> owner, ordinal |-> ordinal, source_path |-> source]

MCAliasPool ==
  {Entry(<<"a", "f">>, <<"b", "f">>, "a", 1), Entry(<<"b", "f">>, <<"a", "f">>, "b", 1),
   Entry(<<"b", "f">>, <<"c", "f">>, "b", 2), Entry(<<"c", "f">>, <<"x", "f">>, "c", 1),
   Entry(<<"f">>, <<"a", "f">>, "d", 1), Entry(<<"a", "f">>, <<"y", "g">>, "a", 2),
   Entry(<<"c", "f">>, <<"b", "f">>, "c", 2)}

MCAliasIndex ==
  LET defs == {Instance("f", "x", 2, Item("x", "Term", "f")),
               Instance("f", "a", 3, Item("a", "Term", "f")),
               Instance("g", "y", 2, Item("y", "Term", "g"))}
      types == {Instance("g", "y", 2, Item("y", "Term", "g"))}
  IN  [NewIndex EXCEPT !.by_name = defs, !.types = types]

(* The facts of one file, right and wrong. *)
One == Definition("one", "one", "Function", "Term", "run", 10)

MCFactPool ==
  <<<<"symbol", Module("one", "one", 90)>>,
    <<"symbol", One>>,
    <<"symbol", Definition("two", "one", "Function", "Term", "far", 30)>>,
    <<"symbol", [One EXCEPT !.id = LocalId("two", 1, "x", 3)]>>,
    <<"scope", [parent |-> 0]>>,
    <<"binding", Binds("x", "Local", 11)>>,
    <<"binding", [Binds("far", "Definition", 0) EXCEPT !.def = Item("two", "Term", "far")]>>,
    <<"binding", [Binds("run", "Definition", 0) EXCEPT !.def = One.id]>>,
    <<"reference", InScope(Ref("x", "Read", 12))>>,
    <<"reference", InScope(Ref("far", "Call", 13))>>,
    <<"reference", InScope(Ref("run", "Call", 5))>>,
    <<"reference", [Ref("Config", "TypeRef", 31) EXCEPT !.annotated = TRUE]>>>>

(* Manifests in three directories of one branch and one beside it. *)
MCManifestPool ==
  {<<<<>>, "package.json">>, <<<<"a">>, "Cargo.toml">>, <<<<"a">>, "go.mod">>,
   <<<<"a", "b">>, "pyproject.toml">>, <<<<"c">>, "package.json">>}

MCSourceLists ==
  {<<<<"a", "b">>, <<"a">>, <<"c">>>>, <<<<"a">>, <<"a", "b">>>>, <<<<"a", "b">>>>,
   <<<<>>, <<"a", "b">>, <<"c", "d">>>>}

Listed(language, size) == [path |-> 0, language |-> language, size |-> size]

MCCandidatePool ==
  {Listed("rust", 1), Listed("rust", 2), Listed("rust", 4), Listed("", 9)}

MCLimitPool ==
  {[max_file_bytes |-> 3, max_files |-> 2, max_total_bytes |-> 3],
   [max_file_bytes |-> 4, max_files |-> 4, max_total_bytes |-> 5]}

(* Names that need an escape and names that need none, in every position;  *)
(* packages whose fields survive the header and some whose fields do not.  *)
MCPackagePool ==
  {Ids!UnknownPackage, Ids!Package(<<"a">>, <<"b", "/", ".">>, <<"a", ".">>)}

MCIdentityPool ==
  LET names == {<<"a">>, <<"a", "b">>, <<"a", "tick">>, <<"tick", "tick">>, <<" ", "/">>, <<>>}
      single == {<<Ids!Descriptor(k, n)>> :
                   k \in {"Namespace", "Term", "TypeParameter", "Parameter"}, n \in names}
                  \cup {<<Ids!Descriptor(k, <<"local">>)>> : k \in {"Type", "Meta", "Macro"}}
                  \cup {<<Ids!Method(n, d)>> : n \in names, d \in {<<>>, <<"+", "a">>}}
      nested == {<<Ids!Descriptor("Namespace", <<"a">>)>> \o path : path \in single}
      stamped == {Ids!WithPackage(Ids!Global(Ids!UnknownPackage, <<"a">>,
                                             <<Ids!Descriptor("Term", <<"a">>)>>), package) :
                    package \in MCPackagePool \cup {Ids!Package(<<"a">>, <<"b", " ", "b">>, <<>>)}}
  IN  {Ids!Global(Ids!UnknownPackage, <<"a">>, path) : path \in single}
        \cup {Ids!Global(Ids!UnknownPackage, <<"b">>, path) :
                path \in {q \in nested : Len(Last(q).name) < 2}}
        \cup stamped
        \cup {Ids!Local(<<"a">>, <<"a", " ", "tick">>), Ids!Local(<<"b">>, <<"a", " ", "tick">>)}

MCScipHeads ==
  LET header == <<"codegraph", " ", ".", " ", "a", " ", ".", " ">>
  IN  {<<>>, <<"local", " ">>, header, header \o <<"a", "(">>, header \o <<"tick">>}

(* Parts of the facts of one source: each kind, visibility, role, context  *)
(* and abi that facts can have, and parts that must be refused. The first  *)
(* is the scope of the file.                                               *)
MCFile(name, extension, language) ==
  [path |-> name \o <<".", extension>>, language |-> language, bytes |-> <<"x", " ", "x", "x">>,
   text |-> <<"x", " ", "x", "x">>, digest |-> <<"x", " ", "x", "x">>]

MCSourceFile == MCFile(<<"a", "/", "b">>, "rs", "Rust")
MCOtherFile == MCFile(<<"b">>, "py", "Python")

Cyclic(values, n) == values[((n - 1) % Len(values)) + 1]

WireId(n) ==
  LET kinds == <<"Namespace", "Type", "Term", "Meta", "Macro">>
      names == <<<<"a">>, <<"b">>, <<"a", "b">>, <<"tick">>>>
  IN  IF n = 19 THEN Ids!Local(MCSourceFile.path, <<"a">>)
      ELSE Ids!Global(Ids!UnknownPackage, <<"rust">>,
                      <<Ids!Descriptor(Cyclic(kinds, n), Cyclic(names, n))>>)

WireSymbol(n) ==
  [id |-> WireId(n), name |-> <<"a">>, kind |-> Cyclic(Wire!SymbolKindsByTag, n),
   visibility |-> Cyclic(Wire!VisibilitiesByTag, n),
   entry_points |-> Cyclic(<<<<>>, <<[kind |-> "Main", value |-> <<>>]>>,
                             <<[kind |-> "HttpRoute", value |-> <<"a">>]>>>>, n),
   file |-> MCSourceFile.path, line |-> n, span |-> <<n % 2, 2 + (n % 3)>>,
   signature |-> Cyclic(<<<<>>, <<"x">>>>, n)]

WireReference(n) ==
  LET role == Cyclic(Wire!RefRolesByTag, n)
      When(holds, value) == IF holds THEN <<value>> ELSE <<>>
  IN  [name |-> <<"x">>,
       occ |-> [file |-> MCSourceFile.path, line |-> n, col |-> n % 2, byte |-> n % 4],
       role |-> role, source_module |-> When(role = "Import", <<"a">>),
       from_path |-> When(role = "Import" /\ n % 2 = 0, <<"b">>),
       imported_name |-> When(role = "Import" /\ n % 2 = 0, <<"x">>),
       is_reexport |-> role = "Import" /\ n % 2 = 0,
       qualifier |-> When(role \in {"Call", "Read"} /\ n % 2 = 0, <<"a">>),
       scope |-> When(n % 3 # 0, 0),
       type_ref_ctx |-> When(role = "TypeRef" /\ n # 19,
                             Cyclic(Wire!TypeRefContextsByTag, n)),
       cross_artifact |-> n % 4 = 0, self_receiver |-> n % 5 = 0]

WireScope(n) ==
  [parent |-> <<0>>, span |-> <<n % 2, 3>>, kind |-> Cyclic(Wire!ScopeKindsByTag, n)]

WireBinding(n) ==
  LET kind == Cyclic(Wire!BindingKindsByTag, n)
      target == CASE kind = "Import" -> [kind |-> "Import", value |-> <<<<"a">>>>, id |-> <<>>]
                  [] kind = "Definition" -> [kind |-> "Def", value |-> <<>>, id |-> <<WireId(n)>>]
                  [] kind \in {"Local", "Param"} -> [kind |-> "Local", value |-> <<>>, id |-> <<>>]
  IN  [scope |-> 0, name |-> <<"a">>, intro |-> n % 4, kind |-> kind, target |-> target,
       type_name |-> IF n % 2 = 0 THEN <<<<"a">>>> ELSE <<>>]

WireExport(n) ==
  [symbol |-> WireId(n), abi |-> Cyclic(Wire!FfiAbisByTag, n), export_name |-> <<"a">>]

Part(verdict, symbols, references, scopes, bindings, exports) ==
  [verdict |-> verdict, symbols |-> symbols, references |-> references, scopes |-> scopes,
   bindings |-> bindings, ffi_exports |-> exports]

Fine(n) ==
  Part("fine", <<WireSymbol(n)>>, <<WireReference(n)>>, <<WireScope(n)>>, <<WireBinding(n)>>,
       <<WireExport(n)>>)

Long(n) == [m \in 1 .. n |-> "a"]

MCPartPool ==
  LET Symbols(verdict, symbols) == Part(verdict, symbols, <<>>, <<>>, <<>>, <<>>)
      Mentions(verdict, references) == Part(verdict, <<>>, references, <<>>, <<>>, <<>>)
      Binding(verdict, binding) == Part(verdict, <<>>, <<>>, <<>>, <<binding>>, <<>>)
      odd == WireSymbol(20)
  IN  <<Part("fine", <<>>, <<>>, <<[parent |-> <<>>, span |-> <<0, 4>>, kind |-> "Module"]>>,
             <<>>, <<>>)>>
        \o [n \in 1 .. 19 |-> Fine(n)]
        \o <<Symbols("ill-formed", <<odd, odd>>),
             Mentions("ill-formed", <<[WireReference(1) EXCEPT !.scope = <<9>>]>>),
             Binding("ill-formed", [WireBinding(1) EXCEPT !.scope = 9]),
             Part("ill-formed", <<>>, <<>>, <<[WireScope(1) EXCEPT !.parent = <<9>>]>>, <<>>, <<>>),
             Symbols("unsendable", <<[odd EXCEPT !.signature = Long(ResponseFrameMax)]>>),
             Symbols("overlong", <<[odd EXCEPT !.signature = Long(MaxStringBytes + 1)]>>),
             Mentions("overlong", [n \in 1 .. MaxCollectionItems + 1 |-> WireReference(1)]),
             Symbols("foreign", <<[odd EXCEPT !.file = <<"b">>]>>),
             Symbols("foreign", <<[odd EXCEPT !.line = 0]>>),
             Symbols("foreign", <<[odd EXCEPT !.span = <<3, 5>>]>>),
             Symbols("foreign", <<[odd EXCEPT !.id.lang = <<"c">>]>>),
             Mentions("foreign", <<[WireReference(1) EXCEPT !.type_ref_ctx = <<"Field">>]>>),
             Mentions("foreign", <<[WireReference(1) EXCEPT !.from_path = <<<<"a">>>>]>>),
             Mentions("foreign", <<[WireReference(1) EXCEPT !.occ.byte = 4]>>),
             Part("foreign", <<>>, <<>>, <<[WireScope(1) EXCEPT !.span = <<2, 5>>]>>, <<>>, <<>>),
             Binding("foreign", [WireBinding(1) EXCEPT !.kind = "Import"]),
             Binding("foreign", [WireBinding(1) EXCEPT !.intro = 4]),
             Part("foreign", <<>>, <<>>, <<>>, <<>>, <<WireExport(20)>>)>>

(* Every language under one extension of each, and files that changed, are *)
(* not text, or lie outside the project.                                   *)
MCInventoryPool ==
  LET Sound(language) ==
        [sound |-> TRUE, file |-> MCFile(<<"a">>, CHOOSE e \in Wire!Extensions[language] : TRUE,
                                         language)]
      Unsound(file) == [sound |-> FALSE, file |-> file]
      file == MCSourceFile
  IN  {Sound(language) : language \in Wire!All}
        \cup {[sound |-> TRUE, file |-> MCFile(<<"a">>, "RS", "Rust")]}
        \cup {Unsound(f) :
                f \in {[file EXCEPT !.digest = <<"x">>], [file EXCEPT !.text = <<"x">>],
                       [file EXCEPT !.bytes[1] = "invalid"], [file EXCEPT !.language = "Python"],
                       [file EXCEPT !.path = <<".", ".", "/", "a", ".", "rs">>],
                       [file EXCEPT !.path = <<"/", "a", ".", "rs">>],
                       [file EXCEPT !.path = Long(MaxStringBytes) \o <<".", "rs">>],
                       [MCFile(<<"a">>, "x", "Rust") EXCEPT !.path = <<"a">>]}}

MCRulePool ==
  <<Wire!Rule("Rust", <<"app::sql">>, 1), Wire!Rule("Python", <<"text">>, 0),
    Wire!Rule("Sql", <<"a">>, 2)>>

MCMessagePool == {<<>>, Long(MaxErrorMessageBytes), Long(MaxErrorMessageBytes + 1),
                  Long(MaxStringBytes + 1)}

(* One name under two languages in two files, a type with a member inside  *)
(* the span of a function, and identities that only edges know.            *)
RunIn(lang) == GlobalId(lang, <<Ns("one"), <<"Term", "run">>>>)
AConfig == Item("one", "Type", "Config")
ALimit == Item("one", "Term", "limit")
ALocal == LocalId("one", 1, "limit", 3)

MCIdOrder == <<RunIn("go"), RunIn("python"), AConfig, ALimit, RunIn("rust"), ALocal>>
MCNameOrder == <<"Config", "Run", "limit", "one", "run", "two">>

MCSymbolPool ==
  LET Defined(id, kind, file, span, words) ==
        [id |-> id, name |-> LeafName(id), kind |-> kind, file |-> file, span |-> span,
         signature |-> words]
  IN  <<Defined(RunIn("python"), "Function", "two", <<2, 6>>, {}),
        Defined(AConfig, "Struct", "one", <<2, 6>>, {"Config", "Run"}),
        Defined(ALimit, "Const", "one", <<3, 9>>, {"limit"}),
        Defined(RunIn("rust"), "Function", "one", <<0, 10>>, {"run"})>>

MCLinkPool ==
  LET At(file, byte) == [file |-> file, byte |-> byte]
  IN  <<Edge(RunIn("python"), RunIn("rust"), "Call", "Exact", "ScopeGraph", At("two", 3)),
        Edge(RunIn("python"), RunIn("rust"), "Call", "NameOnly", "FfiBridge", At("two", 3)),
        Edge(AConfig, AConfig, "TypeRef", "Scoped", "ScopeGraph", At("one", 4)),
        Edge(RunIn("rust"), AConfig, "Read", "Scoped", "ScopeGraph", At("one", 8)),
        Edge(RunIn("rust"), RunIn("go"), "Import", "Exact", "External", At("one", 1)),
        Edge(ALimit, ALocal, "Call", "Heuristic", "ScopeGraph", At("one", 5)),
        Edge(RunIn("python"), AConfig, "Import", "Scoped", "ScopeGraph", At("two", 1))>>

MCSelectors ==
  <<[by |-> "Name", value |-> "run"], [by |-> "Scip", value |-> <<RunIn("go").path, <<>>>>],
    [by |-> "Id", value |-> RunIn("go")], [by |-> "Id", value |-> AConfig]>>

MCOptionPool ==
  LET Narrowed(file, kind, unique) == [file |-> file, kind |-> kind, require_unique |-> unique]
  IN  {Narrowed("", "", FALSE), Narrowed("", "", TRUE), Narrowed("one", "Function", FALSE)}

MCFilters ==
  {[role |-> "", min_confidence |-> "Heuristic", provenance |-> ""],
   [role |-> "Call", min_confidence |-> "Scoped", provenance |-> ""],
   [role |-> "", min_confidence |-> "NameOnly", provenance |-> "ScopeGraph"]}

MCRawReferences ==
  [file \in {"one"} |-> <<Ref("run", "Read", 8), Ref("run", "Call", 2), Ref("run", "Read", 2),
                         Ref("Config", "TypeRef", 4)>>]

(* Lines that end in every way, with characters of every width. *)
MCDiskNow ==
  LET File(text) == [node |-> "File", text |-> text]
  IN  [file \in {"one", "two", "gone"} |->
         IF file = "one" THEN File(<<"a", "a", "LF", "wide", "a", "CR", "LF", "a", "a", "a">>)
         ELSE IF file = "two" THEN File(<<"a", "LF", "a", "wide", "wide", "LF">>)
         ELSE [node |-> "Absent", text |-> <<>>]]

MCDiffPool ==
  LET To(file) == [header |-> file, hunk |-> <<>>]
      Lines(first, count) == [header |-> "", hunk |-> <<first, count>>]
  IN  {<<To("one"), Lines(2, 1)>>, <<To("two"), Lines(1, 0), Lines(4, 1)>>,
       <<To("one"), Lines(1, 1), To("/dev/null"), Lines(2, 0), Lines(3, 1), To("two"),
         Lines(2, 1)>>,
       <<Lines(2, 1), To("gone"), Lines(1, 1), To("one"), Lines(3, 0)>>}

(* Three files that come, change and go. *)
First == FileOf("rust", "one", <<Module("one", "one", 90), One>>,
                <<InScope(Ref("run", "Call", 5)), Ref("util", "ModuleRef", 6)>>, OneScope,
                <<[Binds("run", "Definition", 0) EXCEPT !.def = One.id]>>)
Second == [First EXCEPT !.references = <<Ref("util", "ModuleRef", 6)>>]

MCTrees ==
  LET Tree(one, util, hub) ==
        [f \in one.names \cup util \cup hub |->
           IF f = "one" THEN one.facts ELSE IF f = "util" THEN Util ELSE Hub]
      Has(facts) == [names |-> {"one"}, facts |-> facts]
      None == [names |-> {}, facts |-> First]
  IN  {Tree(Has(First), {"util"}, {}), Tree(Has(Second), {"util"}, {"hub"}),
       Tree(None, {"util"}, {"hub"}), Tree(Has(First), {}, {"hub"})}
=============================================================================
