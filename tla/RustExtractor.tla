--------------------------- MODULE RustExtractor ---------------------------
(***************************************************************************)
(* extract/rust.rs.                                                        *)
(***************************************************************************)
EXTENDS ExtractSupport

RustNamespaces ==
  LET p == IF Len(path) > 1 /\ Head(path) = "src" THEN Tail(path) ELSE path
  IN  IF Last(p) = "mod" \/ p \in {<<"lib">>, <<"main">>} THEN Front(p) ELSE p

ImplTypeName(i) ==
  IF Field(i, "type") = 0 THEN "impl" ELSE SimpleTypeName(Field(i, "type"), "::")

(***************************************************************************)
(* Definitions: the items of the file itself and the members of its types. *)
(***************************************************************************)
ItemKinds ==
  [function_item |-> <<"Function", "Method", "identifier">>,
   struct_item |-> <<"Struct", "Type", "type_identifier">>,
   enum_item |-> <<"Enum", "Type", "type_identifier">>,
   trait_item |-> <<"Trait", "Type", "type_identifier">>,
   type_item |-> <<"TypeAlias", "Type", "type_identifier">>,
   const_item |-> <<"Const", "Term", "identifier">>,
   static_item |-> <<"Static", "Term", "identifier">>,
   mod_item |-> <<"Module", "Namespace", "identifier">>]

ItemName(i) == Child(i, ItemKinds[Kind(i)][3])

Items ==
  {i \in Kids(Root) : /\ Kind(i) \in DOMAIN ItemKinds
                      /\ ItemName(i) # 0
                      /\ Kind(i) = "mod_item" => Field(i, "body") # 0}

(* The members of a type, by what they become, and the node of the name. *)
MemberShapes(i) ==
  CASE Kind(i) = "impl_item" ->
         [function_item |-> <<"Method", "Method">>, const_item |-> <<"Const", "Term">>]
    [] Kind(i) = "trait_item" ->
         [function_signature_item |-> <<"Method", "Method">>,
          function_item |-> <<"Method", "Method">>, const_item |-> <<"Const", "Term">>]
    [] Kind(i) = "struct_item" -> [field_declaration |-> <<"Field", "Term">>]
    [] Kind(i) = "enum_item" -> [enum_variant |-> <<"Variant", "Term">>]
    [] OTHER -> <<>>

MemberName(m) ==
  IF Kind(m) \in {"field_declaration", "enum_variant"} THEN Field(m, "name")
  ELSE Child(m, "identifier")

(* An implementation of a trait declares nothing of its own. *)
Owners == (Items \cup {i \in Kids(Root) : Kind(i) = "impl_item"})
            \ {i \in Nodes : Kind(i) = "impl_item" /\ Field(i, "trait") # 0}

OwnerName(i) == IF Kind(i) = "impl_item" THEN ImplTypeName(i) ELSE Text(ItemName(i))

MembersOf(i) ==
  {m \in Kids(Field(i, "body")) : Kind(m) \in DOMAIN MemberShapes(i) /\ MemberName(m) # 0}

Members == UNION {MembersOf(i) : i \in Owners}

ItemSymbol(i) ==
  LET shape == ItemKinds[Kind(i)]
      name == Text(ItemName(i))
  IN  MakeSymbol(i, name, shape[1], Namespaced(RustNamespaces) \o <<<<shape[2], name>>>>)

MemberSymbol(m) ==
  LET owner == Up(Up(m))
      shape == MemberShapes(owner)[Kind(m)]
      name == Text(MemberName(m))
  IN  MakeSymbol(m, name, shape[1],
                 MemberDescriptors(RustNamespaces, OwnerName(owner), <<shape[2], name>>))

CollectSymbols ==
  Each(Items \cup Members, LAMBDA i : IF i \in Items THEN ItemSymbol(i) ELSE MemberSymbol(i))

(***************************************************************************)
(* What a function is besides: an entry point, an export.  Attributes are  *)
(* the run of attribute_item siblings right before it.                     *)
(***************************************************************************)
RouteAttrs == {"get", "post", "put", "delete", "patch", "head", "options", "route",
               "connect", "trace"}

AttributeName(i) ==
  LET named == Least(NamedKids(Least(NamedKids(i))))
  IN  IF Kind(Least(NamedKids(i))) # "attribute" THEN ""
      ELSE IF Kind(named) = "identifier" THEN Text(named)
      ELSE IF Kind(named) = "scoped_identifier" THEN Text(Field(named, "name"))
      ELSE ""

EntryPoints(i) ==
  LET routes == {a \in RunBefore(i, "attribute_item") : AttributeName(a) \in RouteAttrs}
  IN  (IF Text(ItemName(i)) = "main" THEN <<"Main">> ELSE <<>>) \o Each(routes, AttributeName)

FfiExports ==
  LET functions == {i \in Items : Kind(i) = "function_item"}
      Attributes(i) ==
        Reverse(Each(RunBefore(i, "attribute_item"), LAMBDA a : Tokens(Child(a, "attribute"))))
      Of(i) == LET found == ExportsOf(Attributes(i), Text(ItemName(i)))
               IN  [n \in DOMAIN found |-> [symbol |-> ItemSymbol(i).id, abi |-> found[n].abi,
                                            name |-> found[n].name]]
  IN  FlattenSeq(Each(functions, Of))

(***************************************************************************)
(* Calls.                                                                  *)
(***************************************************************************)
Called(i) == Field(i, "function")

CalledField(i) ==
  IF Kind(Called(i)) = "field_expression" THEN Child(Called(i), "field_identifier") ELSE 0

Callee(i) ==
  IF Kind(Called(i)) = "identifier" THEN Called(i)
  ELSE IF Kind(Called(i)) = "scoped_identifier" /\ Field(Called(i), "path") # 0
  THEN Field(Called(i), "name")
  ELSE CalledField(i)

CallExpressions == OfKind({"call_expression"})

CallReferences ==
  LET calls == {i \in CallExpressions : Callee(i) # 0 /\ Long(Callee(i))}
      Qualifier(i) == IF Kind(Called(i)) = "scoped_identifier"
                      THEN PathOf(Field(Called(i), "path")) ELSE <<>>
      found == Each(calls, LAMBDA i : CallTo(Callee(i), Qualifier(i)))
      methods == {i \in calls : CalledField(i) # 0}
      Receiver(i) == Field(Called(i), "value")
      own == {i \in methods : Kind(Receiver(i)) = "self"}
      plain == {i \in methods : Kind(Receiver(i)) = "identifier"}
  IN  MarkReceiverQualifierCalls(
        MarkSelfReceiverCalls(found, {Callee(i) : i \in own}),
        {<<Callee(i), Receiver(i)>> : i \in plain})

(* Type::function(..) also refers to the type. *)
AssociatedCallTypeReferences ==
  LET subjects == {Field(Called(i), "path") : i \in
                     {j \in CallExpressions : Kind(Called(j)) = "scoped_identifier"}}
      Name(i) == SimpleTypeName(i, "::")
      Subject(i) == [TypeRefTo(i, Name(i)) EXCEPT
                       !.qualifier = Segments(BeforeLast(Tokens(i), "::"))]
  IN  Each({i \in subjects \ {0} : Len(Name(i)) >= MinRefLen}, Subject)

(***************************************************************************)
(* Implementations, modules, imports.                                      *)
(***************************************************************************)
Inheritance ==
  LET bounds(i) == {b \in Kids(Field(i, "bounds")) :
                      Kind(b) \in {"type_identifier", "generic_type", "scoped_type_identifier"}}
      implemented == {Field(i, "trait") : i \in OfKind({"impl_item"})} \ {0}
      inherited == UNION {bounds(i) : i \in OfKind({"trait_item"})}
      Subject(b) == IF b \in implemented THEN ImplTypeName(Up(b))
                    ELSE Text(Child(Up(Up(b)), "type_identifier"))
  IN  Each(implemented \cup inherited, LAMBDA b :
        [RefAt(b, SimpleTypeName(b, "::"), "IsImplementation") EXCEPT
           !.qualifier = <<Subject(b)>>])

ModuleDeclarations ==
  Each({Field(i, "name") : i \in OfKind({"mod_item"})} \ {0},
       LAMBDA i : RefTo(i, "ModuleRef"))

IsCrateRoot == Last(path) \in {"lib", "main", "mod"}

(* push_path_module_refs: every segment of a path but its anchors. *)
PathModules(i) ==
  LET steps == {j \in Within(i) : Kind(j) \in {"identifier", "crate"}}
      named == {j \in steps : /\ Kind(j) = "identifier"
                              /\ Text(j) \notin {"crate", "self", "super", "Self"}}
      roots == {j \in steps : Kind(j) = "crate" /\ IsCrateRoot}
  IN  Each(named \cup roots, LAMBDA j :
        RefAt(j, IF j \in named THEN Text(j) ELSE ModuleName(RustNamespaces), "ModuleRef"))

Imports == OfKind({"use_declaration"})

Grouping == {"use_list", "scoped_use_list", "use_as_clause"}

(* The imported paths: those that only grouping separates from `use`. *)
UseLeaves(i) ==
  {j \in Below(Up(Field(i, "argument"))) :
     /\ Kind(j) \in {"identifier", "scoped_identifier"}
     /\ \A up \in Above(j) \cap Within(Field(i, "argument")) : Kind(up) \in Grouping
     /\ ~IsField(j, "alias")
     /\ ~(Kind(Up(j)) = "scoped_use_list" /\ IsField(j, "path"))}

(* Only the nearest list counts: an outer prefix is not put before it. *)
UsePrefix(j) ==
  LET lists == {up \in Above(j) : Kind(up) = "scoped_use_list"}
  IN  IF lists = {} THEN <<>> ELSE PathOf(Field(Max(lists), "path"))

UseRef(i, j) ==
  LET scoped == Kind(j) = "scoped_identifier"
      leaf == IF scoped THEN Field(j, "name") ELSE j
      plain == ImportRef(leaf, Text(leaf),
                         IF ~scoped THEN UsePrefix(j)
                         ELSE PathOf(Field(j, "path")))
      reexported == Text(Child(i, "visibility_modifier")) = "pub"
  IN  IF Kind(Up(j)) = "use_as_clause"
      THEN [plain EXCEPT !.imported_name = @ \o Text(leaf), !.reexport = reexported,
                         !.name = Text(Field(Up(j), "alias"))]
      ELSE [plain EXCEPT !.reexport = reexported]

CollectImports ==
  LET Leaf(i, j) == (IF Kind(j) = "scoped_identifier" THEN PathModules(Field(j, "path"))
                     ELSE <<>>) \o <<UseRef(i, j)>>
  IN  FlattenSeq(Each(Imports, LAMBDA i :
        FlattenSeq(Each(UseLeaves(i), LAMBDA j : Leaf(i, j)))))

(***************************************************************************)
(* Types, reads and writes.  Macros are not looked into.                   *)
(***************************************************************************)
Annotations ==
  {Field(i, "type") : i \in OfKind({"parameter", "field_declaration"})}
    \cup {Field(i, "return_type") : i \in OfKind({"function_item"})}
    \cup UNION {Fields(i, "type") : i \in OfKind({"ordered_field_declaration_list"})}

NamedTypes(i) ==
  {j \in Within(i) :
     /\ Kind(j) \in {"type_identifier", "scoped_type_identifier"}
     /\ \A up \in Above(j) \cap Within(i) : Kind(up) # "scoped_type_identifier"}

TypeReferences ==
  LET Written(j) ==
        IF Kind(j) = "type_identifier" THEN TypeRefTo(j, Text(j))
        ELSE [TypeRefTo(Field(j, "name"), Text(Field(j, "name"))) EXCEPT
                !.qualifier = PathOf(Field(j, "path"))]
      Context(i, j) == IF \E up \in Above(j) \cap Within(i) : Kind(up) = "type_arguments"
                       THEN "generic" ELSE Kind(Up(i))
      Contexts(j) == {Context(i, j) : i \in {a \in Annotations : j \in NamedTypes(a)}}
  IN  FlattenSeq(Each(UNION {NamedTypes(i) : i \in Annotations}, LAMBDA j :
        [n \in 1 .. Cardinality(Contexts(j)) |-> Written(j)]))

Macros == {"macro_definition", "macro_invocation"}

NamedItems == {"function_item", "struct_item", "enum_item", "const_item", "static_item",
               "mod_item", "trait_item", "type_item"}

Assignments == {"assignment_expression", "compound_assignment_expr"}

LeavesCallees(i) ==
  LET up == Kind(Up(i))
  IN  \/ up \in NamedItems /\ IsField(i, "name")
      \/ up \in {"let_declaration", "parameter"} /\ IsField(i, "pattern")
      \/ up \in {"closure_parameters", "mut_pattern", "ref_pattern", "scoped_identifier",
                 "use_declaration"} \cup Grouping
      \/ up \in Assignments /\ IsField(i, "left")

IsNonReadPosition(i) ==
  LET up == Kind(Up(i))
  IN  \/ up = "call_expression" /\ IsField(i, "function")
      \/ up \in NamedItems /\ IsField(i, "name")
      \/ up \in {"let_declaration", "parameter"} /\ IsField(i, "pattern")
      \/ up \in {"closure_parameters", "mut_pattern", "ref_pattern", "scoped_identifier",
                 "use_declaration"} \cup Grouping
      \/ up \in Assignments /\ IsField(i, "left")

Reads ==
  {i \in Outside(Macros) : Kind(i) = "identifier" /\ Long(i) /\ ~IsNonReadPosition(i)}

Writes ==
  {i \in Outside(Macros) :
     Kind(i) = "identifier" /\ Long(i) /\ Kind(Up(i)) \in Assignments /\ IsField(i, "left")}

FieldReads ==
  LET IsCallee(i) == Kind(Up(i)) = "call_expression" /\ IsField(i, "function")
      accesses == {i \in Outside(Macros) :
                     /\ Kind(i) = "field_expression" /\ ~IsCallee(i)
                     /\ Kind(Field(i, "field")) = "field_identifier" /\ Long(Field(i, "field"))}
  IN  Each(accesses, LAMBDA i : MemberRead(Field(i, "field"), Field(i, "value"), "self"))

(***************************************************************************)
(* SQL in a string: a call or a macro that a binding rule names.           *)
(***************************************************************************)
MacroArgument(i, n) ==
  LET trees == Child(i, "token_tree")
      Commas(j) == {k \in Kids(trees) : k < j /\ Kind(k) = ","}
  IN  Least({j \in Kids(trees) : Kind(j) \in {"string_literal", "raw_string_literal"}
                                   /\ Cardinality(Commas(j)) = n})

BoundArgument(i, rule) ==
  IF Kind(i) = "call_expression"
  THEN IF Kind(Called(i)) = "scoped_identifier" /\ PathOf(Called(i)) = rule.construct
       THEN Nth(NamedKids(Field(i, "arguments")), rule.sql_arg) ELSE 0
  ELSE IF PathOf(Field(i, "macro")) = rule.construct THEN MacroArgument(i, rule.sql_arg) ELSE 0

QueryBindings(rules) ==
  LET sites == OfKind({"call_expression", "macro_invocation"})
      mine == {rule \in rules : rule.lang = lang}
      bound == UNION {{BoundArgument(i, rule) : rule \in mine} : i \in sites}
      strings == {i \in bound : Kind(i) \in {"string_literal", "raw_string_literal"}}
  IN  FlattenSeq(Each(strings, LAMBDA i : EmbeddedSqlRefs(i, "string_content")))

(***************************************************************************)
(* Scopes and local bindings.                                              *)
(***************************************************************************)
Functions == {"function_item", "closure_expression"}
Bodied == {"mod_item", "impl_item", "trait_item", "struct_item", "enum_item"}

OpenedByFunctions ==
  {i \in Outside(Macros) :
     /\ Kind(i) \in Functions \/ (Kind(i) \in Bodied /\ Field(i, "body") # 0)
     /\ \A up \in Above(i) :
          Kind(up) \in Functions \cup Bodied /\ Field(up, "body") # 0
            => i \in Within(Field(up, "body"))}

(* A function's scope is its own; what its body is does not open another. *)
Opening ==
  {i \in Outside(Macros) :
     /\ ~(Kind(Up(i)) \in Functions /\ IsField(i, "body"))
     /\ Kind(i) \in Functions \cup {"block"} \/ (Kind(i) \in Bodied /\ Field(i, "body") # 0)
     /\ \A up \in Above(i) :
          Kind(up) \in Functions \cup Bodied /\ Field(up, "body") # 0
            => i \in Within(Field(up, "body"))}

Scopes ==
  ScopeTree([i \in Opening |->
    IF Kind(i) \in Bodied THEN Span(Field(i, "body")) ELSE Span(i)])

PatternIdent(i) ==
  IF Kind(i) = "identifier" THEN i
  ELSE IF Kind(i) \in {"mut_pattern", "ref_pattern"} THEN Child(i, "identifier") ELSE 0

LetTypeName(i) ==
  LET value == Field(i, "value")
      made == IF Kind(value) = "struct_expression" THEN Field(value, "name")
              ELSE IF Kind(value) = "call_expression"
                        /\ Kind(Field(value, "function")) = "scoped_identifier"
              THEN Field(Field(value, "function"), "path") ELSE 0
      typed == IF Field(i, "type") # 0 THEN Field(i, "type") ELSE made
  IN  IF typed = 0 THEN "" ELSE SimpleTypeName(typed, "::")

Lets == {i \in OfKind({"let_declaration"}) : PatternIdent(Field(i, "pattern")) # 0}

Parameters ==
  UNION {NamedKids(Field(i, "parameters")) : i \in OfKind(Functions)}

(* collect_params: the node that a parameter introduces, 0 for a pattern. *)
ParameterIdent(i) ==
  CASE Kind(i) = "self_parameter" -> Child(i, "self")
    [] Kind(i) = "identifier" -> i
    [] Kind(i) = "parameter" -> IF Kind(Field(i, "pattern")) = "self" THEN Field(i, "pattern")
                                ELSE PatternIdent(Field(i, "pattern"))
    [] OTHER -> 0

ParameterType(i) ==
  IF Kind(i) = "parameter" /\ Kind(Field(i, "pattern")) # "self" /\ Field(i, "type") # 0
  THEN SimpleTypeName(Field(i, "type"), "::") ELSE ""

LocalBindings(scopes) ==
  Each({i \in Parameters : ParameterIdent(i) # 0}, LAMBDA i :
        BindingAt(ParameterIdent(i), Text(ParameterIdent(i)), "Param", ParameterType(i), scopes))
    \o Each(Lets, LAMBDA i :
        LET name == PatternIdent(Field(i, "pattern"))
        IN  BindingAt(name, Text(name), "Local", LetTypeName(i), scopes))

(***************************************************************************)
(* extract_impl.                                                           *)
(***************************************************************************)
ExtractFacts(rules) ==
  LET refs == CallReferences \o Inheritance \o ModuleDeclarations \o CollectImports
                \o TypeReferences \o AssociatedCallTypeReferences
                \o Each(Reads, LAMBDA i : RefTo(i, "Read")) \o FieldReads
                \o Each(Writes, LAMBDA i : RefTo(i, "Write")) \o QueryBindings(rules)
  IN  FactsOf(CollectSymbols, <<ModuleSymbol(RustNamespaces)>>, refs, Scopes, LocalBindings, FfiExports)
=============================================================================
