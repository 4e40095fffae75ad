------------------------ MODULE EcmaScriptExtractor ------------------------
(***************************************************************************)
(* extract/typescript.rs, which also extracts JavaScript and the scripts   *)
(* of Svelte components.                                                   *)
(***************************************************************************)
EXTENDS ExtractSupport

ModuleNamespaces == path

(***************************************************************************)
(* Definitions: what the file declares at its top, exported or not.        *)
(***************************************************************************)
Shapes ==
  [function_declaration |-> <<"Function", "Method", "identifier">>,
   generator_function_declaration |-> <<"Function", "Method", "identifier">>,
   class_declaration |-> <<"Class", "Type", "type_identifier">>,
   abstract_class_declaration |-> <<"Class", "Type", "type_identifier">>,
   interface_declaration |-> <<"Interface", "Type", "type_identifier">>,
   type_alias_declaration |-> <<"TypeAlias", "Type", "type_identifier">>,
   enum_declaration |-> <<"Enum", "Type", "identifier">>,
   variable_declarator |-> <<"Const", "Term", "identifier">>]

VariableLists == {"lexical_declaration", "variable_declaration"}

Statements ==
  Kids(Root) \cup UNION {Kids(i) : i \in {j \in Kids(Root) : Kind(j) = "export_statement"}}

Declared ==
  {i \in Statements : Kind(i) \in DOMAIN Shapes}
    \cup UNION {{j \in Kids(i) : Kind(j) = "variable_declarator"} :
                i \in {s \in Statements : Kind(s) \in VariableLists}}

(* The name is the first child of its kind, whatever that child is for. *)
DeclaredName(i) == Child(i, Shapes[Kind(i)][3])

(* The symbol spans the whole statement, an `export` included. *)
StatementOf(i) == CHOOSE s \in Kids(Root) : i \in Within(s)

DeclarationSymbol(i) ==
  LET shape == Shapes[Kind(i)]
      name == Text(DeclaredName(i))
  IN  MakeSymbol(StatementOf(i), name, shape[1],
                 Append(Namespaced(ModuleNamespaces), <<shape[2], name>>))

(* The node that holds the members a declaration is searched for. *)
MemberList(i) ==
  CASE Kind(i) = "type_alias_declaration" ->
         IF Kind(Field(i, "value")) = "object_type" THEN Field(i, "value") ELSE 0
    [] Kind(i) \in {"class_declaration", "abstract_class_declaration",
                    "interface_declaration"} -> Field(i, "body")
    [] OTHER -> 0

ClassMembers(i) ==
  {m \in Kids(MemberList(i)) :
     /\ Kind(m) = "method_definition"
     /\ Kind(Field(m, "name")) \in {"property_identifier", "private_property_identifier"}}

InterfaceMembers(i) ==
  {m \in Kids(MemberList(i)) :
     /\ Kind(m) \in {"property_signature", "method_signature"}
     /\ Kind(Field(m, "name")) = "property_identifier"}

MembersOf(i) ==
  IF Kind(i) \in {"class_declaration", "abstract_class_declaration"} THEN ClassMembers(i)
  ELSE InterfaceMembers(i)

MemberSymbol(i, m) ==
  LET name == Text(Field(m, "name"))
      shape == IF Kind(m) = "property_signature" THEN <<"Field", "Term">>
               ELSE <<"Method", "Method">>
  IN  MakeSymbol(m, name, shape[1],
        MemberDescriptors(ModuleNamespaces, Text(DeclaredName(i)), <<shape[2], name>>))

CollectSymbols ==
  FlattenSeq(Each({i \in Declared : DeclaredName(i) # 0}, LAMBDA i :
    <<DeclarationSymbol(i)>> \o Each(MembersOf(i), LAMBDA m : MemberSymbol(i, m))))

(***************************************************************************)
(* CommonJS exports.  A request publishes a definition of one of the names *)
(* it tries, or else makes one up.                                         *)
(***************************************************************************)
FunctionValues == {"function_expression", "arrow_function", "generator_function", "function"}

Request(tries, name, at, value) ==
  [tries |-> tries, name |-> name, at |-> at, value |-> value]

ObjectRequests(object) ==
  Each({e \in NamedKids(object) : Kind(e) \in {"shorthand_property_identifier", "pair"}},
    LAMBDA e :
      LET value == Field(e, "value")
      IN  IF Kind(e) = "pair"
          THEN Request(IF Kind(value) = "identifier" THEN {Text(value)} ELSE {},
                       Text(Field(e, "key")), value, value)
          ELSE Request({Text(e)}, Text(e), e, e))

IsExportsObject(i) ==
  \/ Kind(i) = "identifier" /\ Text(i) = "exports"
  \/ /\ Kind(i) = "member_expression"
     /\ Kind(Field(i, "object")) = "identifier" /\ Text(Field(i, "object")) = "module"
     /\ Text(Field(i, "property")) = "exports"

IsModuleExports(i) ==
  /\ Kind(Field(i, "object")) = "identifier" /\ Text(Field(i, "object")) = "module"
  /\ Text(Field(i, "property")) = "exports"

ExportRequests(assign) ==
  LET left == Field(assign, "left")
      right == Field(assign, "right")
      property == Text(Field(left, "property"))
      own == IF Kind(right) = "identifier" THEN Text(right) ELSE ModuleName(ModuleNamespaces)
  IN  IF \/ Kind(left) # "member_expression" \/ right = 0
         \/ Kind(Field(left, "property")) # "property_identifier"
      THEN <<>>
      ELSE IF IsModuleExports(left)
      THEN IF Kind(right) = "object" THEN ObjectRequests(right)
           ELSE <<Request({own}, own, assign, right)>>
      ELSE IF IsExportsObject(Field(left, "object"))
      THEN <<Request({property} \cup (IF Kind(right) = "identifier" THEN {Text(right)} ELSE {}),
                     property, assign, right)>>
      ELSE <<>>

CommonJsExports(defs) ==
  LET assigns == {Child(i, "assignment_expression") :
                    i \in {s \in Kids(Root) : Kind(s) = "expression_statement"}} \ {0}
      IsPromoted(known, q) == \E s \in Range(known) :
                                s.name \in q.tries /\ s.kind \notin {"Method", "Field"}
      Synthesized(q) ==
        LET shape == IF Kind(q.value) \in FunctionValues THEN <<"Function", "Method">>
                     ELSE <<"Const", "Term">>
        IN  MakeSymbol(q.at, q.name, shape[1],
                       Append(Namespaced(ModuleNamespaces), <<shape[2], q.name>>))
  IN  FoldLeft(LAMBDA known, q :
                 IF IsPromoted(known, q) THEN known ELSE Append(known, Synthesized(q)),
               defs, FlattenSeq(Each(assigns, ExportRequests)))

Definitions == CommonJsExports(CollectSymbols)

(***************************************************************************)
(* Calls; `require` is an import.                                          *)
(***************************************************************************)
Called(i) == Field(i, "function")
CalledMember(i) ==
  IF Kind(Called(i)) = "member_expression" THEN Child(Called(i), "property_identifier") ELSE 0
Callee(i) == IF Kind(Called(i)) = "identifier" THEN Called(i) ELSE CalledMember(i)

CallExpressions == OfKind({"call_expression"})

CallReferences ==
  LET calls == {i \in CallExpressions :
                  Callee(i) # 0 /\ Long(Callee(i)) /\ Text(Callee(i)) # "require"}
      methods == {i \in calls : CalledMember(i) # 0}
      Receiver(i) == Field(Called(i), "object")
      own == {i \in methods : Kind(Receiver(i)) = "this"}
      plain == {i \in methods : Kind(Receiver(i)) = "identifier"}
  IN  MarkReceiverQualifierCalls(
        MarkSelfReceiverCalls(Each(calls, LAMBDA i : CallTo(Callee(i), <<>>)),
                              {Callee(i) : i \in own}),
        {<<Callee(i), Receiver(i)>> : i \in plain})

(***************************************************************************)
(* Inheritance and imports.                                                *)
(***************************************************************************)
NamedTypeKinds == {"type_identifier", "generic_type", "nested_type_identifier"}

Inheritance ==
  LET Types(i) == {j \in Kids(i) : Kind(j) \in NamedTypeKinds}
      heritage == {Child(i, "class_heritage") : i \in OfKind({"class_declaration"})} \ {0}
      Clauses(kind) == {j \in UNION {Kids(i) : i \in heritage} : Kind(j) = kind}
      extended == {Child(i, "extends_type_clause") : i \in OfKind({"interface_declaration"})}
      supers == {Field(i, "value") : i \in Clauses("extends_clause")}
                  \cup UNION {Types(i) : i \in Clauses("implements_clause") \cup extended}
  IN  Each(supers \ {0}, LAMBDA i : RefAt(i, SimpleTypeName(i, "."), "IsImplementation"))

ModuleExtensions == {"ts", "tsx", "mts", "cts", "js", "jsx", "mjs", "cjs"}

(* A module specifier without its extension. *)
Specifier(i) ==
  LET tokens == Tokens(i)
      stem == Len(tokens) - 2
  IN  IF stem > 0 /\ tokens[stem + 1] = "." /\ Last(tokens) \in ModuleExtensions
      THEN SubSeq(tokens, 1, stem) ELSE tokens

Imports ==
  LET statements == OfKind({"import_statement"})
      clauses == {Child(i, "import_clause") : i \in statements} \ {0}
      defaults == {j \in UNION {Kids(i) : i \in clauses} : Kind(j) = "identifier"}
      lists == {j \in UNION {Kids(i) : i \in clauses} : Kind(j) = "named_imports"}
      specifiers == {j \in UNION {Kids(i) : i \in lists} : Kind(j) = "import_specifier"}
      listed == {i \in {Field(j, "name") : j \in specifiers} : Kind(i) = "identifier"}
      Source(i) == Field(CHOOSE s \in statements : i \in Within(s), "source")
  IN  Each(defaults \cup listed, LAMBDA i :
        ImportRef(i, Text(i), Segments(Specifier(Source(i)))))

(* require("..") names what its declarator names, else the last segment. *)
CommonJsImports ==
  LET Argument(i) == Least(NamedKids(Field(i, "arguments")))
      requires == {i \in CallExpressions :
                     /\ Kind(Called(i)) = "identifier" /\ Text(Called(i)) = "require"
                     /\ Kind(Argument(i)) = "string"}
      Target(i) == IF Kind(Up(i)) = "variable_declarator" THEN Field(Up(i), "name") ELSE i
      Bound(i) ==
        CASE Kind(Target(i)) = "identifier" -> {Target(i)}
          [] Kind(Target(i)) = "object_pattern" ->
               {j \in NamedKids(Target(i)) : Kind(j) = "shorthand_property_identifier_pattern"}
          [] OTHER -> {}
      Bare(i) == Joined(AfterLast(Specifier(Argument(i)), "/"))
      From(i) == Segments(Specifier(Argument(i)))
      Required(i) ==
        IF Kind(Target(i)) \in {"identifier", "object_pattern"}
        THEN Each(Bound(i), LAMBDA j : ImportRef(j, Text(j), From(i)))
        ELSE <<ImportRef(i, Bare(i), From(i))>>
  IN  FlattenSeq(Each(requires, Required))

(***************************************************************************)
(* Types, reads, writes and SQL.                                           *)
(***************************************************************************)
Typed == OfKind({"required_parameter", "optional_parameter", "public_field_definition",
                 "property_signature"})
Returning == OfKind({"function_declaration", "function_signature", "method_definition",
                     "arrow_function"})

Transparent == {"generic_type", "type_arguments", "type_annotation", "union_type",
                "intersection_type", "parenthesized_type", "array_type", "readonly_type"}

(* The names a type is made of; object and function types are not entered. *)
NamedTypes(annotation) ==
  {j \in Below(annotation) :
     /\ Kind(j) = "type_identifier"
     /\ \A up \in Above(j) \cap Below(annotation) :
          \/ Kind(up) \in Transparent
          \/ Kind(up) = "nested_type_identifier" /\ Up(j) = up /\ IsField(j, "right")}

TypeReferences ==
  LET annotations == {Field(i, "type") : i \in Typed}
                       \cup {Field(i, "return_type") : i \in Returning}
  IN  Each(UNION {NamedTypes(i) : i \in annotations}, LAMBDA j : TypeRefTo(j, Text(j)))

NameHolders == {"function_declaration", "function_expression", "function_signature",
                "class_declaration", "method_definition", "generator_function_declaration",
                "generator_function", "variable_declarator"}
Assignments == {"assignment_expression", "augmented_assignment_expression"}

IsNonReadPosition(i) ==
  LET up == Kind(Up(i))
  IN  \/ up = "call_expression" /\ IsField(i, "function")
      \/ up \in NameHolders /\ IsField(i, "name")
      \/ up \in {"required_parameter", "optional_parameter"} /\ IsField(i, "pattern")
      \/ up \in {"import_clause", "import_specifier"}
      \/ up = "pair" /\ IsField(i, "key")
      \/ up \in Assignments /\ IsField(i, "left")

Identifiers == {i \in OfKind({"identifier"}) : Long(i)}

Reads == {i \in Identifiers : ~IsNonReadPosition(i)}
Writes == {i \in Identifiers : Kind(Up(i)) \in Assignments /\ IsField(i, "left")}

PropertyReads ==
  LET IsCallee(i) == Kind(Up(i)) = "call_expression" /\ IsField(i, "function")
      accesses == {i \in OfKind({"member_expression"}) :
                     /\ ~IsCallee(i) /\ Long(Field(i, "property"))
                     /\ Kind(Field(i, "property")) = "property_identifier"}
  IN  Each(accesses, LAMBDA i : MemberRead(Field(i, "property"), Field(i, "object"), "this"))

QueryBindings(rules) ==
  LET calls == {i \in CallExpressions : Kind(Called(i)) = "member_expression"}
      Argument(i, rule) == Nth(NamedKids(Field(i, "arguments")), rule.sql_arg)
      bound == UNION {{Argument(i, rule) : rule \in {r \in rules :
                         r.lang = lang /\ r.construct = PathOf(Called(i))}} : i \in calls}
  IN  FlattenSeq(Each(bound \ {0}, LAMBDA i : EmbeddedSqlRefs(i, "string_fragment")))

(***************************************************************************)
(* Scopes and local bindings.                                              *)
(***************************************************************************)
FnKinds == {"function_declaration", "function_expression", "arrow_function",
            "method_definition", "generator_function_declaration", "generator_function"}

(* Of a function only the body is looked into, and its block is its own. *)
Opening ==
  {i \in OfKind(FnKinds \cup {"statement_block"}) :
     /\ ~(Kind(Up(i)) \in FnKinds /\ IsField(i, "body") /\ Kind(i) = "statement_block")
     /\ \A up \in Above(i) : Kind(up) \in FnKinds => i \in Within(Field(up, "body"))}

Scopes == ScopeTree([i \in Opening |-> Span(i)])

AnnotatedName(i) ==
  LET type == Least(NamedKids(Field(i, "type")))
  IN  IF type = 0 THEN "" ELSE SimpleTypeName(type, ".")

(* The declared type of a variable, else the class it is made from. *)
DeclaratorTypeName(i) ==
  LET made == IF Kind(Field(i, "value")) = "new_expression"
              THEN Field(Field(i, "value"), "constructor") ELSE 0
  IN  IF AnnotatedName(i) # "" THEN AnnotatedName(i)
      ELSE IF made = 0 THEN "" ELSE SimpleTypeName(made, ".")

Parameters ==
  UNION {IF Field(i, "parameters") # 0 THEN NamedKids(Field(i, "parameters"))
         ELSE {Field(i, "parameter")} : i \in OfKind(FnKinds)}

ParameterIdent(i) ==
  LET name == IF Kind(i) \in {"required_parameter", "optional_parameter"}
              THEN Field(i, "pattern") ELSE i
  IN  IF Kind(name) = "identifier" THEN name ELSE 0

Variables == {i \in OfKind({"variable_declarator"}) : Kind(Field(i, "name")) = "identifier"}

LocalBindings(scopes) ==
  Each({i \in Parameters : ParameterIdent(i) # 0}, LAMBDA i :
        BindingAt(ParameterIdent(i), Text(ParameterIdent(i)), "Param", AnnotatedName(i), scopes))
    \o Each(Variables, LAMBDA i :
        BindingAt(Field(i, "name"), Text(Field(i, "name")), "Local", DeclaratorTypeName(i),
                  scopes))

(***************************************************************************)
(* extract_ecmascript.                                                     *)
(***************************************************************************)
ExtractFacts(rules) ==
  LET refs == CallReferences \o Inheritance \o Imports \o CommonJsImports \o TypeReferences
                \o Each(Reads, LAMBDA i : RefTo(i, "Read")) \o PropertyReads
                \o Each(Writes, LAMBDA i : RefTo(i, "Write")) \o QueryBindings(rules)
  IN  FactsOf(Definitions, <<ModuleSymbol(ModuleNamespaces)>>, refs, Scopes, LocalBindings, <<>>)
=============================================================================
