-------------------------- MODULE MobileExtractors ---------------------------
(***************************************************************************)
(* The extractors of Swift and Dart.                                       *)
(***************************************************************************)
EXTENDS ExtractSupport

(***************************************************************************)
(* extract/swift.rs.                                                       *)
(***************************************************************************)
SwiftNamespaces == path

(***************************************************************************)
(* Definitions: of the file and, however deep, of the types in it.  An     *)
(* extension adds members to a type without being one.                     *)
(***************************************************************************)
SwiftTypeDecls == {"class_declaration", "protocol_declaration"}
SwiftFunctions == {"function_declaration", "init_declaration"}

(* leaf_type_name. *)
SwiftTypeName(i) ==
  Text(Least({j \in Within(Field(i, "name")) : Kind(j) \in {"type_identifier", "simple_identifier"}}))

SwiftBoundName(i) == Field(Field(i, "name"), "bound_identifier")

SwiftDeclaredName(i) ==
  CASE Kind(i) = "class_declaration" -> IF Field(i, "body") = 0 THEN "" ELSE SwiftTypeName(i)
    [] Kind(i) \in {"protocol_declaration", "function_declaration", "enum_entry",
                    "typealias_declaration", "protocol_function_declaration"} ->
         Text(Field(i, "name"))
    [] Kind(i) \in {"property_declaration", "protocol_property_declaration"} -> Text(SwiftBoundName(i))
    [] Kind(i) = "init_declaration" -> "init"
    [] OTHER -> ""

SwiftClassKinds == [class |-> "Class", actor |-> "Class", struct |-> "Struct", enum |-> "Enum"]

SwiftClassKind(i) ==
  LET word == Text(Field(i, "declaration_kind"))
  IN  IF word \in DOMAIN SwiftClassKinds THEN SwiftClassKinds[word] ELSE "Other"

SwiftIsExtension(i) == Text(Field(i, "declaration_kind")) = "extension"

SwiftIsVariable(i) ==
  LET mutability == Field(Child(i, "value_binding_pattern"), "mutability")
  IN  mutability # 0 /\ Text(mutability) # "let"

SwiftShape(i) ==
  CASE Kind(i) = "class_declaration" -> <<SwiftClassKind(i), "Type">>
    [] Kind(i) = "protocol_declaration" -> <<"Interface", "Type">>
    [] Kind(i) = "typealias_declaration" -> <<"TypeAlias", "Type">>
    [] Kind(i) = "function_declaration" ->
         <<IF Up(i) = Root THEN "Function" ELSE "Method", "Method">>
    [] Kind(i) \in {"init_declaration", "protocol_function_declaration"} -> <<"Method", "Method">>
    [] Kind(i) = "property_declaration" -> <<IF SwiftIsVariable(i) THEN "Static" ELSE "Const", "Term">>
    [] OTHER -> <<"Const", "Term">>

SwiftProtocolMembers == {"protocol_function_declaration", "protocol_property_declaration"}

SwiftDeclarations ==
  {i \in Nodes :
     /\ SwiftDeclaredName(i) # ""
     /\ \A up \in Above(i) \ {Root} :
          \/ IsField(up, "body") /\ Kind(Up(up)) \in SwiftTypeDecls
          \/ Kind(up) \in SwiftTypeDecls /\ SwiftDeclaredName(up) # ""
     /\ Up(i) = Root \/ IsField(Up(i), "body")
     /\ Kind(i) \in SwiftProtocolMembers <=> Kind(Up(Up(i))) = "protocol_declaration"}

SwiftDeclarationSymbol(i) ==
  LET types == {up \in Above(i) : Kind(up) \in SwiftTypeDecls}
      prefix == Namespaced(SwiftNamespaces) \o Each(types, LAMBDA t : <<"Type", SwiftDeclaredName(t)>>)
      name == SwiftDeclaredName(i)
  IN  MakeSymbol(i, name, SwiftShape(i)[1], Append(prefix, <<SwiftShape(i)[2], name>>))

SwiftCollectSymbols == Each({i \in SwiftDeclarations : ~SwiftIsExtension(i)}, SwiftDeclarationSymbol)

(***************************************************************************)
(* Calls, inheritance and imports.                                         *)
(***************************************************************************)
SwiftNavigated(i) == Child(i, "navigation_expression")

SwiftCallee(i) ==
  IF Child(i, "simple_identifier") # 0 THEN Child(i, "simple_identifier")
  ELSE Field(Field(SwiftNavigated(i), "suffix"), "suffix")

SwiftCallReferences ==
  LET calls == {i \in OfKind({"call_expression"}) :
                  Kind(SwiftCallee(i)) = "simple_identifier" /\ Long(SwiftCallee(i))}
      Target(i) == Field(SwiftNavigated(i), "target")
      Targeting(kind) == {i \in calls : Kind(Target(i)) = kind}
  IN  MarkReceiverQualifierCalls(
        MarkSelfReceiverCalls(
          Each(calls, LAMBDA i : CallTo(SwiftCallee(i), <<>>)),
          {SwiftCallee(i) : i \in Targeting("self_expression")}),
        {<<SwiftCallee(i), Target(i)>> : i \in Targeting("simple_identifier")})

SwiftInheritance ==
  LET specifiers == {j \in UNION {Kids(i) : i \in OfKind(SwiftTypeDecls)} :
                       Kind(j) = "inheritance_specifier"}
      bases == {Field(j, "inherits_from") : j \in specifiers} \ {0}
  IN  Each(bases, LAMBDA i : RefAt(i, SimpleTypeName(i, "."), "IsImplementation"))

SwiftImports ==
  LET imported == {Child(i, "identifier") : i \in OfKind({"import_declaration"})} \ {0}
  IN  Each(imported, LAMBDA i : RefAt(i, SimpleTypeName(i, "."), "Import"))

(***************************************************************************)
(* Types, reads and writes.                                                *)
(***************************************************************************)
(* type_leaf_swift: the children of a type in which names are looked for. *)
SwiftParts(i) ==
  CASE Kind(i) = "user_type" ->
         {j \in NamedKids(i) : Kind(j) = "type_identifier"}
           \cup {Greatest({j \in NamedKids(i) : Kind(j) = "type_arguments"})}
    [] Kind(i) = "optional_type" -> {Field(i, "wrapped")}
    [] Kind(i) = "array_type" -> {Field(i, "element")}
    [] Kind(i) = "dictionary_type" -> {Field(i, "key"), Field(i, "value")}
    [] OTHER -> NamedKids(i)

SwiftNamedTypes(annotation) ==
  {j \in Within(annotation) :
     /\ Kind(j) = "type_identifier" /\ Kind(Up(j)) = "user_type"
     /\ \A up \in (Above(j) \cup {j}) \cap Below(annotation) : up \in SwiftParts(Up(up))}

SwiftAnnotatedType(i) == Field(Child(i, "type_annotation"), "type")

SwiftProperties == {"property_declaration", "protocol_property_declaration"}

(* What a parameter contains belongs to its type alone. *)
SwiftAnnotations ==
  LET visited == {i \in Nodes : \A up \in Above(i) : Kind(up) # "parameter"}
  IN  {Field(i, "type") : i \in visited \cap OfKind({"parameter"})}
        \cup {Field(i, "return_type") : i \in visited \cap OfKind({"function_declaration"})}
        \cup {SwiftAnnotatedType(i) : i \in visited \cap OfKind(SwiftProperties)}

SwiftTypeReferences ==
  Each(UNION {SwiftNamedTypes(i) : i \in SwiftAnnotations}, LAMBDA j : TypeRefTo(j, Text(j)))

SwiftIsNonReadPosition(i) ==
  LET up == Kind(Up(i))
  IN  \/ up \in {"call_expression", "navigation_suffix", "value_argument_label",
                 "directly_assignable_expression"}
      \/ up \in {"function_declaration", "protocol_function_declaration", "enum_entry"}
           /\ IsField(i, "name")
      \/ up = "pattern" /\ IsField(i, "bound_identifier")
      \/ up = "parameter" /\ (IsField(i, "name") \/ IsField(i, "external_name"))

SwiftReads == {i \in OfKind({"simple_identifier"}) : Long(i) /\ ~SwiftIsNonReadPosition(i)}

SwiftWrites ==
  LET targets == {Field(i, "target") : i \in OfKind({"assignment"})}
      written == {Least(NamedKids(t)) : t \in targets}
  IN  {i \in written : Kind(i) = "simple_identifier" /\ Long(i)}

(***************************************************************************)
(* Scopes and bindings.                                                    *)
(***************************************************************************)
SwiftTypeBodies == {"class_body", "enum_class_body", "protocol_body"}

SwiftOwnStatements(body) == Child(body, "statements")

(* The children of a node in which scopes are looked for. *)
SwiftEntered(i) ==
  CASE Kind(i) \in SwiftTypeDecls -> {c \in Kids(i) : Kind(c) \in SwiftTypeBodies}
    [] Kind(i) \in SwiftFunctions -> {Field(i, "body")}
    [] Kind(Up(i)) \in SwiftFunctions -> {SwiftOwnStatements(i)}
    [] OTHER -> Kids(i)

SwiftIsOwnStatements(i) == Kind(i) = "statements" /\ Kind(Up(Up(i))) \in SwiftFunctions

SwiftOpening ==
  {i \in OfKind(SwiftTypeDecls \cup SwiftFunctions \cup {"lambda_literal", "statements"}) :
     /\ ~SwiftIsOwnStatements(i)
     /\ \A up \in (Above(i) \cup {i}) \ {Root} : up \in SwiftEntered(Up(up))}

SwiftScopes == ScopeTree([i \in SwiftOpening |-> Span(i)])

(* Only what a function or a block declares is a local. *)
SwiftIsLocal(i) ==
  LET around == SwiftOpening \cap Above(i)
  IN  around # {} /\ Kind(Max(around)) \notin SwiftTypeDecls

SwiftTypeText(type) == IF type = 0 THEN "" ELSE SimpleTypeName(type, ".")

(* A parameter belongs to the functions around it, up to the nearest. *)
SwiftParameters ==
  LET Enclosing(i) == {up \in Above(i) : Kind(up) \in SwiftFunctions \cup {"lambda_literal", "parameter"}}
  IN  {i \in OfKind({"parameter"}) :
         /\ Kind(Field(i, "name")) = "simple_identifier"
         /\ Kind(Greatest(Enclosing(i))) \in SwiftFunctions}

SwiftLambdaParameters ==
  LET types == {Field(i, "type") : i \in OfKind({"lambda_literal"})} \ {0}
      lists == {j \in UNION {Kids(t) : t \in types} : Kind(j) = "lambda_function_type_parameters"}
  IN  {j \in UNION {Kids(l) : l \in lists} :
         Kind(j) = "lambda_parameter" /\ Kind(Field(j, "name")) = "simple_identifier"}

SwiftLocalBindings(scopes) ==
  LET Bind(name, kind, type) == BindingAt(name, Text(name), kind, type, scopes)
      Looped(i) == Field(Field(i, "item"), "bound_identifier")
      locals == {i \in OfKind({"property_declaration"}) : SwiftBoundName(i) # 0 /\ SwiftIsLocal(SwiftBoundName(i))}
      looped == {i \in OfKind({"for_statement"}) : Looped(i) # 0 /\ SwiftIsLocal(Looped(i))}
  IN  Each(SwiftParameters, LAMBDA i : Bind(Field(i, "name"), "Param", SwiftTypeText(Field(i, "type"))))
      \o Each(SwiftLambdaParameters, LAMBDA i : Bind(Field(i, "name"), "Param", ""))
      \o Each(locals, LAMBDA i : Bind(SwiftBoundName(i), "Local", SwiftTypeText(SwiftAnnotatedType(i))))
      \o Each(looped, LAMBDA i : Bind(Looped(i), "Local", ""))

(***************************************************************************)
(* extract_facts.                                                          *)
(***************************************************************************)
SwiftFacts ==
  LET refs == SwiftCallReferences \o SwiftInheritance \o SwiftImports \o SwiftTypeReferences
                \o Each(SwiftReads, LAMBDA i : RefTo(i, "Read"))
                \o Each(SwiftWrites, LAMBDA i : RefTo(i, "Write"))
  IN  FactsOf(SwiftCollectSymbols, <<ModuleSymbol(SwiftNamespaces)>>, refs, SwiftScopes, SwiftLocalBindings, <<>>)

(***************************************************************************)
(* extract/dart.rs.                                                        *)
(***************************************************************************)
DartNamespaces == IF Head(path) \in {"lib", "src"} /\ Len(path) > 1 THEN Tail(path) ELSE path

(***************************************************************************)
(* Definitions: of the file, and one level of members.                     *)
(***************************************************************************)
DartKindsOfType == [class_declaration |-> "Class", mixin_declaration |-> "Trait",
                  enum_declaration |-> "Enum", extension_declaration |-> "Class"]
DartFunctions == {"function_declaration", "method_declaration"}

(* The signature of a method is wrapped, that of a function is not. *)
DartSignature(i) ==
  LET wrapped == Child(Field(i, "signature"), "function_signature")
  IN  IF wrapped # 0 THEN wrapped ELSE Field(i, "signature")

DartDeclaredName(i) ==
  CASE Kind(i) \in DOMAIN DartKindsOfType \cup {"enum_constant", "initialized_identifier",
                                              "constructor_signature"} -> Text(Field(i, "name"))
    [] Kind(i) = "type_alias" -> Text(Child(i, "type_identifier"))
    [] Kind(i) \in DartFunctions -> Text(Field(DartSignature(i), "name"))
    [] OTHER -> ""

DartShape(i) ==
  CASE Kind(i) \in DOMAIN DartKindsOfType -> <<DartKindsOfType[Kind(i)], "Type">>
    [] Kind(i) = "type_alias" -> <<"TypeAlias", "Type">>
    [] Kind(i) = "function_declaration" -> <<"Function", "Method">>
    [] Kind(i) \in {"method_declaration", "constructor_signature"} -> <<"Method", "Method">>
    [] Kind(i) = "enum_constant" -> <<"Const", "Term">>
    [] OTHER -> <<"Static", "Term">>

DartTopLevel == {i \in Kids(Root) : Kind(i) \in DOMAIN DartKindsOfType \cup {"type_alias", "function_declaration"}}

(* The variables a declaration lists, of which it is the whole extent. *)
DartVariables(declaration) ==
  LET lists == {j \in Kids(declaration) : Kind(j) = "initialized_identifier_list"}
  IN  {j \in UNION {Kids(l) : l \in lists} : Kind(j) = "initialized_identifier"}

DartConstructors(declaration) ==
  {j \in Kids(declaration) : Kind(j) = "constructor_signature"}

DartMembers(type) ==
  LET body == Kids(Field(type, "body"))
      wrapped == UNION {Kids(w) : w \in {j \in body : Kind(j) = "class_member"}}
      declarations == {j \in wrapped : Kind(j) = "declaration"}
      Declared(d) == IF DartConstructors(d) # {} THEN DartConstructors(d) ELSE DartVariables(d)
  IN  IF Kind(type) = "enum_declaration" THEN {j \in body : Kind(j) = "enum_constant"}
      ELSE {j \in wrapped : Kind(j) = "method_declaration"}
             \cup UNION {Declared(d) : d \in declarations}

DartDeclarations ==
  LET types == {i \in DartTopLevel : Kind(i) \in DOMAIN DartKindsOfType /\ DartDeclaredName(i) # ""}
      variables == {i \in Kids(Root) : Kind(i) = "top_level_variable_declaration"}
  IN  {i \in DartTopLevel \cup UNION {DartVariables(v) : v \in variables}
               \cup UNION {DartMembers(t) : t \in types} : DartDeclaredName(i) # ""}

DartDeclarationSymbol(i) ==
  LET types == {up \in Above(i) : Kind(up) \in DOMAIN DartKindsOfType}
      prefix == Namespaced(DartNamespaces) \o Each(types, LAMBDA t : <<"Type", DartDeclaredName(t)>>)
      extent == IF Kind(i) = "initialized_identifier" THEN Up(Up(i)) ELSE i
      name == DartDeclaredName(i)
  IN  MakeSymbol(extent, name, DartShape(i)[1], Append(prefix, <<DartShape(i)[2], name>>))

DartCollectSymbols == Each(DartDeclarations, DartDeclarationSymbol)

(***************************************************************************)
(* Calls, inheritance and imports.                                         *)
(***************************************************************************)
DartCalled(i) == Field(i, "function")

DartCallee(i) ==
  CASE Kind(DartCalled(i)) = "identifier" -> DartCalled(i)
    [] Kind(DartCalled(i)) = "member_expression" -> Field(DartCalled(i), "property")
    [] OTHER -> 0

DartCallReferences ==
  LET calls == {i \in OfKind({"call_expression"}) :
                  Kind(DartCallee(i)) = "identifier" /\ Long(DartCallee(i))}
      Object(i) == Field(DartCalled(i), "object")
  IN  MarkSelfReceiverCalls(
        Each(calls, LAMBDA i :
          CallTo(DartCallee(i), IF Object(i) = 0 \/ Text(Object(i)) = "this" THEN <<>>
                                ELSE PathOf(Object(i)))),
        {DartCallee(i) : i \in {j \in calls : Text(Object(j)) = "this"}})

DartInheritance ==
  LET classes == OfKind({"class_declaration"})
      mixins == OfKind({"mixin_declaration"})
      Constraints(i) == {j \in Kids(i) : /\ Kind(j) = "type" /\ Child(i, "on") \in 1 .. j
                                         /\ \A k \in Kids(i) : Kind(k) = "class_body" => j < k}
      bases == {Field(i, "superclass") : i \in classes}
                 \cup {Field(i, "interfaces") : i \in classes \cup mixins}
                 \cup UNION {Constraints(i) : i \in mixins}
      named == {j \in UNION {Within(b) : b \in bases} : Kind(j) = "type_identifier"}
  IN  Each(named, LAMBDA i : RefTo(i, "IsImplementation"))

(* With "show" what is shown, else the prefix given to the library. *)
DartImports ==
  LET libraries == {j \in OfKind({"import_specification"}) :
                      Kind(Up(j)) = "library_import" /\ Kind(Up(Up(j))) = "import_or_export"}
      Uri(i) == Least({j \in Within(Field(i, "uri")) : Kind(j) = "string_literal"})
      Showing(i) == {c \in Kids(i) : /\ Kind(c) = "combinator"
                                     /\ Kind(FirstOf(c, {"show", "hide"})) = "show"}
      Shown(i) == {j \in UNION {Kids(c) : c \in Showing(i)} : Kind(j) = "identifier"}
      Prefix(i) == {Greatest({j \in Kids(i) : Kind(j) = "identifier"})} \ {0}
      located == {i \in libraries : Uri(i) # 0}
      imported == UNION {IF Showing(i) # {} THEN Shown(i) ELSE Prefix(i) : i \in located}
      Library(j) == Max(Above(j) \cap located)
  IN  Each(imported, LAMBDA j : ImportRef(j, Text(j), PathOf(Uri(Library(j)))))

(***************************************************************************)
(* Types, reads and writes.                                                *)
(***************************************************************************)
DartBuiltin == {"int", "double", "num", "bool", "String", "Object", "dynamic", "Never"}

(* type_leaf: what is found through nested "type" nodes. *)
DartNamedTypes(annotation) ==
  {j \in Within(annotation) :
     /\ Kind(j) \notin {"type", "void_type"} /\ Text(j) \notin DartBuiltin
     /\ \A up \in Above(j) \cap Within(annotation) : Kind(up) = "type" /\ tree[j].named}

DartAnnotations ==
  LET typed == OfKind({"formal_parameter", "top_level_variable_declaration", "declaration"})
  IN  {Field(Field(i, "signature"), "return_type") : i \in OfKind({"function_declaration"})}
        \cup {Field(Child(Field(i, "signature"), "function_signature"), "return_type") :
                i \in OfKind({"method_declaration"})}
        \cup {Child(i, "type") : i \in typed}

DartTypeReferences ==
  Each(UNION {DartNamedTypes(i) : i \in DartAnnotations}, LAMBDA j : TypeRefTo(j, SimpleTypeName(j, ".")))

(* The one plain name that is assigned to. *)
DartAssigned(i) ==
  LET left == Field(i, "left")
      names == {j \in Kids(left) : Kind(j) = "identifier"}
  IN  CASE Kind(left) = "identifier" -> left
        [] Kind(left) = "assignable_expression" /\ Cardinality(names) = 1 -> Min(names)
        [] OTHER -> 0

DartIsBareAssignableTarget(i) ==
  Kind(Up(Up(i))) = "assignment_expression" /\ DartAssigned(Up(Up(i))) = i

DartNameOnly ==
  DOMAIN DartKindsOfType
    \cup {"function_signature", "getter_signature", "setter_signature", "constructor_signature",
          "extension_type_declaration", "typed_identifier", "initialized_identifier"}

DartMemberExpressions ==
  {"member_expression", "null_aware_member_expression", "cascade_member_expression",
   "cascade_null_aware_member_expression"}

DartIsNonReadPosition(i) ==
  LET up == Kind(Up(i))
  IN  \/ up = "call_expression" /\ IsField(i, "function")
      \/ up \in DartNameOnly /\ IsField(i, "name")
      \/ up \in {"import_specification", "combinator"}
      \/ up = "assignable_expression" /\ DartIsBareAssignableTarget(i)
      \/ up \in DartMemberExpressions /\ IsField(i, "property")

DartReads == {i \in OfKind({"identifier"}) : Long(i) /\ ~DartIsNonReadPosition(i)}
DartWrites == {i \in {DartAssigned(a) : a \in OfKind({"assignment_expression"})} \ {0} : Long(i)}

(***************************************************************************)
(* Scopes and bindings.                                                    *)
(***************************************************************************)
(* The children of a node in which scopes are looked for. *)
DartEntered(i) ==
  IF Kind(i) \in DOMAIN DartKindsOfType \cup DartFunctions THEN {Field(i, "body")} ELSE Kids(i)

DartIsOwnBody(i) == IsField(i, "body") /\ Kind(Up(i)) \in DOMAIN DartKindsOfType \cup DartFunctions

DartOpening ==
  {i \in OfKind(DOMAIN DartKindsOfType \cup DartFunctions \cup {"block"}) :
     /\ ~DartIsOwnBody(i)
     /\ \A up \in (Above(i) \cup {i}) \ {Root} : up \in DartEntered(Up(up))}

DartScopes == ScopeTree([i \in DartOpening |-> Span(i)])

DartTypeText(i) == SimpleTypeName(Child(i, "type"), ".")

(* A parameter is introduced where it starts, which is at its type. *)
DartParameters ==
  LET Listed(i) == IF Field(DartSignature(i), "parameters") # 0 THEN Field(DartSignature(i), "parameters")
                   ELSE Field(Field(i, "signature"), "parameters")
      params == UNION {NamedKids(Listed(i)) : i \in OfKind(DartFunctions)}
  IN  {j \in params : Kind(j) = "formal_parameter" /\ Field(j, "name") # 0}

DartLocals ==
  LET definitions == {j \in UNION {Kids(i) : i \in OfKind({"local_variable_declaration"})} :
                        Kind(j) = "initialized_variable_definition"}
      further == {j \in UNION {NamedKids(d) : d \in definitions} :
                    Kind(j) = "initialized_identifier"}
  IN  {i \in {Field(j, "name") : j \in definitions \cup further} \ {0} :
         Long(i) /\ DartOpening \cap Above(i) # {}}

DartLocalBindings(scopes) ==
  LET Definition(i) == IF Kind(Up(i)) = "initialized_identifier" THEN Up(Up(i)) ELSE Up(i)
  IN  Each(DartParameters, LAMBDA i : BindingAt(i, Text(Field(i, "name")), "Param", DartTypeText(i), scopes))
      \o Each(DartLocals, LAMBDA i : BindingAt(i, Text(i), "Local", DartTypeText(Definition(i)), scopes))

(***************************************************************************)
(* extract_facts.                                                          *)
(***************************************************************************)
DartFacts ==
  LET refs == DartCallReferences \o DartInheritance \o DartImports \o DartTypeReferences
                \o Each(DartReads, LAMBDA i : RefTo(i, "Read"))
                \o Each(DartWrites, LAMBDA i : RefTo(i, "Write"))
  IN  FactsOf(DartCollectSymbols, <<ModuleSymbol(DartNamespaces)>>, refs, DartScopes, DartLocalBindings, <<>>)
=============================================================================
