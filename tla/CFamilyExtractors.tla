-------------------------- MODULE CFamilyExtractors --------------------------
(***************************************************************************)
(* The extractors of C, C++ and C#.                                        *)
(***************************************************************************)
EXTENDS ExtractSupport

(***************************************************************************)
(* extract/c.rs.  Only what stands directly in a file is defined by it.    *)
(***************************************************************************)
CNamespaces == IF Head(path) = "src" /\ Len(path) > 1 THEN Tail(path) ELSE path

(***************************************************************************)
(* Declarators: a name wrapped in pointers, initialisers and parameters.   *)
(***************************************************************************)
(* The nodes of some kinds that are reached without passing through one,   *)
(* and by way of the "declarator" where a node has one.                    *)
CDeclaring(i, kinds) ==
  {j \in Within(i) :
     /\ Kind(j) \in kinds
     /\ \A up \in (Above(j) \cup {j}) \cap Below(i) :
          /\ Kind(Up(up)) \notin kinds
          /\ \/ Field(Up(up), "declarator") = up
             \/ Field(Up(up), "declarator") = 0 /\ Kind(Up(up)) # "function_declarator"}

CDeclaratorName(i) == Least(CDeclaring(i, {"identifier", "type_identifier", "field_identifier"}))
CFunctionDeclarator(i) == Least(CDeclaring(i, {"function_declarator"}))

CIsFunction(i) ==
  LET name == CDeclaratorName(i)
  IN  \E up \in Above(name) \cap Within(i) : Kind(up) = "function_declarator"

(***************************************************************************)
(* Definitions.                                                            *)
(***************************************************************************)
CAggregates == [struct_specifier |-> "Struct", union_specifier |-> "Struct",
                enum_specifier |-> "Enum"]

(* aggregate_type_symbol: one with a body, bare or as the declared type. *)
CIsAggregate(i) ==
  /\ Kind(i) \in DOMAIN CAggregates
  /\ Field(i, "body") # 0 /\ Field(i, "name") # 0
  /\ \/ Up(i) = Root
     \/ /\ IsField(i, "type") /\ Up(Up(i)) = Root
        /\ Kind(Up(i)) \in {"declaration", "type_definition"}

CIsDeclared(i) ==
  /\ IsField(i, "declarator") /\ Up(Up(i)) = Root
  /\ \/ Kind(Up(i)) = "declaration"
     \/ /\ Kind(Up(i)) \in {"function_definition", "type_definition"}
        /\ i = Field(Up(i), "declarator")
  /\ CDeclaratorName(i) # 0

CIsMacro(i) ==
  /\ Kind(i) \in {"preproc_def", "preproc_function_def"}
  /\ Up(i) = Root /\ Field(i, "name") # 0

CDeclarations == {i \in Nodes : CIsAggregate(i) \/ CIsDeclared(i) \/ CIsMacro(i)}

CDeclaredName(i) ==
  IF IsField(i, "declarator") THEN Text(CDeclaratorName(i)) ELSE Text(Field(i, "name"))

CShape(i) ==
  LET item == Kind(Up(i))
  IN  CASE Kind(i) \in DOMAIN CAggregates -> <<CAggregates[Kind(i)], "Type">>
        [] Kind(i) = "preproc_def" -> <<"Const", "Macro">>
        [] Kind(i) = "preproc_function_def" -> <<"Function", "Macro">>
        [] item = "type_definition" -> <<"TypeAlias", "Type">>
        [] item = "function_definition" \/ CIsFunction(i) -> <<"Function", "Method">>
        [] OTHER -> <<"Static", "Term">>

(* A symbol extends over its whole declaration. *)
CDeclarationSymbol(i) ==
  Given(CShape(i), LAMBDA shape :
    Given(CDeclaredName(i), LAMBDA name :
      MakeSymbol(IF IsField(i, "declarator") THEN Up(i) ELSE i, name, shape[1],
                 Append(Namespaced(CNamespaces), <<shape[2], name>>))))

CollectSymbols == Each(CDeclarations, CDeclarationSymbol)

(* jni_exports: functions with a name that the Java runtime looks up. *)
CJniExports(symbols) ==
  LET exported == SelectSeq(symbols, LAMBDA s : s.kind = "Function" /\ IsJniName(s.name))
  IN  [n \in DOMAIN exported |->
         [symbol |-> exported[n].id, abi |-> "Jni", name |-> exported[n].name]]

(***************************************************************************)
(* References.                                                             *)
(***************************************************************************)
CallReferences ==
  LET callees == {Field(i, "function") : i \in OfKind({"call_expression"})}
  IN  Each({i \in callees : Kind(i) = "identifier" /\ Long(i)}, LAMBDA i : CallTo(i, <<>>))

(* type_leaf: a name, or the tag of an aggregate. *)
CTypeLeaf(i) ==
  CASE Kind(i) = "type_identifier" -> i
    [] Kind(i) \in DOMAIN CAggregates -> Field(i, "name")
    [] OTHER -> 0

(* Nothing below a parameter or a member is looked at. *)
CTypeReferences ==
  LET stops == {"parameter_declaration", "field_declaration"}
      typed == {i \in OfKind(stops \cup {"function_definition"}) :
                  \A up \in Above(i) : Kind(up) \notin stops}
  IN  Each({CTypeLeaf(Field(i, "type")) : i \in typed} \ {0}, LAMBDA i : TypeRefTo(i, Text(i)))

CWrappers == {"pointer_declarator", "function_declarator", "init_declarator", "array_declarator",
              "attributed_declarator", "declaration", "type_definition", "function_definition",
              "parameter_declaration"}

CIsNonReadPosition(i) ==
  LET up == Kind(Up(i))
  IN  \/ up = "call_expression" /\ IsField(i, "function")
      \/ up \in CWrappers /\ i = Field(Up(i), "declarator")
      \/ up = "parenthesized_declarator"
      \/ up = "assignment_expression" /\ IsField(i, "left")

CIdentifiers == {i \in OfKind({"identifier"}) : Long(i)}

CReads == {i \in CIdentifiers : ~CIsNonReadPosition(i)}
CWrites == {i \in CIdentifiers : Kind(Up(i)) = "assignment_expression" /\ IsField(i, "left")}

(***************************************************************************)
(* Scopes and bindings.                                                    *)
(***************************************************************************)
(* The children of a node in which scopes are looked for. *)
CEntered(i) == IF Kind(i) = "function_definition" THEN {Field(i, "body")} ELSE Kids(i)

CIsBody(i) == IsField(i, "body") /\ Kind(Up(i)) = "function_definition"

COpening ==
  {i \in OfKind({"function_definition", "compound_statement"}) :
     /\ ~CIsBody(i)
     /\ \A up \in (Above(i) \cup {i}) \ {Root} : up \in CEntered(Up(up))}

CScopes == ScopeTree([i \in COpening |-> Span(i)])

CParameters ==
  LET Listed(i) == Kids(Field(CFunctionDeclarator(Field(i, "declarator")), "parameters"))
      params == UNION {Listed(i) : i \in OfKind({"function_definition"})}
  IN  {Field(j, "declarator") : j \in {k \in params : Kind(k) = "parameter_declaration"}}

(* What stands in the file's own scope is a definition, not a local. *)
CLocalBindings(scopes) ==
  LET declared == UNION {Fields(i, "declarator") : i \in OfKind({"declaration"})}
      locals == {i \in declared : InnermostScope(Start(i), scopes) # 1}
      WithName(indices) == {i \in indices : CDeclaratorName(i) # 0}
      Bind(i, kind) == BindingAt(i, Text(CDeclaratorName(i)), kind, "", scopes)
  IN  Each(WithName(CParameters), LAMBDA i : Bind(i, "Param"))
        \o Each(WithName(locals), LAMBDA i : Bind(i, "Local"))

(***************************************************************************)
(* extract_facts.                                                          *)
(***************************************************************************)
CFacts ==
  LET refs == CallReferences \o CTypeReferences
                \o Each(CReads, LAMBDA i : RefTo(i, "Read"))
                \o Each(CWrites, LAMBDA i : RefTo(i, "Write"))
  IN  Given(CollectSymbols, LAMBDA symbols :
        FactsOf(symbols, <<ModuleSymbol(CNamespaces)>>, refs, CScopes, CLocalBindings,
                CJniExports(symbols)))

(***************************************************************************)
(* extract/cpp.rs.                                                         *)
(***************************************************************************)
CppNamespaces == IF Head(path) = "src" /\ Len(path) > 1 THEN Tail(path) ELSE path

(***************************************************************************)
(* Declarators: a name wrapped in pointers, initialisers and parameters.   *)
(***************************************************************************)
CppNameKinds == {"identifier", "type_identifier", "field_identifier", "destructor_name",
                 "operator_name", "qualified_identifier"}

(* The nodes of some kinds that are reached without passing through one,   *)
(* and by way of the "declarator" where a node has one.                    *)
CppDeclaring(i, kinds) ==
  {j \in Within(i) :
     /\ Kind(j) \in kinds
     /\ \A up \in (Above(j) \cup {j}) \cap Below(i) :
          /\ Kind(Up(up)) \notin kinds
          /\ \/ Field(Up(up), "declarator") = up
             \/ Field(Up(up), "declarator") = 0 /\ Kind(Up(up)) # "function_declarator"}

CppDeclaratorName(i) == Least(CppDeclaring(i, CppNameKinds))
CppFunctionDeclarator(i) == Least(CppDeclaring(i, {"function_declarator"}))

CppIsFunction(i) ==
  LET name == CppDeclaratorName(i)
  IN  \E up \in Above(name) \cap Within(i) : Kind(up) = "function_declarator"

CppLeafText(i) == IF i = 0 THEN "" ELSE Joined(AfterLast(Tokens(i), "::"))

(* type_leaf_name. *)
CppTypeLeafName(i) ==
  CASE Kind(i) \in {"type_identifier", "qualified_identifier"} -> CppLeafText(i)
    [] Kind(i) = "template_type" -> CppLeafText(Field(i, "name"))
    [] OTHER -> ""

(***************************************************************************)
(* Definitions: of the file, its namespaces and templates, and of the      *)
(* types that are declared there or among the members of such a type.      *)
(***************************************************************************)
CppTemplated == {"function_definition", "declaration", "alias_declaration", "class_specifier",
                 "struct_specifier", "union_specifier"}
CppRecords == [class_specifier |-> "Class", struct_specifier |-> "Struct",
               union_specifier |-> "Struct"]
CppAggregates == CppRecords @@ [enum_specifier |-> "Enum"]

CppIsBodyOf(i, kinds) == IsField(i, "body") /\ Kind(Up(i)) \in kinds

(* process_node. *)
CppIsProcessed(i) ==
  \A up \in (Above(i) \cup {i}) \ {Root} :
    \/ Up(up) = Root
    \/ CppIsBodyOf(up, {"namespace_definition"}) \/ CppIsBodyOf(Up(up), {"namespace_definition"})
    \/ Kind(Up(up)) = "template_declaration" /\ Kind(up) \in CppTemplated

RECURSIVE CppIsAggregate(_)

(* emit_aggregate. *)
CppIsAggregate(i) ==
  /\ Kind(i) \in DOMAIN CppAggregates
  /\ Field(i, "body") # 0 /\ CppTypeLeafName(Field(i, "name")) # ""
  /\ \/ CppIsProcessed(i)
     \/ /\ IsField(i, "type") /\ Kind(Up(i)) \in {"declaration", "type_definition"}
        /\ CppIsProcessed(Up(i))
     \/ CppIsBodyOf(Up(i), DOMAIN CppRecords) /\ CppIsAggregate(Up(Up(i)))

CppIsMember(i) == CppIsBodyOf(Up(i), DOMAIN CppRecords)

CppDeclared ==
  LET IsItem(i) ==
        \/ /\ Kind(i) \in {"function_definition", "declaration", "type_definition"}
           /\ CppIsProcessed(i)
        \/ /\ Kind(i) \in {"function_definition", "field_declaration"}
           /\ CppIsMember(i) /\ CppIsAggregate(Up(Up(i)))
  IN  {d \in Nodes :
         /\ IsField(d, "declarator") /\ IsItem(Up(d))
         /\ Kind(Up(d)) = "declaration" \/ d = Field(Up(d), "declarator")
         /\ CppDeclaratorName(d) # 0}

CppMacros == {"preproc_def", "preproc_function_def"}

CppDeclarations ==
  CppDeclared
    \cup {i \in Nodes : CppIsAggregate(i)}
    \cup {i \in OfKind(CppMacros \cup {"alias_declaration"}) : CppIsProcessed(i) /\ Field(i, "name") # 0}

CppDeclaredName(i) ==
  CASE Kind(i) \in DOMAIN CppAggregates -> CppTypeLeafName(Field(i, "name"))
    [] IsField(i, "declarator") -> CppLeafText(CppDeclaratorName(i))
    [] OTHER -> Text(Field(i, "name"))

CppShape(i) ==
  LET item == Kind(Up(i))
  IN  CASE Kind(i) \in DOMAIN CppAggregates -> <<CppAggregates[Kind(i)], "Type">>
        [] Kind(i) = "alias_declaration" \/ item = "type_definition" -> <<"TypeAlias", "Type">>
        [] Kind(i) = "preproc_def" -> <<"Const", "Macro">>
        [] Kind(i) = "preproc_function_def" -> <<"Function", "Macro">>
        [] item = "function_definition" \/ CppIsFunction(i) ->
             <<IF CppIsMember(Up(i)) THEN "Method" ELSE "Function", "Method">>
        [] OTHER -> <<"Static", "Term">>

(* The namespaces around a node; the types around a type count as such. *)
CppNamespacesAt(i) ==
  LET around == {up \in Above(i) : Kind(up) \in {"namespace_definition"} \cup DOMAIN CppRecords}
      Names(up) == IF Kind(up) = "namespace_definition" THEN PathOf(Field(up, "name"))
                   ELSE <<CppDeclaredName(up)>>
  IN  CppNamespaces \o FlattenSeq(Each(around, Names))

(* A symbol extends over its whole declaration. *)
CppDeclarationSymbol(i) ==
  LET item == IF IsField(i, "declarator") THEN Up(i) ELSE i
      owner == IF IsField(i, "declarator") /\ CppIsMember(item) THEN Up(Up(item)) ELSE 0
      within == IF owner = 0 THEN Namespaced(CppNamespacesAt(item))
                ELSE Append(Namespaced(CppNamespacesAt(owner)), <<"Type", CppDeclaredName(owner)>>)
  IN  Given(CppShape(i), LAMBDA shape :
        Given(CppDeclaredName(i), LAMBDA name :
          MakeSymbol(item, name, shape[1], Append(within, <<shape[2], name>>))))

CppCollectSymbols == Each(CppDeclarations, CppDeclarationSymbol)

(***************************************************************************)
(* Calls and inheritance.                                                  *)
(***************************************************************************)
CppCalled(i) == Field(i, "function")

CppCallee(i) ==
  LET Of(kind, child) == IF Kind(child) = kind THEN child ELSE 0
  IN  CASE Kind(CppCalled(i)) = "identifier" -> CppCalled(i)
        [] Kind(CppCalled(i)) = "field_expression" -> Of("field_identifier", Field(CppCalled(i), "field"))
        [] Kind(CppCalled(i)) = "qualified_identifier" -> Of("identifier", Field(CppCalled(i), "name"))
        [] OTHER -> 0

CppCallReferences ==
  LET calls == {i \in OfKind({"call_expression"}) : CppCallee(i) # 0 /\ Long(CppCallee(i))}
      Argument(i) == IF Kind(CppCalled(i)) = "field_expression" THEN Field(CppCalled(i), "argument") ELSE 0
      On(kind) == {i \in calls : Kind(Argument(i)) = kind}
  IN  MarkReceiverQualifierCalls(
        MarkSelfReceiverCalls(
          Each(calls, LAMBDA i : CallTo(CppCallee(i), <<>>)), {CppCallee(i) : i \in On("this")}),
        {<<CppCallee(i), Argument(i)>> : i \in On("identifier")})

CppInheritance ==
  LET clauses == {Child(i, "base_class_clause") : i \in OfKind({"class_specifier", "struct_specifier"})}
      bases == {j \in UNION {Kids(c) : c \in clauses} :
                  Kind(j) \in {"type_identifier", "qualified_identifier", "template_type"}}
  IN  Each(bases, LAMBDA i : RefAt(i, SimpleTypeName(i, "::"), "IsImplementation"))

(***************************************************************************)
(* Types, reads and writes.                                                *)
(***************************************************************************)
(* emit_cpp_type_node: the children of a type in which names are found. *)
CppParts(i) ==
  CASE Kind(i) = "qualified_identifier" -> {Field(i, "name")}
    [] Kind(i) = "template_type" ->
         {Field(i, "name")} \cup {j \in Kids(i) : Kind(j) = "template_argument_list"}
    [] Kind(i) = "template_argument_list" ->
         {j \in Kids(i) : Kind(j) \in {"type_descriptor", "type_identifier",
                                       "qualified_identifier", "template_type"}}
    [] Kind(i) = "type_descriptor" -> {Field(i, "type")}
    [] OTHER -> {}

CppNamedTypes(annotation) ==
  {j \in Within(annotation) :
     /\ \/ Kind(j) = "type_identifier"
        \/ Kind(j) = "qualified_identifier" /\ Field(j, "name") = 0
     /\ \A up \in (Above(j) \cup {j}) \cap Below(annotation) : up \in CppParts(Up(up))}

CppTyped == {"parameter_declaration", "optional_parameter_declaration", "function_definition",
             "field_declaration"}

CppTypeReferences ==
  Each(UNION {CppNamedTypes(Field(i, "type")) : i \in OfKind(CppTyped)},
       LAMBDA j : TypeRefTo(j, CppLeafText(j)))

CppParameter == {"parameter_declaration", "optional_parameter_declaration",
                 "variadic_parameter_declaration"}

(* Plain declarations and loops over ranges are not among them. *)
CppWrappers ==
  CppParameter \cup {"function_declarator", "pointer_declarator", "reference_declarator",
                     "array_declarator", "init_declarator", "attributed_declarator"}

CppIsNonReadPosition(i) ==
  LET up == Kind(Up(i))
  IN  \/ up = "call_expression" /\ IsField(i, "function")
      \/ up = "qualified_identifier" /\ IsField(i, "name")
      \/ up \in CppWrappers /\ IsField(i, "declarator")
      \/ up = "field_expression" /\ IsField(i, "field")
      \/ up = "assignment_expression" /\ IsField(i, "left")

CppIdentifiers == {i \in OfKind({"identifier"}) : Long(i)}

CppReads == {i \in CppIdentifiers : ~CppIsNonReadPosition(i)}
CppWrites == {i \in CppIdentifiers : Kind(Up(i)) = "assignment_expression" /\ IsField(i, "left")}

(***************************************************************************)
(* Scopes and bindings.                                                    *)
(***************************************************************************)
CppTypeScopes == DOMAIN CppRecords \cup {"namespace_definition"}
CppFunctions == {"function_definition", "lambda_expression"}

(* The children of a node in which scopes are looked for. *)
CppEntered(i) ==
  IF Kind(i) \in CppFunctions \/ (Kind(i) \in CppTypeScopes /\ Field(i, "body") # 0)
  THEN {Field(i, "body")} ELSE Kids(i)

CppOpening ==
  {i \in OfKind(CppTypeScopes \cup CppFunctions \cup {"compound_statement"}) :
     /\ ~CppIsBodyOf(i, CppTypeScopes \cup CppFunctions)
     /\ \A up \in (Above(i) \cup {i}) \ {Root} : up \in CppEntered(Up(up))}

CppScopes == ScopeTree([i \in CppOpening |-> Span(i)])

(* Only what a function or a block declares is a local. *)
CppIsLocal(i) ==
  LET around == CppOpening \cap Above(i)
  IN  around # {} /\ Kind(Max(around)) \notin CppTypeScopes

CppParameters ==
  LET Declarator(i) == IF Kind(i) = "function_definition"
                       THEN CppFunctionDeclarator(Field(i, "declarator")) ELSE Field(i, "declarator")
      listed == UNION {Kids(Field(Declarator(i), "parameters")) : i \in OfKind(CppFunctions)}
  IN  {Field(j, "declarator") : j \in {k \in listed : Kind(k) \in CppParameter}}

CppLocalBindings(scopes) ==
  LET WithName(indices) == {d \in indices : CppDeclaratorName(d) # 0}
      TypeOf(d) == CppTypeLeafName(Field(Up(d), "type"))
      declared == UNION {Fields(i, "declarator") : i \in OfKind({"declaration"})}
      looped == {Field(i, "declarator") : i \in OfKind({"for_range_loop"})}
      Bind(d, kind, type) == BindingAt(d, CppLeafText(CppDeclaratorName(d)), kind, type, scopes)
  IN  Each(WithName(CppParameters), LAMBDA d : Bind(d, "Param", TypeOf(d)))
      \o Each({d \in WithName(declared) : CppIsLocal(d)}, LAMBDA d : Bind(d, "Local", TypeOf(d)))
      \o Each({d \in WithName(looped) : CppIsLocal(d)}, LAMBDA d : Bind(d, "Local", ""))

(***************************************************************************)
(* extract_facts.                                                          *)
(***************************************************************************)
CppFacts ==
  LET refs == CppCallReferences \o CppInheritance
                \o Each(CppReads, LAMBDA i : RefTo(i, "Read"))
                \o Each(CppWrites, LAMBDA i : RefTo(i, "Write"))
                \o CppTypeReferences
  IN  FactsOf(CppCollectSymbols, <<ModuleSymbol(CppNamespaces)>>, refs, CppScopes, CppLocalBindings, <<>>)

(***************************************************************************)
(* extract/csharp.rs.                                                      *)
(***************************************************************************)
CSharpNamespaceKinds == {"namespace_declaration", "file_scoped_namespace_declaration"}

(* The first named namespace of a file, else its path. *)
CSharpNamespaces ==
  LET named == {i \in Kids(Root) : Kind(i) \in CSharpNamespaceKinds /\ Field(i, "name") # 0}
  IN  IF named # {} THEN PathOf(Field(Min(named), "name"))
      ELSE IF Head(path) = "src" /\ Len(path) > 1 THEN Tail(path) ELSE path

(***************************************************************************)
(* Definitions: types of the file and its namespace blocks, and members.   *)
(***************************************************************************)
CSharpTypes == [class_declaration |-> "Class", struct_declaration |-> "Struct",
                interface_declaration |-> "Interface", enum_declaration |-> "Enum",
                record_declaration |-> "Class"]
CSharpMembers == {"method_declaration", "constructor_declaration", "property_declaration"}

CSharpIsBodyOf(i, kinds) == IsField(i, "body") /\ Kind(Up(i)) \in kinds

CSharpIsTopLevel(i) ==
  \A up \in (Above(i) \cup {i}) \ {Root} :
    Up(up) = Root \/ CSharpIsBodyOf(up, CSharpNamespaceKinds) \/ CSharpIsBodyOf(Up(up), CSharpNamespaceKinds)

RECURSIVE CSharpIsType(_)

CSharpIsType(i) ==
  /\ Kind(i) \in DOMAIN CSharpTypes /\ Field(i, "name") # 0
  /\ CSharpIsTopLevel(i) \/ (CSharpIsBodyOf(Up(i), DOMAIN CSharpTypes) /\ CSharpIsType(Up(Up(i))))

CSharpIsMember(i) == CSharpIsBodyOf(Up(i), DOMAIN CSharpTypes) /\ CSharpIsType(Up(Up(i)))

(* collect_field_declarators. *)
CSharpIsFieldDeclarator(i) ==
  /\ Kind(i) = "variable_declarator" /\ Child(i, "identifier") # 0
  /\ Kind(Up(i)) = "variable_declaration" /\ Kind(Up(Up(i))) = "field_declaration"
  /\ CSharpIsMember(Up(Up(i)))

CSharpDeclarations ==
  {i \in Nodes :
     \/ CSharpIsType(i)
     \/ /\ Kind(i) \in CSharpMembers \cup {"enum_member_declaration"}
        /\ CSharpIsMember(i) /\ Field(i, "name") # 0
     \/ CSharpIsFieldDeclarator(i)}

CSharpDeclaredName(i) ==
  Text(IF Kind(i) = "variable_declarator" THEN Child(i, "identifier") ELSE Field(i, "name"))

CSharpShape(i) ==
  CASE Kind(i) \in DOMAIN CSharpTypes -> <<CSharpTypes[Kind(i)], "Type">>
    [] Kind(i) \in CSharpMembers -> <<"Method", "Method">>
    [] Kind(i) = "enum_member_declaration" -> <<"Const", "Term">>
    [] OTHER -> <<"Static", "Term">>

(* A field extends over all that is declared with it. *)
CSharpDeclarationSymbol(i) ==
  LET owners == {up \in Above(i) : Kind(up) \in DOMAIN CSharpTypes}
      Owned == Each(owners, LAMBDA up : <<"Type", CSharpDeclaredName(up)>>)
  IN  Given(CSharpShape(i), LAMBDA shape :
        Given(CSharpDeclaredName(i), LAMBDA name :
          MakeSymbol(IF Kind(i) = "variable_declarator" THEN Up(Up(i)) ELSE i, name, shape[1],
                     Namespaced(CSharpNamespaces) \o Owned \o <<<<shape[2], name>>>>)))

CSharpCollectSymbols == Each(CSharpDeclarations, CSharpDeclarationSymbol)

(***************************************************************************)
(* Calls, inheritance and imports.                                         *)
(***************************************************************************)
CSharpPlain(i) ==
  CASE Kind(i) = "identifier" -> i
    [] Kind(i) = "generic_name" -> Child(i, "identifier")
    [] OTHER -> 0

(* The receiver of a call; "this" is the only unnamed one that counts. *)
CSharpReceiver(i) ==
  IF Kind(Field(i, "function")) = "member_access_expression"
  THEN Field(Field(i, "function"), "expression") ELSE 0

CSharpCallee(i) ==
  LET called == Field(i, "function")
      type == Field(i, "type")
      Member == IF tree[CSharpReceiver(i)].named \/ Kind(CSharpReceiver(i)) = "this"
                THEN CSharpPlain(Field(called, "name")) ELSE 0
      Made == IF Kind(type) = "qualified_name" /\ Kind(Field(type, "name")) = "identifier"
              THEN Field(type, "name") ELSE CSharpPlain(type)
  IN  CASE Kind(i) = "invocation_expression" /\ CSharpReceiver(i) = 0 -> CSharpPlain(called)
        [] Kind(i) = "invocation_expression" /\ CSharpReceiver(i) # 0 -> Member
        [] Kind(i) = "object_creation_expression" -> Made
        [] OTHER -> 0

CSharpCallReferences ==
  LET calls == {i \in Nodes : CSharpCallee(i) # 0 /\ Long(CSharpCallee(i))}
      own == {i \in calls : Kind(CSharpReceiver(i)) = "this"}
  IN  MarkSelfReceiverCalls(
        Each(calls, LAMBDA i : CallTo(CSharpCallee(i), PathOf(CSharpReceiver(i)))), {CSharpCallee(i) : i \in own})

CSharpInheritance ==
  LET bases == {j \in UNION {Kids(i) : i \in OfKind({"base_list"})} :
                  Kind(j) \in {"identifier", "qualified_name", "generic_name"}}
  IN  Each(bases, LAMBDA j : RefAt(j, SimpleTypeName(j, "."), "IsImplementation"))

(* Aliases are left out. *)
CSharpImports ==
  LET usings == {i \in OfKind({"using_directive"}) : Child(i, "name_equals") = 0}
      names == {FirstOf(i, {"qualified_name", "identifier"}) : i \in usings} \ {0}
      At(j) == IF Kind(j) = "qualified_name" /\ Field(j, "name") # 0 THEN Field(j, "name") ELSE j
  IN  Each(names, LAMBDA j :
        ImportRef(At(j), Joined(AfterLast(Tokens(j), ".")), Segments(BeforeLast(Tokens(j), "."))))

(***************************************************************************)
(* Types, reads and writes.                                                *)
(***************************************************************************)
CSharpTypeLeaves == {"identifier", "qualified_name", "generic_name"}

(* type_leaf: the children of a type in which names are found. *)
CSharpParts(i) ==
  CASE Kind(i) \in CSharpTypeLeaves \cup {"predefined_type", "void_keyword"} -> {}
    [] Kind(i) \in {"nullable_type", "array_type"} -> {Least(NamedKids(i))}
    [] OTHER -> NamedKids(i)

CSharpNamedTypes(annotation) ==
  {j \in Within(annotation) :
     /\ Kind(j) \in CSharpTypeLeaves
     /\ \A up \in (Above(j) \cup {j}) \cap Below(annotation) : up \in CSharpParts(Up(up))}

CSharpAnnotation(i) ==
  CASE Kind(i) = "method_declaration" -> Field(i, "returns")
    [] Kind(i) \in {"parameter", "property_declaration"} -> Field(i, "type")
    [] Kind(i) = "variable_declaration" /\ Kind(Up(i)) = "field_declaration" -> Field(i, "type")
    [] OTHER -> 0

CSharpTypeReferences ==
  Each(UNION {CSharpNamedTypes(CSharpAnnotation(i)) : i \in Nodes},
       LAMBDA j : TypeRefTo(j, SimpleTypeName(j, ".")))

CSharpNaming ==
  DOMAIN CSharpTypes \cup CSharpMembers
    \cup {"enum_member_declaration", "variable_declarator", "parameter",
          "member_access_expression", "generic_name"}

CSharpIsNonReadPosition(i) ==
  LET up == Kind(Up(i))
  IN  \/ IsField(i, "type") \/ IsField(i, "returns")
      \/ up = "invocation_expression" /\ IsField(i, "function")
      \/ up \in CSharpNaming /\ IsField(i, "name")
      \/ up \in {"using_directive", "qualified_name"}
      \/ up = "assignment_expression" /\ IsField(i, "left")

CSharpIdentifiers == {i \in OfKind({"identifier"}) : Long(i)}

CSharpReads == {i \in CSharpIdentifiers : ~CSharpIsNonReadPosition(i)}
CSharpWrites == {i \in CSharpIdentifiers : Kind(Up(i)) = "assignment_expression" /\ IsField(i, "left")}

(***************************************************************************)
(* Scopes and bindings.                                                    *)
(***************************************************************************)
CSharpCallables == {"method_declaration", "constructor_declaration"}
CSharpBodied == CSharpNamespaceKinds \cup DOMAIN CSharpTypes \cup CSharpCallables

(* The children of a node in which scopes are looked for. *)
CSharpEntered(i) == IF Kind(i) \in CSharpBodied THEN {Field(i, "body")} ELSE Kids(i)

CSharpOpening ==
  {i \in OfKind(CSharpBodied \cup {"block"}) :
     /\ ~CSharpIsBodyOf(i, CSharpBodied)
     /\ \A up \in (Above(i) \cup {i}) \ {Root} : up \in CSharpEntered(Up(up))}

CSharpScopes == ScopeTree([i \in CSharpOpening |-> Span(i)])

(* local_declarator_type_name: as written, or the class it is made of. *)
CSharpLocalType(i) ==
  LET type == Field(Up(i), "type")
      value == Least(NamedKids(i) \ {Field(i, "name")})
  IN  IF Kind(type) # "implicit_type" THEN SimpleTypeName(type, ".")
      ELSE IF Kind(value) = "object_creation_expression"
           THEN SimpleTypeName(Field(value, "type"), ".") ELSE ""

CSharpParameters ==
  LET lists == {Field(i, "parameters") : i \in OfKind(CSharpCallables)}
  IN  {j \in UNION {NamedKids(l) : l \in lists} : Kind(j) = "parameter" /\ Field(j, "name") # 0}

CSharpLocalDeclarators ==
  {i \in OfKind({"variable_declarator"}) :
     /\ Kind(Up(i)) = "variable_declaration" /\ Kind(Up(Up(i))) = "local_declaration_statement"
     /\ Child(i, "identifier") # 0 /\ Long(Child(i, "identifier"))}

CSharpLocalBindings(scopes) ==
  LET Inner(names) == {j \in names : InnermostScope(Start(j), scopes) # 1}
      looped == {Field(i, "left") : i \in OfKind({"for_each_statement"})}
      caught == {Field(Field(i, "declaration"), "name") : i \in OfKind({"catch_clause"})}
      Bind(j, kind, type) == BindingAt(j, Text(j), kind, type, scopes)
  IN  Each(CSharpParameters, LAMBDA i :
             Bind(Field(i, "name"), "Param", SimpleTypeName(Field(i, "type"), ".")))
        \o Each(Inner({Child(i, "identifier") : i \in CSharpLocalDeclarators}),
                LAMBDA j : Bind(j, "Local", CSharpLocalType(Up(j))))
        \o Each(Inner({j \in looped : Kind(j) = "identifier"}), LAMBDA j : Bind(j, "Local", ""))
        \o Each(caught \ {0}, LAMBDA j : Bind(j, "Param", ""))

(***************************************************************************)
(* extract_facts.                                                          *)
(***************************************************************************)
CSharpFacts ==
  LET refs == CSharpCallReferences \o CSharpInheritance \o CSharpImports \o CSharpTypeReferences
                \o Each(CSharpReads, LAMBDA i : RefTo(i, "Read"))
                \o Each(CSharpWrites, LAMBDA i : RefTo(i, "Write"))
  IN  FactsOf(CSharpCollectSymbols, <<ModuleSymbol(CSharpNamespaces)>>, refs, CSharpScopes, CSharpLocalBindings, <<>>)
=============================================================================
