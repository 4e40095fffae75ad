------------------------- MODULE ScriptingExtractors -------------------------
(***************************************************************************)
(* The extractors of PHP, Ruby, Lua (and Luau) and shell scripts.          *)
(***************************************************************************)
EXTENDS ExtractSupport

(***************************************************************************)
(* extract/php.rs.                                                         *)
(***************************************************************************)
(* The first named namespace of a file, else its path. *)
PhpNamespaces ==
  LET named == {i \in Kids(Root) : Kind(i) = "namespace_definition" /\ Field(i, "name") # 0}
  IN  IF named # {} THEN PathOf(Field(Min(named), "name"))
      ELSE IF Head(path) = "src" /\ Len(path) > 1 THEN Tail(path) ELSE path

(* A variable goes by its name without the dollar sign. *)
PhpBareName(i) == Joined(SelectSeq(Tokens(i), LAMBDA token : token # "$"))

PhpNameKinds == {"name", "qualified_name", "relative_name"}

(* The last segment of a written name. *)
PhpLastName(i) == SimpleTypeName(i, "\\")

(***************************************************************************)
(* Definitions: of the file and its namespace blocks, and type members.    *)
(***************************************************************************)
PhpTypes == [class_declaration |-> "Class", interface_declaration |-> "Interface",
             trait_declaration |-> "Trait", enum_declaration |-> "Enum"]

PhpIsBodyOf(i, kinds) == IsField(i, "body") /\ Kind(Up(i)) \in kinds

PhpIsTopLevel(i) ==
  \A up \in (Above(i) \cup {i}) \ {Root} :
    \/ Up(up) = Root
    \/ PhpIsBodyOf(up, {"namespace_definition"}) \/ PhpIsBodyOf(Up(up), {"namespace_definition"})

PhpIsType(i) == Kind(i) \in DOMAIN PhpTypes /\ Field(i, "name") # 0 /\ PhpIsTopLevel(i)

PhpIsMember(i) == PhpIsBodyOf(Up(i), DOMAIN PhpTypes) /\ PhpIsType(Up(Up(i)))

PhpGrouped == [property_element |-> "property_declaration", const_element |-> "const_declaration"]

PhpDeclarations ==
  {i \in Nodes :
     \/ PhpIsType(i)
     \/ Kind(i) = "function_definition" /\ Field(i, "name") # 0 /\ PhpIsTopLevel(i)
     \/ Kind(i) = "method_declaration" /\ Field(i, "name") # 0 /\ PhpIsMember(i)
     \/ /\ Kind(i) \in DOMAIN PhpGrouped
        /\ Kind(Up(i)) = PhpGrouped[Kind(i)] /\ PhpIsMember(Up(i))
        /\ IF Kind(i) = "const_element" THEN Child(i, "name") # 0 ELSE Field(i, "name") # 0}

PhpDeclaredName(i) ==
  IF Kind(i) = "const_element" THEN Text(Child(i, "name")) ELSE PhpBareName(Field(i, "name"))

PhpShape(i) ==
  CASE Kind(i) \in DOMAIN PhpTypes -> <<PhpTypes[Kind(i)], "Type">>
    [] Kind(i) = "function_definition" -> <<"Function", "Method">>
    [] Kind(i) = "method_declaration" -> <<"Method", "Method">>
    [] Kind(i) = "property_element" -> <<"Static", "Term">>
    [] OTHER -> <<"Const", "Term">>

(* What is declared in a group extends over the group. *)
PhpDeclarationSymbol(i) ==
  LET item == IF Kind(i) \in DOMAIN PhpGrouped THEN Up(i) ELSE i
      owner == IF PhpIsTopLevel(item) THEN <<>>
               ELSE <<<<"Type", Text(Field(Up(Up(item)), "name"))>>>>
  IN  Given(PhpShape(i), LAMBDA shape :
        Given(PhpDeclaredName(i), LAMBDA name :
          MakeSymbol(item, name, shape[1],
                     Namespaced(PhpNamespaces) \o owner \o <<<<shape[2], name>>>>)))

PhpCollectSymbols == Each(PhpDeclarations, PhpDeclarationSymbol)

(***************************************************************************)
(* Calls, inheritance and imports.                                         *)
(***************************************************************************)
PhpCallee(i) ==
  LET name == CASE Kind(i) = "function_call_expression" -> Field(i, "function")
                [] Kind(i) = "member_call_expression" -> Field(i, "name")
                [] OTHER -> 0
  IN  IF Kind(name) = "name" THEN name ELSE 0

PhpCallReferences ==
  LET calls == {i \in Nodes : PhpCallee(i) # 0 /\ Long(PhpCallee(i))}
      on == {i \in calls : /\ Kind(i) = "member_call_expression"
                           /\ Kind(Field(i, "object")) = "variable_name"}
      own == {i \in on : PhpBareName(Field(i, "object")) = "this"}
  IN  MarkSelfReceiverCalls(
        MarkReceiverQualifierCalls(
          Each(calls, LAMBDA i : CallTo(PhpCallee(i), <<>>)),
          {<<PhpCallee(i), Child(Field(i, "object"), "name")>> : i \in on}),
        {PhpCallee(i) : i \in own})

PhpInheritance ==
  LET clauses == {j \in OfKind({"base_clause", "class_interface_clause"}) :
                    Kind(Up(j)) \in {"class_declaration", "interface_declaration"}}
      bases == {j \in UNION {Kids(c) : c \in clauses} : Kind(j) \in PhpNameKinds}
  IN  Each(bases, LAMBDA j : RefAt(j, PhpLastName(j), "IsImplementation"))

(* An import keeps neither its path nor its alias. *)
PhpImports ==
  LET names == {FirstOf(i, {"qualified_name", "name"}) : i \in OfKind({"namespace_use_clause"})}
  IN  Each(names \ {0}, LAMBDA j : RefAt(j, PhpLastName(j), "Import"))

(***************************************************************************)
(* Types, reads and writes.                                                *)
(***************************************************************************)
PhpCompound == {"named_type", "union_type", "intersection_type", "optional_type"}

(* type_leaf. *)
PhpNamedTypes(annotation) ==
  {j \in Within(annotation) :
     /\ Kind(j) \in PhpNameKinds
     /\ \A up \in Above(j) \cap Within(annotation) : Kind(up) \in PhpCompound}

PhpAnnotation(i) ==
  CASE Kind(i) \in {"simple_parameter", "property_promotion_parameter", "property_declaration"} ->
         Field(i, "type")
    [] Kind(i) \in {"function_definition", "method_declaration"} -> Field(i, "return_type")
    [] OTHER -> 0

PhpTypeReferences ==
  Each(UNION {PhpNamedTypes(PhpAnnotation(i)) : i \in Nodes}, LAMBDA j : TypeRefTo(j, PhpLastName(j)))

PhpParameter == {"simple_parameter", "variadic_parameter", "property_promotion_parameter"}

PhpIsAssigned(i) == Kind(Up(i)) = "assignment_expression" /\ IsField(i, "left")

PhpIsNonReadPosition(i) ==
  \/ PhpIsAssigned(i)
  \/ Kind(Up(i)) \in PhpParameter /\ IsField(i, "name")
  \/ /\ Kind(Up(i)) = "foreach_statement"
     /\ i # Least(NamedKids(Up(i))) /\ ~IsField(i, "body")

(* A variable is the outermost of nested variable names. *)
PhpVariables ==
  {i \in OfKind({"variable_name"}) : \A up \in Above(i) : Kind(up) # "variable_name"}

PhpReads == {i \in PhpVariables : Len(PhpBareName(i)) >= MinRefLen /\ ~PhpIsNonReadPosition(i)}
PhpWrites == {i \in OfKind({"variable_name"}) : Len(PhpBareName(i)) >= MinRefLen /\ PhpIsAssigned(i)}

(***************************************************************************)
(* Scopes and bindings.                                                    *)
(***************************************************************************)
PhpFunctions == {"function_definition", "method_declaration", "anonymous_function"}

(* A namespace opens a scope only where it has a body. *)
PhpIsTypeScope(i) ==
  \/ Kind(i) \in DOMAIN PhpTypes
  \/ Kind(i) = "namespace_definition" /\ Field(i, "body") # 0

PhpHasBody(i) == PhpIsTypeScope(i) \/ Kind(i) \in PhpFunctions

(* The children of a node in which scopes are looked for. *)
PhpEntered(i) == IF PhpHasBody(i) THEN {Field(i, "body")} ELSE Kids(i)

PhpOpening ==
  {i \in Nodes :
     /\ PhpHasBody(i) \/ Kind(i) \in {"arrow_function", "compound_statement"}
     /\ ~(IsField(i, "body") /\ PhpHasBody(Up(i)))
     /\ \A up \in (Above(i) \cup {i}) \ {Root} : up \in PhpEntered(Up(up))}

PhpScopes == ScopeTree([i \in PhpOpening |-> Span(i)])

(* Inside a function or a block: a type's own variables are definitions. *)
PhpIsLocal(i) ==
  LET around == PhpOpening \cap Above(i)
  IN  around # {} /\ ~PhpIsTypeScope(Max(around))

PhpParameters ==
  LET lists == {Field(i, "parameters") : i \in OfKind(PhpFunctions \cup {"arrow_function"})}
  IN  {j \in UNION {NamedKids(l) : l \in lists} : Kind(j) \in PhpParameter}

(* The variable a parameter binds, by reference or not. *)
PhpBound(i) ==
  LET name == Field(i, "name")
  IN  CASE Kind(name) = "by_ref" -> Child(name, "variable_name")
        [] Kind(name) = "variable_name" -> name
        [] OTHER -> 0

(* The variables of a loop: all but the first child and the body. *)
PhpLooped ==
  LET NotBody(i) == {j \in NamedKids(i) : ~IsField(j, "body")}
      targets == UNION {NotBody(i) \ {Least(NotBody(i))} : i \in OfKind({"foreach_statement"})}
  IN  {j \in UNION {Within(t) : t \in targets} : j \in PhpVariables}

PhpLocalBindings(scopes) ==
  LET assigned == {i \in OfKind({"variable_name"}) : PhpIsAssigned(i)}
      TypeOf(i) == IF Field(i, "type") = 0 THEN "" ELSE PhpLastName(Field(i, "type"))
  IN  Each({i \in PhpParameters : PhpBound(i) # 0},
           LAMBDA i : BindingAt(PhpBound(i), PhpBareName(PhpBound(i)), "Param", TypeOf(i), scopes))
        \o Each({i \in assigned \cup PhpLooped : PhpIsLocal(i)},
                LAMBDA i : BindingAt(i, PhpBareName(i), "Local", "", scopes))

(***************************************************************************)
(* extract_facts.                                                          *)
(***************************************************************************)
PhpVariableTo(i, role) == RefAt(i, PhpBareName(i), role)

PhpFacts ==
  LET refs == PhpCallReferences \o PhpInheritance \o PhpImports \o PhpTypeReferences
                \o Each(PhpReads, LAMBDA i : PhpVariableTo(i, "Read"))
                \o Each(PhpWrites, LAMBDA i : PhpVariableTo(i, "Write"))
  IN  FactsOf(PhpCollectSymbols, <<ModuleSymbol(PhpNamespaces)>>, refs, PhpScopes, PhpLocalBindings, <<>>)

(***************************************************************************)
(* extract/ruby.rs.                                                        *)
(***************************************************************************)
RubyNamespaces ==
  IF Head(path) \in {"lib", "app", "src"} /\ Len(path) > 1 THEN Tail(path) ELSE path

(***************************************************************************)
(* Definitions: what stands in the file or in bodies of classes and        *)
(* modules that stand there.                                               *)
(***************************************************************************)
RubyTypes == {"class", "module"}
RubyMethods == {"method", "singleton_method"}

RubyIsBodyOf(j, kinds) == IsField(j, "body") /\ Kind(Up(j)) \in kinds

RubyEnclosing(i) == {up \in Above(i) : Kind(up) \in RubyTypes}

RubyIsMember(i) ==
  /\ \A up \in Above(i) \ {Root} : Kind(up) \in RubyTypes \/ RubyIsBodyOf(up, RubyTypes)
  /\ Up(i) = Root \/ RubyIsBodyOf(Up(i), RubyTypes)

RubyNameNode(i) == IF Kind(i) = "assignment" THEN Field(i, "left") ELSE Field(i, "name")

RubyDeclarations ==
  {i \in OfKind(RubyTypes \cup RubyMethods \cup {"assignment"}) :
     /\ RubyIsMember(i)
     /\ RubyNameNode(i) # 0
     /\ Kind(i) = "assignment" => Kind(RubyNameNode(i)) = "constant"}

RubyShape(i) ==
  CASE Kind(i) = "class" -> <<"Class", "Type">>
    [] Kind(i) = "module" -> <<"Module", "Type">>
    [] Kind(i) \in RubyMethods -> <<"Method", "Method">>
    [] OTHER -> <<"Const", "Term">>

RubyDeclarationSymbol(i) ==
  LET name == Text(RubyNameNode(i))
      owners == Each(RubyEnclosing(i), LAMBDA up : <<"Type", Text(RubyNameNode(up))>>)
  IN  MakeSymbol(i, name, RubyShape(i)[1],
                 Namespaced(RubyNamespaces) \o owners \o <<<<RubyShape(i)[2], name>>>>)

RubyCollectSymbols == Each(RubyDeclarations, RubyDeclarationSymbol)

(***************************************************************************)
(* Calls and superclasses.                                                 *)
(***************************************************************************)
RubyCallee(i) ==
  LET method == Field(i, "method") IN IF Kind(method) = "identifier" THEN method ELSE 0

RubyCallReferences ==
  LET calls == {i \in OfKind({"call"}) : RubyCallee(i) # 0}
      own == {i \in calls : Kind(Field(i, "receiver")) = "self"}
      found == Each({i \in calls : Long(RubyCallee(i))},
                    LAMBDA i : CallTo(RubyCallee(i), PathOf(Field(i, "receiver"))))
  IN  MarkSelfReceiverCalls(found, {RubyCallee(i) : i \in own})

RubyInheritance ==
  LET supers == {Least(NamedKids(Field(i, "superclass"))) : i \in OfKind({"class"})}
  IN  Each(supers \ {0}, LAMBDA i : RefAt(i, SimpleTypeName(i, "::"), "IsImplementation"))

(***************************************************************************)
(* Reads and writes.                                                       *)
(***************************************************************************)
RubyNamedParameters ==
  {"optional_parameter", "keyword_parameter", "splat_parameter", "block_parameter",
   "hash_splat_parameter"}

RubyIsNonReadPosition(i) ==
  LET up == Kind(Up(i))
  IN  \/ up = "call" /\ IsField(i, "method")
      \/ up \in RubyMethods \cup RubyNamedParameters /\ IsField(i, "name")
      \/ up \in {"method_parameters", "block_parameters"}
      \/ up = "assignment" /\ IsField(i, "left")

RubyIdentifiers == {i \in OfKind({"identifier"}) : Long(i)}

RubyReads == {i \in RubyIdentifiers : ~RubyIsNonReadPosition(i)}

RubyWrites == {i \in RubyIdentifiers : Kind(Up(i)) = "assignment" /\ IsField(i, "left")}

(***************************************************************************)
(* Scopes and bindings.                                                    *)
(***************************************************************************)
RubyTypeScopes == RubyTypes \cup {"singleton_class"}
RubyBlocks == {"do_block", "block"}
RubyFunctions == RubyMethods \cup RubyBlocks

(* The children of a node in which scopes are looked for. *)
RubyEntered(i) ==
  IF Kind(i) \in RubyTypeScopes \cup RubyFunctions THEN {Field(i, "body")} ELSE Kids(i)

(* A body itself opens no scope, unless a method is one expression. *)
RubyIsPeeled(i) ==
  /\ RubyIsBodyOf(i, RubyTypeScopes \cup RubyFunctions)
  /\ Kind(Up(i)) \in RubyMethods => Kind(i) = "body_statement"

RubyOpening ==
  {i \in OfKind(RubyTypeScopes \cup RubyFunctions) :
     /\ ~RubyIsPeeled(i)
     /\ \A up \in (Above(i) \cup {i}) \ {Root} : up \in RubyEntered(Up(up))}

RubyScopes == ScopeTree([i \in RubyOpening |-> Span(i)])

(* A bare "*" has no name to bind. *)
RubyParameters(i) ==
  LET params == NamedKids(Field(i, "parameters"))
      Keyed == {p \in params : Kind(p) \in RubyNamedParameters /\ Field(p, "name") # 0}
  IN  {p \in params : Kind(p) = "identifier"} \cup {Field(p, "name") : p \in Keyed}

(* Every assignment in a function binds its name anew. *)
RubyAssigned ==
  {i \in OfKind({"identifier"}) :
     /\ Kind(Up(i)) = "assignment" /\ IsField(i, "left")
     /\ Kind(Greatest(RubyOpening \cap Above(i))) \in RubyFunctions}

RubyLocalBindings(scopes) ==
  LET params == UNION {RubyParameters(i) : i \in OfKind(RubyFunctions)}
  IN  Each(params, LAMBDA j : BindingAt(j, Text(j), "Param", "", scopes))
        \o Each(RubyAssigned, LAMBDA j : BindingAt(j, Text(j), "Local", "", scopes))

RubyFacts ==
  LET refs == RubyCallReferences \o RubyInheritance
                \o Each(RubyReads, LAMBDA i : RefTo(i, "Read"))
                \o Each(RubyWrites, LAMBDA i : RefTo(i, "Write"))
  IN  FactsOf(RubyCollectSymbols, <<ModuleSymbol(RubyNamespaces)>>, refs, RubyScopes, RubyLocalBindings, <<>>)

(***************************************************************************)
(* extract/lua.rs, which extract/luau.rs shares.                           *)
(***************************************************************************)
LuaNamespaces ==
  IF Head(path) \in {"luau", "lua", "src"} /\ Len(path) > 1 THEN Tail(path) ELSE path

(***************************************************************************)
(* Definitions of the chunk: functions, what is assigned, the fields of a  *)
(* table that is assigned, and the types of Luau.                          *)
(***************************************************************************)
LuaIndexed == [dot_index_expression |-> "field", method_index_expression |-> "method"]

(* collect_function_declaration: a plain name, or a name in a table. *)
LuaIsFunction(i) ==
  LET name == Field(i, "name")
  IN  /\ Kind(i) = "function_declaration" /\ Up(i) = Root
      /\ \/ Kind(name) = "identifier"
         \/ /\ Kind(name) \in DOMAIN LuaIndexed
            /\ Field(name, "table") # 0 /\ Field(name, LuaIndexed[Kind(name)]) # 0

LuaIsAssignment(i) ==
  /\ Kind(i) = "assignment_statement"
  /\ Up(i) = Root \/ (Kind(Up(i)) = "variable_declaration" /\ Up(Up(i)) = Root)

(* The names an assignment assigns to, and the value for the same place. *)
LuaTargets(i) == {j \in Kids(Child(i, "variable_list")) : Kind(j) = "identifier"}

LuaValueOf(j) ==
  LET assignment == Up(Up(j))
      values == {v \in Kids(Child(assignment, "expression_list")) : Kind(v) # ","}
  IN  Nth(values, Cardinality({k \in LuaTargets(assignment) : k < j}))

LuaIsTarget(j) == Kind(j) = "identifier" /\ LuaIsAssignment(Up(Up(j))) /\ j \in LuaTargets(Up(Up(j)))

LuaIsTableField(i) ==
  /\ Kind(i) = "field" /\ Field(i, "name") # 0 /\ Kind(Up(i)) = "table_constructor"
  /\ \E j \in Nodes : LuaIsTarget(j) /\ LuaValueOf(j) = Up(i)

LuaIsTypeDefinition(i) == Kind(i) = "type_definition" /\ Up(i) = Root /\ Field(i, "name") # 0

LuaDeclarations ==
  {i \in Nodes : LuaIsFunction(i) \/ LuaIsTarget(i) \/ LuaIsTableField(i) \/ LuaIsTypeDefinition(i)}

LuaNameNode(i) ==
  LET name == Field(i, "name")
  IN  CASE Kind(i) = "identifier" -> i
        [] Kind(name) \in DOMAIN LuaIndexed -> Field(name, LuaIndexed[Kind(name)])
        [] OTHER -> name

(* The table a definition belongs to. *)
LuaOwner(i) ==
  LET name == Field(i, "name")
  IN  CASE Kind(name) \in DOMAIN LuaIndexed -> <<<<"Type", Text(Field(name, "table"))>>>>
        [] Kind(i) = "field" ->
             LET target == Min({j \in Nodes : LuaIsTarget(j) /\ LuaValueOf(j) = Up(i)})
             IN  <<<<"Type", Text(target)>>>>
        [] OTHER -> <<>>

LuaShape(i) ==
  LET value == IF Kind(i) = "field" THEN Field(i, "value") ELSE LuaValueOf(i)
      Assigned(function) ==
        CASE Kind(value) = "function_definition" -> <<function, "Method">>
          [] Kind(value) = "table_constructor" /\ Kind(i) # "field" -> <<"Module", "Type">>
          [] OTHER -> <<"Static", "Term">>
  IN  CASE Kind(i) = "function_declaration" ->
             <<IF LuaOwner(i) = <<>> THEN "Function" ELSE "Method", "Method">>
        [] Kind(i) = "type_definition" -> <<"TypeAlias", "Type">>
        [] Kind(i) = "field" -> Assigned("Method")
        [] OTHER -> Assigned("Function")

LuaDeclarationSymbol(i) ==
  Given(LuaShape(i), LAMBDA shape :
    Given(Text(LuaNameNode(i)), LAMBDA name :
      MakeSymbol(IF Kind(i) = "identifier" THEN Up(Up(i)) ELSE i, name, shape[1],
                 Namespaced(LuaNamespaces) \o LuaOwner(i) \o <<<<shape[2], name>>>>)))

LuaCollectSymbols == Each(LuaDeclarations, LuaDeclarationSymbol)

(***************************************************************************)
(* Calls and imports.                                                      *)
(***************************************************************************)
LuaTable(i) ==
  LET called == Field(i, "name")
  IN  IF Kind(called) \in DOMAIN LuaIndexed THEN Field(called, "table") ELSE 0

LuaCallee(i) ==
  LET called == Field(i, "name")
      name == IF Kind(LuaTable(i)) = "identifier" THEN Field(called, LuaIndexed[Kind(called)]) ELSE called
  IN  IF Kind(name) = "identifier" THEN name ELSE 0

(* A call of "require" is only an import, whoever is asked for it. *)
LuaCallReferences ==
  LET calls == {i \in OfKind({"function_call"}) : LuaCallee(i) # 0 /\ Long(LuaCallee(i))}
  IN  Each({i \in calls : Text(LuaCallee(i)) # "require"},
           LAMBDA i : CallTo(LuaCallee(i), PathOf(LuaTable(i))))

(* What is required: a string or, in Luau, a path of tables. *)
LuaRequired(i) ==
  LET string == Child(Field(i, "arguments"), "string")
      content == Child(string, "string_content")
  IN  CASE content # 0 -> Tokens(content)
        [] string # 0 /\ content = 0 -> Tokens(string)
        [] OTHER -> Tokens(Child(Field(i, "arguments"), "dot_index_expression"))

LuaImports ==
  LET calls == {i \in OfKind({"function_call"}) :
                  Kind(Field(i, "name")) = "identifier" /\ Text(Field(i, "name")) = "require"}
      LeafOf(i) == Joined(AfterLast(LuaRequired(i), "."))
  IN  Each({i \in calls : Len(LeafOf(i)) >= MinRefLen},
           LAMBDA i : ImportRef(Field(i, "name"), LeafOf(i), Segments(LuaRequired(i))))

(***************************************************************************)
(* Reads and writes.                                                       *)
(***************************************************************************)
LuaIsNonReadPosition(i) ==
  LET up == Kind(Up(i))
  IN  \/ up \in {"function_call", "function_declaration", "field"} /\ IsField(i, "name")
      \/ up \in DOMAIN LuaIndexed /\ IsField(i, LuaIndexed[up])
      \/ up \in {"variable_list", "parameters"}

LuaIdentifiers == {i \in OfKind({"identifier"}) : Long(i)}

LuaReads == {i \in LuaIdentifiers : ~LuaIsNonReadPosition(i)}

LuaWrites ==
  LET plain == {i \in OfKind({"assignment_statement"}) :
                  Kind(Up(i)) \notin {"variable_declaration", "local_declaration"}}
  IN  {j \in UNION {LuaTargets(i) : i \in plain} : Long(j)}

(***************************************************************************)
(* Scopes and bindings.                                                    *)
(***************************************************************************)
LuaFunctions == {"function_declaration", "function_definition"}

(* The children of a node in which scopes are looked for. *)
LuaEntered(i) == IF Kind(i) \in LuaFunctions THEN {Field(i, "body")} ELSE Kids(i)

LuaIsBody(i) == IsField(i, "body") /\ Kind(Up(i)) \in LuaFunctions

LuaOpening ==
  {i \in OfKind(LuaFunctions \cup {"block"}) :
     /\ ~LuaIsBody(i)
     /\ \A up \in (Above(i) \cup {i}) \ {Root} : up \in LuaEntered(Up(up))}

LuaScopes == ScopeTree([i \in LuaOpening |-> Span(i)])

(* Locals are looked for in a kind of node that the grammar does not have: *)
(* it calls a field so, and lists the names below an assignment.           *)
LuaLocalNames ==
  LET declared == {i \in OfKind({"variable_declaration"}) : Kind(Up(i)) = "local_declaration"}
  IN  UNION {Kids(Child(i, "variable_list")) : i \in declared}

LuaLocalBindings(scopes) ==
  LET params == UNION {NamedKids(Field(i, "parameters")) : i \in OfKind(LuaFunctions)}
      Bindable(names) == {j \in names : /\ Kind(j) = "identifier" /\ Long(j)
                                        /\ InnermostScope(Start(j), scopes) # 1}
  IN  Each(Bindable(params), LAMBDA j : BindingAt(j, Text(j), "Param", "", scopes))
        \o Each(Bindable(LuaLocalNames), LAMBDA j : BindingAt(j, Text(j), "Local", "", scopes))

(***************************************************************************)
(* extract_lua_family.                                                     *)
(***************************************************************************)
LuaFacts ==
  LET refs == LuaCallReferences \o LuaImports
                \o Each(LuaReads, LAMBDA i : RefTo(i, "Read"))
                \o Each(LuaWrites, LAMBDA i : RefTo(i, "Write"))
  IN  FactsOf(LuaCollectSymbols, <<ModuleSymbol(LuaNamespaces)>>, refs, LuaScopes, LuaLocalBindings, <<>>)

(***************************************************************************)
(* extract/shell.rs.                                                       *)
(***************************************************************************)
ShellNamespaces ==
  IF Head(path) \in {"src", "bin", "scripts"} /\ Len(path) > 1 THEN Tail(path) ELSE path

ShellDeclarations ==
  {i \in Kids(Root) : Kind(i) = "function_definition" /\ Field(i, "name") # 0}

ShellDeclarationSymbol(i) ==
  LET name == Text(Field(i, "name"))
  IN  MakeSymbol(i, name, "Function", Append(Namespaced(ShellNamespaces), <<"Method", name>>))

ShellCollectSymbols == Each(ShellDeclarations, ShellDeclarationSymbol)

(* Every command may be a function of the file. *)
ShellCallReferences ==
  LET names == {i \in OfKind({"word"}) : Kind(Up(i)) = "command_name" /\ IsField(Up(i), "name")
                                         /\ Kind(Up(Up(i))) = "command"}
  IN  Each({i \in names : Long(i)}, LAMBDA i : CallTo(i, <<>>))

ShellVariables == {i \in OfKind({"variable_name"}) : Long(i)}

ShellReads == {i \in ShellVariables : Kind(Up(i)) \in {"simple_expansion", "expansion"}}

ShellIsAssigned(i) ==
  Kind(i) = "variable_name" /\ IsField(i, "name") /\ Kind(Up(i)) = "variable_assignment"

ShellWrites == {i \in ShellVariables : ShellIsAssigned(i)}

(***************************************************************************)
(* Functions are the scopes; of their bodies only the children are walked. *)
(***************************************************************************)
ShellEntered(i) == IF Kind(i) = "function_definition" THEN {Field(i, "body")} ELSE Kids(i)

ShellIsBody(i) == IsField(i, "body") /\ Kind(Up(i)) = "function_definition"

ShellOpening ==
  {i \in OfKind({"function_definition"}) :
     /\ ~ShellIsBody(i)
     /\ \A up \in (Above(i) \cup {i}) \ {Root} : up \in ShellEntered(Up(up))}

ShellScopes == ScopeTree([i \in ShellOpening |-> Span(i)])

(* What a declaration or a loop in a function names; a plain assignment is *)
(* one to a variable of the whole script.                                  *)
ShellLocalNames ==
  {i \in Nodes : ShellIsAssigned(i) /\ Kind(Up(Up(i))) = "declaration_command"}
    \cup ({Field(i, "variable") : i \in OfKind({"for_statement"})} \ {0})

ShellLocalBindings(scopes) ==
  Each({i \in ShellLocalNames : InnermostScope(Start(i), scopes) # 1},
       LAMBDA i : BindingAt(i, Text(i), "Local", "", scopes))

ShellFacts ==
  LET refs == ShellCallReferences \o Each(ShellReads, LAMBDA i : RefTo(i, "Read"))
                \o Each(ShellWrites, LAMBDA i : RefTo(i, "Write"))
  IN  FactsOf(ShellCollectSymbols, <<ModuleSymbol(ShellNamespaces)>>, refs, ShellScopes, ShellLocalBindings, <<>>)
=============================================================================
