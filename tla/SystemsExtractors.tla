-------------------------- MODULE SystemsExtractors --------------------------
(***************************************************************************)
(* The extractors of Go, Pascal and Solidity.                              *)
(***************************************************************************)
EXTENDS ExtractSupport

(***************************************************************************)
(* extract/go.rs.                                                          *)
(***************************************************************************)
GoPackageName == Text(Child(Child(Root, "package_clause"), "package_identifier"))

(* The directory of the file, else its package, else its own name. *)
GoNamespaces ==
  LET p == IF Len(path) > 1 /\ Head(path) = "src" THEN Tail(path) ELSE path
  IN  IF Len(p) > 1 THEN Front(p)
      ELSE IF GoPackageName # "" THEN <<GoPackageName>> ELSE p

(***************************************************************************)
(* Definitions.                                                            *)
(***************************************************************************)
(* go_type_leaf_name: the node that names a type, 0 for one without name. *)
GoTypeLeaf(i) ==
  LET inside == IF Kind(i) # "pointer_type" THEN i
                ELSE Least({j \in Below(i) : tree[j].named /\ Kind(j) # "pointer_type"})
      base == IF Kind(inside) = "generic_type" THEN Field(inside, "type") ELSE inside
      name == IF Kind(base) = "qualified_type" THEN Field(base, "name") ELSE base
  IN  IF Kind(name) = "type_identifier" THEN name ELSE 0

GoReceiverType(i) ==
  GoTypeLeaf(Field(Least({p \in NamedKids(Field(i, "receiver")) :
                            Kind(p) = "parameter_declaration"}), "type"))

GoCallables == {"function_declaration", "method_declaration"}

GoSpecsIn(declaration, kinds) ==
  {s \in UNION {Kids(d) : d \in {c \in Kids(Root) : Kind(c) = declaration}} : Kind(s) \in kinds}

GoTypeSpecs == GoSpecsIn("type_declaration", {"type_spec", "type_alias"})

GoValueNames == {n \in UNION {Kids(s) : s \in GoSpecsIn("const_declaration", {"const_spec"})
                                          \cup GoSpecsIn("var_declaration", {"var_spec"})} :
                   Kind(n) = "identifier"}

(* What a definition is: kind of symbol, owning type, descriptor. *)
GoTypeSpecKind(i) ==
  LET type == Kind(Field(i, "type"))
  IN  CASE Kind(i) = "type_spec" /\ type = "struct_type" -> "Struct"
        [] Kind(i) = "type_spec" /\ type = "interface_type" -> "Interface"
        [] OTHER -> "TypeAlias"

GoShape(i) ==
  CASE Kind(i) = "function_declaration" -> <<"Function", 0, "Method">>
    [] Kind(i) = "method_declaration" -> <<"Method", GoReceiverType(i), "Method">>
    [] i \in GoTypeSpecs -> <<GoTypeSpecKind(i), 0, "Type">>
    [] Kind(Up(i)) = "const_spec" -> <<"Const", 0, "Term">>
    [] OTHER -> <<"Static", 0, "Term">>

(* A value is named by itself and spans its whole specification. *)
GoDefinedName(i) == IF i \in GoValueNames THEN i ELSE Field(i, "name")

GoDefinitionSymbol(i) ==
  LET name == Text(GoDefinedName(i))
      owner == GoShape(i)[2]
      owned == IF owner = 0 THEN <<>> ELSE <<<<"Type", Text(owner)>>>>
  IN  MakeSymbol(IF i \in GoValueNames THEN Up(i) ELSE i, name, GoShape(i)[1],
                 Append(Namespaced(GoNamespaces) \o owned, <<GoShape(i)[3], name>>))

GoDefinitions ==
  {i \in {c \in Kids(Root) : Kind(c) \in GoCallables} \cup GoTypeSpecs \cup GoValueNames :
     GoDefinedName(i) # 0}

GoCollectSymbols == Each(GoDefinitions, GoDefinitionSymbol)

(***************************************************************************)
(* Calls and imports.  An imported package is known by its last segment.   *)
(***************************************************************************)
GoCallReferences ==
  LET Called(i) == Field(i, "function")
      Selected(i) == Kind(Called(i)) = "selector_expression"
      Callee(i) == IF Kind(Called(i)) = "identifier" THEN Called(i)
                   ELSE IF Selected(i) THEN Child(Called(i), "field_identifier") ELSE 0
      Qualifier(i) == IF Selected(i) THEN PathOf(Field(Called(i), "operand")) ELSE <<>>
      calls == {i \in OfKind({"call_expression"}) : Callee(i) # 0 /\ Long(Callee(i))}
  IN  Each(calls, LAMBDA i : CallTo(Callee(i), Qualifier(i)))

GoImports ==
  Each({Field(i, "path") : i \in OfKind({"import_spec"})} \ {0}, LAMBDA i :
        RefAt(i, SimpleTypeName(i, "/"), "Import"))

(***************************************************************************)
(* Types, reads and writes.                                                *)
(***************************************************************************)
GoParameterKinds == {"parameter_declaration", "variadic_parameter_declaration"}

(* type_leaf: the children of a type in which names are looked for. *)
GoParts(i) ==
  CASE Kind(i) = "qualified_type" -> {Field(i, "name")}
    [] Kind(i) \in {"slice_type", "array_type"} -> {Field(i, "element")}
    [] Kind(i) = "map_type" -> {Field(i, "key"), Field(i, "value")}
    [] Kind(i) = "generic_type" -> {Field(i, "type"), Field(i, "type_arguments")}
    [] Kind(i) = "channel_type" -> {Field(i, "value")}
    [] OTHER -> NamedKids(i)

GoNamedTypes(annotation) ==
  {j \in Within(annotation) :
     /\ Kind(j) = "type_identifier"
     /\ \A up \in (Above(j) \cup {j}) \cap Below(annotation) : up \in GoParts(Up(up))}

(* Parameters and fields of a parameter's or field's own type are part of  *)
(* that type.                                                              *)
GoAnnotated ==
  LET typed == GoParameterKinds \cup {"field_declaration"}
  IN  {i \in OfKind(typed) : \A up \in Above(i) : Kind(up) \notin typed}

GoResults ==
  LET result(i) == Field(i, "result")
      Listed(p) == IF Kind(p) = "parameter_declaration" THEN Field(p, "type") ELSE p
  IN  UNION {IF Kind(result(i)) = "parameter_list"
             THEN {Listed(p) : p \in NamedKids(result(i))} ELSE {result(i)} :
               i \in OfKind(GoCallables)}

(* A named result is a parameter as well, and so is its type twice. *)
GoTypeReferences ==
  LET Of(annotations) == Each(UNION {GoNamedTypes(i) : i \in annotations}, LAMBDA j :
                              TypeRefTo(j, Text(j)))
  IN  Of(GoResults) \o Of({Field(i, "type") : i \in GoAnnotated})

GoIsNonReadPosition(i) ==
  LET up == Kind(Up(i))
  IN  \/ up = "call_expression" /\ IsField(i, "function")
      \/ up \in GoCallables \cup {"func_literal", "const_spec", "var_spec"} \cup GoParameterKinds
           /\ IsField(i, "name")
      \/ /\ up = "expression_list" /\ IsField(Up(i), "left")
         /\ Kind(Up(Up(i))) \in {"short_var_declaration", "assignment_statement", "range_clause"}

GoIdentifiers == {i \in OfKind({"identifier"}) : Long(i)}

GoReads == {i \in GoIdentifiers : ~GoIsNonReadPosition(i)}

GoWrites ==
  {i \in GoIdentifiers : Kind(Up(Up(i))) = "assignment_statement" /\ IsField(Up(i), "left")}

(***************************************************************************)
(* Scopes and bindings.                                                    *)
(***************************************************************************)
GoFnKinds == GoCallables \cup {"func_literal"}

GoOpening ==
  {i \in OfKind(GoFnKinds \cup {"block"}) :
     /\ ~(Kind(Up(i)) \in GoFnKinds /\ IsField(i, "body") /\ Kind(i) = "block")
     /\ \A up \in Above(i) : Kind(up) \in GoFnKinds => i \in Below(Field(up, "body"))}

GoScopes == ScopeTree([i \in GoOpening |-> Span(i)])

GoBindable(indices) == {i \in indices : Kind(i) = "identifier" /\ Text(i) # "_"}

GoParameterNames ==
  LET lists == {Field(i, "parameters") : i \in OfKind(GoFnKinds)}
                 \cup {Field(i, "receiver") : i \in OfKind(GoFnKinds)}
      params == {p \in UNION {NamedKids(l) : l \in lists} : Kind(p) \in GoParameterKinds}
  IN  GoBindable(UNION {Kids(p) : p \in params})

(* The type that the value at the same position is a literal of. *)
GoLiteralType(i, values) ==
  LET position == Cardinality({j \in Kids(Up(i)) : Kind(j) = "identifier" /\ j < i})
      value == Nth(NamedKids(values), position)
  IN  IF Kind(value) = "composite_literal" THEN Text(GoTypeLeaf(Field(value, "type"))) ELSE ""

GoLocalType(i) ==
  LET declared == Text(GoTypeLeaf(Field(Up(i), "type")))
  IN  CASE Kind(Up(i)) = "var_spec" ->
             IF declared # "" THEN declared ELSE GoLiteralType(i, Field(Up(i), "value"))
        [] Kind(Up(Up(i))) = "short_var_declaration" ->
             GoLiteralType(i, Field(Up(Up(i)), "right"))
        [] OTHER -> ""

GoLocalNames ==
  LET lists == {Field(i, "left") : i \in OfKind({"short_var_declaration", "range_clause"})}
                 \cup OfKind({"var_spec", "const_spec"})
  IN  GoBindable(UNION {Kids(l) : l \in lists})

(* What the file itself declares is a definition and no local. *)
GoLocalBindings(scopes) ==
  LET inside == {i \in GoLocalNames : InnermostScope(Start(i), scopes) # 1}
  IN  Each(GoParameterNames, LAMBDA i :
        BindingAt(i, Text(i), "Param", Text(GoTypeLeaf(Field(Up(i), "type"))), scopes))
      \o Each(inside, LAMBDA i : BindingAt(i, Text(i), "Local", GoLocalType(i), scopes))

(***************************************************************************)
(* extract_facts.                                                          *)
(***************************************************************************)
GoFacts ==
  LET refs == GoCallReferences \o GoImports \o GoTypeReferences
                \o Each(GoReads, LAMBDA i : RefTo(i, "Read"))
                \o Each(GoWrites, LAMBDA i : RefTo(i, "Write"))
  IN  FactsOf(GoCollectSymbols, <<ModuleSymbol(GoNamespaces)>>, refs, GoScopes, GoLocalBindings, <<>>)

(***************************************************************************)
(* extract/pascal.rs.                                                      *)
(***************************************************************************)
PascalModules == {"unit", "program"}

(* The first segment of the module's name, else the file's path. *)
PascalNamespaces ==
  LET names == {j \in OfKind({"identifier"}) :
                  /\ Kind(Up(j)) = "moduleName"
                  /\ Kind(Up(Up(j))) \in PascalModules /\ Up(Up(Up(j))) = Root}
  IN  IF names # {} THEN <<Text(Min(names))>>
      ELSE IF Head(path) = "src" /\ Len(path) > 1 THEN Tail(path) ELSE path

(***************************************************************************)
(* Definitions: the types of an interface with their members, and the      *)
(* routines of an implementation that belong to no type.                   *)
(***************************************************************************)
PascalIsType(i) ==
  /\ Kind(i) = "declType" /\ Field(i, "name") # 0 /\ Field(i, "type") # 0
  /\ Kind(Up(i)) = "declTypes" /\ Kind(Up(Up(i))) = "interface"
  /\ Kind(Up(Up(Up(i)))) = "unit" /\ Up(Up(Up(Up(i)))) = Root

(* unwrap_type_node. *)
PascalInner(i) ==
  LET type == Field(i, "type")
  IN  IF Kind(type) = "type" /\ NamedKids(type) # {} THEN Min(NamedKids(type)) ELSE type

(* classify_decl_type. *)
PascalTypeKind(i) ==
  CASE Kind(PascalInner(i)) = "declClass" -> IF Child(PascalInner(i), "kRecord") # 0 THEN "Struct" ELSE "Class"
    [] Kind(PascalInner(i)) = "declIntf" -> "Interface"
    [] Kind(PascalInner(i)) = "declEnum" -> "Enum"
    [] OTHER -> "Class"

(* The type a node is a part of, by way of sections only; 0 without one. *)
PascalOwner(i) ==
  Greatest({t \in Above(i) :
              /\ PascalIsType(t)
              /\ \A up \in Above(i) \cap Below(PascalInner(t)) : Kind(up) = "declSection"
              /\ i \in Below(PascalInner(t))})

PascalIsMember(i) ==
  /\ Field(i, "name") # 0 /\ PascalOwner(i) # 0
  /\ \/ Kind(i) = "declEnumValue" /\ Kind(Up(i)) = "declEnum"
     \/ /\ Kind(i) = "declField" \/ (Kind(i) = "declProc" /\ Len(Tokens(Field(i, "name"))) = 1)
        /\ Kind(PascalInner(PascalOwner(i))) \in {"declClass", "declIntf"}

PascalHeader(i) == Field(i, "header")

(* What is implemented for a type has a dotted name. *)
PascalIsRoutine(i) ==
  /\ Kind(i) = "defProc" /\ Kind(PascalHeader(i)) = "declProc"
  /\ Kind(Field(PascalHeader(i), "name")) = "identifier"
  /\ \/ Kind(Up(i)) = "program" /\ Up(Up(i)) = Root
     \/ Kind(Up(i)) = "implementation" /\ Kind(Up(Up(i))) = "unit" /\ Up(Up(Up(i))) = Root

PascalDeclarations == {i \in Nodes : PascalIsType(i) \/ PascalIsMember(i) \/ PascalIsRoutine(i)}

PascalDeclaredName(i) == Text(Field(IF Kind(i) = "defProc" THEN PascalHeader(i) ELSE i, "name"))

PascalShape(i) ==
  CASE Kind(i) = "declType" -> <<PascalTypeKind(i), "Type">>
    [] Kind(i) = "declProc" -> <<"Method", "Method">>
    [] Kind(i) = "defProc" -> <<"Function", "Method">>
    [] Kind(i) = "declField" -> <<"Static", "Term">>
    [] OTHER -> <<"Const", "Term">>

PascalDeclarationSymbol(i) ==
  LET owner == IF PascalIsMember(i) THEN <<<<"Type", PascalDeclaredName(PascalOwner(i))>>>> ELSE <<>>
  IN  Given(PascalShape(i), LAMBDA shape :
        Given(PascalDeclaredName(i), LAMBDA name :
          MakeSymbol(i, name, shape[1],
                     Namespaced(PascalNamespaces) \o owner \o <<<<shape[2], name>>>>)))

PascalCollectSymbols == Each(PascalDeclarations, PascalDeclarationSymbol)

(***************************************************************************)
(* Calls, inheritance and imports.                                         *)
(***************************************************************************)
PascalCallee(i) ==
  LET entity == Field(i, "entity")
      name == IF Kind(entity) # "exprDot" THEN entity
              ELSE IF Kind(Field(entity, "lhs")) = "identifier" THEN Field(entity, "rhs") ELSE 0
  IN  IF Kind(name) = "identifier" THEN name ELSE 0

PascalCallReferences ==
  LET calls == {i \in OfKind({"exprCall"}) : PascalCallee(i) # 0 /\ Long(PascalCallee(i))}
  IN  Each(calls, LAMBDA i : CallTo(PascalCallee(i), PathOf(Field(Field(i, "entity"), "lhs"))))

PascalInheritance ==
  LET bases == {j \in OfKind({"identifier"}) :
                  Kind(Up(j)) = "typeref" /\ Kind(Up(Up(j))) \in {"declClass", "declIntf"}}
  IN  Each(bases, LAMBDA j : RefTo(j, "IsImplementation"))

(* Each segment of a used unit is imported from itself. *)
PascalImports ==
  LET names == {j \in OfKind({"identifier"}) :
                  Kind(Up(j)) = "moduleName" /\ Kind(Up(Up(j))) = "declUses"}
  IN  Each(names, LAMBDA j : ImportRef(j, Text(j), <<Text(j)>>))

(***************************************************************************)
(* Types, reads and writes.                                                *)
(***************************************************************************)
(* type_leaf: identifiers of type references, and any other written type. *)
PascalNamedTypes(annotation) ==
  LET Wrapped(j) == \A up \in Above(j) \cap Within(annotation) : Kind(up) = "type"
  IN  {j \in Within(annotation) :
         \/ /\ Kind(j) = "identifier" /\ Kind(Up(j)) = "typeref"
            /\ j # annotation /\ Wrapped(Up(j))
         \/ tree[j].named /\ Kind(j) \notin {"typeref", "type"} /\ Wrapped(j)}

PascalTypeReferences ==
  Each(UNION {PascalNamedTypes(Field(i, "type")) : i \in OfKind({"declArg", "declField", "declProc"})},
       LAMBDA j : TypeRefTo(j, SimpleTypeName(j, ".")))

PascalNaming == {"declProc", "declType", "declVar", "declConst", "declField", "declArg",
                 "declEnumValue", "declLabel"}

PascalIsNonReadPosition(i) ==
  LET up == Kind(Up(i))
  IN  \/ up = "exprCall" /\ IsField(i, "entity")
      \/ up = "exprDot" /\ IsField(i, "rhs")
      \/ up = "assignment" /\ IsField(i, "lhs")
      \/ up \in PascalNaming /\ IsField(i, "name")
      \/ up \in {"varAssignDef", "moduleName", "declUses", "typeref", "type"}

PascalIdentifiers == {i \in OfKind({"identifier"}) : Long(i)}

PascalReads == {i \in PascalIdentifiers : ~PascalIsNonReadPosition(i)}
PascalWrites == {i \in PascalIdentifiers : Kind(Up(i)) = "assignment" /\ IsField(i, "lhs")}

(***************************************************************************)
(* Scopes and bindings: parameters are the only locals.                    *)
(***************************************************************************)
(* The children of a node in which scopes are looked for. *)
PascalEntered(i) == IF Kind(i) = "defProc" THEN {Field(i, "body")} ELSE Kids(i)

PascalIsBody(i) == IsField(i, "body") /\ Kind(Up(i)) = "defProc"

PascalOpening ==
  {i \in OfKind(PascalModules \cup {"declClass", "declIntf", "defProc", "block"}) :
     /\ ~PascalIsBody(i)
     /\ \A up \in (Above(i) \cup {i}) \ {Root} : up \in PascalEntered(Up(up))}

PascalScopes == ScopeTree([i \in PascalOpening |-> Span(i)])

PascalLocalBindings(scopes) ==
  LET names == UNION {Fields(i, "name") : i \in OfKind({"declArg"})}
  IN  Each({j \in names : Long(j) /\ InnermostScope(Start(j), scopes) # 1},
           LAMBDA j : BindingAt(j, Text(j), "Param", "", scopes))

(***************************************************************************)
(* extract_facts.                                                          *)
(***************************************************************************)
PascalFacts ==
  LET refs == PascalCallReferences \o PascalInheritance \o PascalImports \o PascalTypeReferences
                \o Each(PascalReads, LAMBDA i : RefTo(i, "Read"))
                \o Each(PascalWrites, LAMBDA i : RefTo(i, "Write"))
  IN  FactsOf(PascalCollectSymbols, <<ModuleSymbol(PascalNamespaces)>>, refs, PascalScopes, PascalLocalBindings, <<>>)

(***************************************************************************)
(* extract/solidity.rs.                                                    *)
(***************************************************************************)
SolidityNamespaces == path

(***************************************************************************)
(* Definitions: of the file and of the contracts in it, with the members   *)
(* of their structs and enums.                                             *)
(***************************************************************************)
SolidityContainers == {"contract_declaration", "library_declaration", "interface_declaration"}
SolidityFunctions == {"function_definition", "modifier_definition", "constructor_definition",
                      "fallback_receive_definition"}
SolidityGrouped == [struct_declaration |-> "struct_member", enum_declaration |-> "enum_value"]

SolidityNamedDefinitions ==
  SolidityContainers \cup DOMAIN SolidityGrouped
    \cup {"function_definition", "modifier_definition", "state_variable_declaration",
          "constant_variable_declaration", "event_definition", "error_declaration",
          "user_defined_type_definition", "struct_member"}

SolidityDeclaredName(i) ==
  CASE Kind(i) \in SolidityNamedDefinitions -> Text(Field(i, "name"))
    [] Kind(i) = "constructor_definition" -> "constructor"
    [] Kind(i) = "fallback_receive_definition" ->
         IF Head(Tokens(i)) \in {"fallback", "receive"} THEN Head(Tokens(i)) ELSE ""
    [] Kind(i) = "enum_value" -> Text(i)
    [] OTHER -> ""

SolidityIsConstant(i) ==
  \/ Child(i, "immutable") # 0
  \/ \E word \in Range(Tokens(i)) : word = "constant"

SolidityShape(i) ==
  CASE Kind(i) \in {"contract_declaration", "library_declaration"} -> <<"Class", "Type">>
    [] Kind(i) = "interface_declaration" -> <<"Interface", "Type">>
    [] Kind(i) = "struct_declaration" -> <<"Struct", "Type">>
    [] Kind(i) = "enum_declaration" -> <<"Enum", "Type">>
    [] Kind(i) = "user_defined_type_definition" -> <<"TypeAlias", "Type">>
    [] Kind(i) \in SolidityFunctions ->
         <<IF Kind(i) = "function_definition" /\ Up(i) = Root THEN "Function" ELSE "Method", "Method">>
    [] Kind(i) = "state_variable_declaration" ->
         <<IF SolidityIsConstant(i) THEN "Const" ELSE "Static", "Term">>
    [] Kind(i) = "struct_member" -> <<"Static", "Term">>
    [] Kind(i) \in {"constant_variable_declaration", "enum_value"} -> <<"Const", "Term">>
    [] OTHER -> <<"Other", "Term">>

SolidityIsBodyOf(i, kinds) == IsField(i, "body") /\ Kind(Up(i)) \in kinds

SolidityDeclarations ==
  {i \in Nodes :
     /\ SolidityDeclaredName(i) # ""
     /\ \A up \in Above(i) \ {Root} :
          \/ SolidityIsBodyOf(up, SolidityContainers \cup DOMAIN SolidityGrouped)
          \/ Kind(up) \in SolidityContainers \cup DOMAIN SolidityGrouped /\ SolidityDeclaredName(up) # ""
     /\ IF Kind(i) \in Range(SolidityGrouped)
        THEN Kind(Up(Up(i))) \in DOMAIN SolidityGrouped /\ SolidityGrouped[Kind(Up(Up(i)))] = Kind(i)
        ELSE Up(i) = Root \/ SolidityIsBodyOf(Up(i), SolidityContainers)}

SolidityDeclarationSymbol(i) ==
  LET types == {up \in Above(i) : Kind(up) \in SolidityContainers \cup DOMAIN SolidityGrouped}
      prefix == Namespaced(SolidityNamespaces) \o Each(types, LAMBDA t : <<"Type", SolidityDeclaredName(t)>>)
      name == SolidityDeclaredName(i)
  IN  MakeSymbol(i, name, SolidityShape(i)[1], Append(prefix, <<SolidityShape(i)[2], name>>))

SolidityCollectSymbols == Each(SolidityDeclarations, SolidityDeclarationSymbol)

(***************************************************************************)
(* Calls, inheritance and imports.                                         *)
(***************************************************************************)
SolidityCallee(i) ==
  LET called == Child(i, "expression")
  IN  IF Child(called, "identifier") # 0 THEN Child(called, "identifier")
      ELSE Field(Child(called, "member_expression"), "property")

SolidityCallReferences ==
  LET calls == {i \in OfKind({"call_expression"}) :
                  Kind(SolidityCallee(i)) = "identifier" /\ Long(SolidityCallee(i))}
  IN  Each(calls, LAMBDA i : CallTo(SolidityCallee(i), <<>>))

SolidityInheritance ==
  LET types == OfKind({"contract_declaration", "interface_declaration"})
      specifiers == {j \in UNION {Kids(i) : i \in types} : Kind(j) = "inheritance_specifier"}
      ancestors == {Field(j, "ancestor") : j \in specifiers} \ {0}
  IN  Each(ancestors, LAMBDA i : RefAt(i, SimpleTypeName(i, "."), "IsImplementation"))

SolidityImports ==
  Each(UNION {Fields(i, "import_name") : i \in OfKind({"import_directive"})},
       LAMBDA i : RefTo(i, "Import"))

(***************************************************************************)
(* Types, reads and writes.                                                *)
(***************************************************************************)
(* type_leaf: the children of a type in which names are looked for. *)
SolidityParts(i) ==
  CASE Kind(i) = "user_defined_type" -> {Greatest({j \in Kids(i) : Kind(j) = "identifier"})}
    [] Kind(i) = "mapping" -> {Field(i, "key"), Field(i, "value")}
    [] Kind(i) = "array_type" -> {Least(NamedKids(i))}
    [] Kind(i) = "type_name" -> NamedKids(i)
    [] OTHER -> {}

SolidityNamedTypes(annotation) ==
  {j \in Within(annotation) :
     /\ Kind(j) = "identifier" /\ Kind(Up(j)) = "user_defined_type"
     /\ \A up \in (Above(j) \cup {j}) \cap Below(annotation) : up \in SolidityParts(Up(up))}

(* A function's parameters and results, and a member, are not looked into. *)
SolidityAnnotations ==
  LET Visited(i) ==
        \A up \in Above(i) :
          /\ Kind(up) # "struct_member"
          /\ ~(Kind(up) = "parameter" /\ Kind(Up(up)) \in SolidityFunctions \cup {"return_type_definition"})
      typed == OfKind({"parameter", "struct_member", "state_variable_declaration"})
  IN  {Field(i, "type") : i \in {j \in typed : Visited(j)}}

SolidityTypeReferences ==
  Each(UNION {SolidityNamedTypes(i) : i \in SolidityAnnotations}, LAMBDA j : TypeRefTo(j, Text(j)))

(* The contract's own name is not among them. *)
SolidityNameOnly ==
  {"function_definition", "modifier_definition", "event_definition", "struct_declaration",
   "state_variable_declaration", "constant_variable_declaration", "constructor_definition",
   "error_declaration", "user_defined_type_definition", "enum_declaration",
   "variable_declaration", "parameter", "struct_field_assignment"}

SolidityAssignments == {"assignment_expression", "augmented_assignment_expression"}

SolidityIsNonReadPosition(i) ==
  LET up == Kind(Up(i))
      around == Kind(Up(Up(i)))
  IN  \/ /\ up = "expression"
         /\ \/ around = "call_expression" /\ IsField(Up(i), "function")
            \/ around \in SolidityAssignments /\ IsField(Up(i), "left")
      \/ up = "member_expression" /\ IsField(i, "property")
      \/ up \in SolidityNameOnly /\ IsField(i, "name")
      \/ up \in {"user_defined_type", "import_directive", "inheritance_specifier"}
      \/ up = "type_name" /\ (IsField(i, "key_identifier") \/ IsField(i, "value_identifier"))

SolidityReads == {i \in OfKind({"identifier"}) : Long(i) /\ ~SolidityIsNonReadPosition(i)}

SolidityWrites ==
  LET targets == {Field(i, "left") : i \in OfKind(SolidityAssignments)}
      Bare(t) == IF Kind(t) = "expression" THEN Least(NamedKids(t)) ELSE t
  IN  {i \in {Bare(t) : t \in targets} : Kind(i) = "identifier" /\ Long(i)}

(***************************************************************************)
(* Scopes and bindings.                                                    *)
(***************************************************************************)
(* The children of a node in which scopes are looked for. *)
SolidityEntered(i) == IF Kind(i) \in SolidityContainers \cup SolidityFunctions THEN {Field(i, "body")} ELSE Kids(i)

SolidityIsOwnBody(i) == SolidityIsBodyOf(i, SolidityContainers \cup SolidityFunctions)

SolidityOpening ==
  {i \in OfKind(SolidityContainers \cup SolidityFunctions \cup {"block_statement"}) :
     /\ ~SolidityIsOwnBody(i)
     /\ \A up \in (Above(i) \cup {i}) \ {Root} : up \in SolidityEntered(Up(up))}

SolidityScopes == ScopeTree([i \in SolidityOpening |-> Span(i)])

(* Only what a function or a block declares is a local. *)
SolidityIsLocal(i) ==
  LET around == SolidityOpening \cap Above(i)
  IN  around # {} /\ Kind(Max(around)) \notin SolidityContainers

SolidityLocalBindings(scopes) ==
  LET NamesOf(indices) == {Field(i, "name") : i \in indices} \ {0}
      params == {j \in UNION {Kids(i) : i \in OfKind(SolidityFunctions)} : Kind(j) = "parameter"}
      tuples == UNION {Kids(i) : i \in OfKind({"variable_declaration_tuple"})}
      locals == NamesOf(OfKind({"variable_declaration"}))
                  \cup {i \in tuples : Kind(i) = "identifier"}
      Bind(i, kind) == BindingAt(i, Text(i), kind, "", scopes)
  IN  Each(NamesOf(params), LAMBDA i : Bind(i, "Param"))
      \o Each({i \in locals : SolidityIsLocal(i)}, LAMBDA i : Bind(i, "Local"))

(***************************************************************************)
(* extract_facts.                                                          *)
(***************************************************************************)
SolidityFacts ==
  LET refs == SolidityCallReferences \o SolidityInheritance \o SolidityImports \o SolidityTypeReferences
                \o Each(SolidityReads, LAMBDA i : RefTo(i, "Read"))
                \o Each(SolidityWrites, LAMBDA i : RefTo(i, "Write"))
  IN  FactsOf(SolidityCollectSymbols, <<ModuleSymbol(SolidityNamespaces)>>, refs, SolidityScopes, SolidityLocalBindings, <<>>)
=============================================================================
