---------------------------- MODULE JvmExtractors ----------------------------
(***************************************************************************)
(* The extractors of Java, Kotlin and Scala.                               *)
(***************************************************************************)
EXTENDS ExtractSupport

(***************************************************************************)
(* extract/java.rs.                                                        *)
(***************************************************************************)
(* The declared package, else the path of the file. *)
JavaNamespaces ==
  LET packages == {i \in Kids(Root) : Kind(i) = "package_declaration"}
      named == {i \in UNION {Kids(p) : p \in packages} :
                  Kind(i) \in {"scoped_identifier", "identifier"}}
  IN  IF named # {} THEN PathOf(Min(named))
      ELSE IF Len(path) > 1 /\ Head(path) = "src" THEN Tail(path) ELSE path

(***************************************************************************)
(* Definitions: the types of the file and their members.                   *)
(***************************************************************************)
JavaTypeKindOf ==
  [class_declaration |-> "Class", record_declaration |-> "Class",
   interface_declaration |-> "Interface", annotation_type_declaration |-> "Interface",
   enum_declaration |-> "Enum"]

JavaTypeDecls == DOMAIN JavaTypeKindOf

JavaTypes == {i \in Kids(Root) : Kind(i) \in JavaTypeDecls /\ Field(i, "name") # 0}

JavaTypeSymbol(i) ==
  LET name == Text(Field(i, "name"))
  IN  MakeSymbol(i, name, JavaTypeKindOf[Kind(i)],
                 Append(Namespaced(JavaNamespaces), <<"Type", name>>))

(* An enum keeps its members one level further down. *)
JavaMembers(i) ==
  LET body == Kids(Field(i, "body"))
  IN  body \cup UNION {Kids(j) : j \in {k \in body : Kind(k) = "enum_body_declarations"}}

JavaCallables == {"method_declaration", "constructor_declaration"}

(* The nodes that name a member: a field has one for each declarator. *)
JavaMemberNames(m) ==
  (IF Kind(m) \in JavaCallables THEN {Field(m, "name")}
   ELSE IF Kind(m) = "field_declaration"
   THEN {Field(d, "name") : d \in Fields(m, "declarator")} ELSE {}) \ {0}

JavaMemberSymbol(i, m, name) ==
  LET shape == IF Kind(m) \in JavaCallables THEN <<"Method", "Method">> ELSE <<"Static", "Term">>
  IN  MakeSymbol(m, Text(name), shape[1],
        MemberDescriptors(JavaNamespaces, Text(Field(i, "name")), <<shape[2], Text(name)>>))

JavaCollectSymbols ==
  LET OfMember(i, m) == Each(JavaMemberNames(m), LAMBDA name : JavaMemberSymbol(i, m, name))
      OfType(i) == <<JavaTypeSymbol(i)>> \o FlattenSeq(Each(JavaMembers(i), LAMBDA m : OfMember(i, m)))
  IN  FlattenSeq(Each(JavaTypes, OfType))

(***************************************************************************)
(* Calls, constructions among them, and what native methods call.          *)
(***************************************************************************)
JavaInvocations == OfKind({"method_invocation"})

JavaCallReferences ==
  LET created == {i \in OfKind({"object_creation_expression"}) :
                    Kind(Field(i, "type")) = "type_identifier"}
      callees == {Field(i, "name") : i \in JavaInvocations} \cup {Field(i, "type") : i \in created}
      Over(kind) == {i \in JavaInvocations : Kind(Field(i, "object")) = kind}
  IN  MarkReceiverQualifierCalls(
        MarkSelfReceiverCalls(
          Each({i \in callees : Long(i)}, LAMBDA i : CallTo(i, <<>>)),
          {Field(i, "name") : i \in Over("this")}),
        {<<Field(i, "name"), Field(i, "object")>> : i \in Over("identifier")})

JavaHasModifier(i, keyword) ==
  \E m \in Kids(Child(i, "modifiers")) : Text(m) = keyword

JavaJniMangle(class, method) ==
  FoldLeft(LAMBDA name, part : name \o "_" \o part, "Java",
           JavaNamespaces \o <<class, method>>)

JavaJniNatives ==
  LET classes == {i \in JavaTypes : Kind(i) # "annotation_type_declaration"}
      natives == {m \in UNION {Kids(Field(i, "body")) : i \in classes} :
                    /\ Kind(m) = "method_declaration" /\ JavaHasModifier(m, "native")
                    /\ Field(m, "name") # 0}
      Class(m) == Text(Field(Up(Up(m)), "name"))
  IN  Each(natives, LAMBDA m :
        RefAt(Field(m, "name"), JavaJniMangle(Class(m), Text(Field(m, "name"))), "Call"))

(***************************************************************************)
(* Inheritance and imports.                                                *)
(***************************************************************************)
JavaInheritance ==
  LET classes == OfKind({"class_declaration"})
      supers == {Least(NamedKids(Field(i, "superclass"))) : i \in classes}
      lists == {Field(i, "interfaces") : i \in classes}
                 \cup {Child(i, "extends_interfaces") : i \in OfKind({"interface_declaration"})}
      listed == UNION {NamedKids(Child(l, "type_list")) : l \in lists}
  IN  Each((supers \cup listed) \ {0}, LAMBDA i :
        RefAt(i, SimpleTypeName(i, "."), "IsImplementation"))

JavaImports ==
  LET plain == {i \in OfKind({"import_declaration"}) : Child(i, "asterisk") = 0}
      Scoped(i) == Child(i, "scoped_identifier")
      Name(i) == IF Scoped(i) # 0 THEN Field(Scoped(i), "name") ELSE Child(i, "identifier")
      From(i) == IF Scoped(i) # 0 THEN PathOf(Field(Scoped(i), "scope")) ELSE <<>>
  IN  Each({i \in plain : Name(i) # 0}, LAMBDA i : ImportRef(Name(i), Text(Name(i)), From(i)))

(***************************************************************************)
(* Types, reads and writes.                                                *)
(***************************************************************************)
JavaAnnotations ==
  {Field(i, "type") : i \in OfKind({"formal_parameter", "method_declaration",
                                    "field_declaration"})}
    \cup {Least(NamedKids(i)) : i \in OfKind({"spread_parameter"})}

(* type_leaf: the children of a type in which names are looked for. *)
JavaParts(i) ==
  CASE Kind(i) = "generic_type" -> {Least(NamedKids(i)), Child(i, "type_arguments")}
    [] Kind(i) = "type_arguments" -> NamedKids(i)
    [] Kind(i) = "wildcard" -> IF Kind(Up(i)) = "type_arguments" THEN NamedKids(i) ELSE {}
    [] Kind(i) = "scoped_type_identifier" -> {Field(i, "name")}
    [] Kind(i) = "array_type" -> {Field(i, "element")}
    [] OTHER -> {}

JavaNamedTypes(annotation) ==
  {j \in Within(annotation) :
     /\ Kind(j) = "type_identifier"
     /\ \A up \in (Above(j) \cup {j}) \cap Below(annotation) : up \in JavaParts(Up(up))}

JavaTypeReferences ==
  Each(UNION {JavaNamedTypes(i) : i \in JavaAnnotations}, LAMBDA j : TypeRefTo(j, Text(j)))

JavaNameHolders == JavaTypeDecls \cup JavaCallables
                     \cup {"compact_constructor_declaration", "method_invocation",
                           "variable_declarator", "formal_parameter"}

JavaDotted == {"scoped_identifier", "scoped_type_identifier"}

JavaInHeader(i) ==
  \E up \in Above(i) :
    /\ Kind(up) \in {"package_declaration", "import_declaration"}
    /\ \A between \in Above(i) \cap Below(up) : Kind(between) \in JavaDotted

JavaIsNonReadPosition(i) ==
  LET up == Kind(Up(i))
  IN  \/ JavaInHeader(i)
      \/ up \in JavaNameHolders /\ IsField(i, "name")
      \/ up = "field_access" /\ IsField(i, "field")
      \/ up = "assignment_expression" /\ IsField(i, "left")

JavaIdentifiers == {i \in OfKind({"identifier"}) : Long(i)}

JavaReads == {i \in JavaIdentifiers : ~JavaIsNonReadPosition(i)}

JavaWrites ==
  {i \in JavaIdentifiers : /\ Kind(Up(i)) \in {"assignment_expression", "operator_assignment"}
                           /\ IsField(i, "left")}

(***************************************************************************)
(* Scopes and bindings.                                                    *)
(***************************************************************************)
JavaFunctions == JavaCallables \cup {"compact_constructor_declaration"}
JavaBodied == JavaTypeDecls \cup JavaFunctions \cup {"lambda_expression"}

(* Of what has a body only the body is looked into, and its block is its   *)
(* own.                                                                    *)
JavaOpening ==
  {i \in OfKind(JavaBodied \cup {"block"}) :
     /\ ~(Kind(Up(i)) \in JavaBodied /\ IsField(i, "body") /\ Kind(i) = "block")
     /\ \A up \in Above(i) : Kind(up) \in JavaBodied => i \in Within(Field(up, "body"))}

JavaScopes == ScopeTree([i \in JavaOpening |-> Span(i)])

(* A lambda may have a single bare parameter. *)
JavaParametersOf(i) ==
  LET params == Field(i, "parameters")
  IN  IF Kind(params) = "identifier" THEN {params} ELSE NamedKids(params)

(* The node that a parameter introduces. *)
JavaParameterIdent(i) ==
  CASE Kind(i) = "formal_parameter" -> Field(i, "name")
    [] Kind(i) = "spread_parameter" -> Field(Child(i, "variable_declarator"), "name")
    [] Kind(i) = "identifier" -> i
    [] OTHER -> 0

JavaParameterType(i) ==
  IF Kind(i) = "formal_parameter" THEN SimpleTypeName(Field(i, "type"), ".") ELSE ""

JavaParameters == UNION {JavaParametersOf(i) : i \in OfKind(JavaFunctions \cup {"lambda_expression"})}

(* java_local_type_name: what a declarator declares, or else creates. *)
JavaLocalTypeName(i) ==
  LET type == Field(Up(i), "type")
      value == Field(i, "value")
  IN  IF \/ Kind(type) \in {"scoped_type_identifier", "generic_type"}
         \/ Kind(type) = "type_identifier" /\ Text(type) # "var"
      THEN SimpleTypeName(type, ".")
      ELSE IF Kind(value) = "object_creation_expression"
      THEN SimpleTypeName(Field(value, "type"), ".") ELSE ""

JavaLocalBindings(scopes) ==
  LET declarators == UNION {Fields(i, "declarator") : i \in OfKind({"local_variable_declaration"})}
      HasName(indices) == {i \in indices : Field(i, "name") # 0}
      Inside(indices) ==
        {i \in HasName(indices) : InnermostScope(Start(Field(i, "name")), scopes) # 1}
      Bind(i, kind, type) == BindingAt(Field(i, "name"), Text(Field(i, "name")), kind, type, scopes)
  IN  Each({i \in JavaParameters : JavaParameterIdent(i) # 0}, LAMBDA i :
        BindingAt(JavaParameterIdent(i), Text(JavaParameterIdent(i)), "Param", JavaParameterType(i), scopes))
      \o Each(Inside(declarators), LAMBDA i : Bind(i, "Local", JavaLocalTypeName(i)))
      \o Each(Inside(OfKind({"enhanced_for_statement"})), LAMBDA i : Bind(i, "Local", ""))
      \o Each(HasName(OfKind({"catch_formal_parameter"})), LAMBDA i : Bind(i, "Param", ""))

(***************************************************************************)
(* extract_facts.                                                          *)
(***************************************************************************)
JavaFacts ==
  LET refs == JavaCallReferences \o JavaInheritance \o JavaImports \o JavaJniNatives \o JavaTypeReferences
                \o Each(JavaReads, LAMBDA i : RefTo(i, "Read"))
                \o Each(JavaWrites, LAMBDA i : RefTo(i, "Write"))
  IN  FactsOf(JavaCollectSymbols, <<ModuleSymbol(JavaNamespaces)>>, refs, JavaScopes, JavaLocalBindings, <<>>)

(***************************************************************************)
(* extract/kotlin.rs.                                                      *)
(***************************************************************************)
KotlinNames == {"qualified_identifier", "identifier"}

(* The declared package, else the path of the file. *)
KotlinNamespaces ==
  LET headers == {i \in Kids(Root) : Kind(i) = "package_header"}
      named == {i \in UNION {Kids(h) : h \in headers} : Kind(i) \in KotlinNames}
  IN  IF named # {} THEN PathOf(Min(named))
      ELSE IF Len(path) > 1 /\ Head(path) = "src" THEN Tail(path) ELSE path

(***************************************************************************)
(* Definitions: of the file and, however deep, of the types in it.         *)
(***************************************************************************)
KotlinTypeDecls == {"class_declaration", "object_declaration", "companion_object"}
KotlinTypeBodies == {"class_body", "enum_class_body"}

KotlinTypeName(i) ==
  IF Kind(i) = "companion_object" /\ Field(i, "name") = 0 THEN "Companion"
  ELSE Text(Field(i, "name"))

KotlinPropertyName(i) ==
  LET declared == FirstOf(i, {"variable_declaration", "multi_variable_declaration"})
  IN  IF Kind(declared) = "variable_declaration" THEN Text(Child(declared, "identifier")) ELSE ""

KotlinDeclaredName(i) ==
  CASE Kind(i) \in KotlinTypeDecls -> KotlinTypeName(i)
    [] Kind(i) = "function_declaration" -> Text(Field(i, "name"))
    [] Kind(i) = "property_declaration" -> KotlinPropertyName(i)
    [] Kind(i) = "type_alias" -> Text(Field(i, "type"))
    [] Kind(i) = "enum_entry" -> Text(Child(i, "identifier"))
    [] Kind(i) = "secondary_constructor" -> "constructor"
    [] OTHER -> ""

KotlinClassKind(i) ==
  IF Child(i, "enum_class_body") # 0 THEN "Enum"
  ELSE IF \E j \in Below(i) : j < Field(i, "name") /\ Text(j) = "interface" THEN "Interface"
  ELSE "Class"

KotlinShape(i) ==
  CASE Kind(i) = "class_declaration" -> <<KotlinClassKind(i), "Type">>
    [] Kind(i) \in KotlinTypeDecls -> <<"Class", "Type">>
    [] Kind(i) = "type_alias" -> <<"TypeAlias", "Type">>
    [] Kind(i) = "function_declaration" ->
         <<IF Up(i) = Root THEN "Function" ELSE "Method", "Method">>
    [] Kind(i) = "secondary_constructor" -> <<"Method", "Method">>
    [] Kind(i) = "property_declaration" ->
         <<IF \E c \in Kids(i) : Kind(c) = "var" THEN "Static" ELSE "Const", "Term">>
    [] OTHER -> <<"Const", "Term">>

KotlinDeclarations ==
  {i \in Nodes :
     /\ KotlinDeclaredName(i) # ""
     /\ \A up \in Above(i) \ {Root} :
          \/ Kind(up) \in KotlinTypeBodies /\ Kind(Up(up)) \in KotlinTypeDecls
          \/ Kind(up) \in KotlinTypeDecls /\ KotlinDeclaredName(up) # ""
     /\ Up(i) = Root \/ Kind(Up(i)) \in KotlinTypeBodies}

KotlinDeclarationSymbol(i) ==
  LET types == {up \in Above(i) : Kind(up) \in KotlinTypeDecls}
      prefix == Namespaced(KotlinNamespaces) \o Each(types, LAMBDA t : <<"Type", KotlinTypeName(t)>>)
      name == KotlinDeclaredName(i)
  IN  MakeSymbol(i, name, KotlinShape(i)[1], Append(prefix, <<KotlinShape(i)[2], name>>))

KotlinCollectSymbols == Each(KotlinDeclarations, KotlinDeclarationSymbol)

(***************************************************************************)
(* Calls, inheritance and imports.                                         *)
(***************************************************************************)
KotlinCalled(i) == Least(NamedKids(i))

KotlinCallee(i) ==
  CASE Kind(KotlinCalled(i)) = "identifier" -> KotlinCalled(i)
    [] Kind(KotlinCalled(i)) = "navigation_expression" ->
         Greatest({j \in NamedKids(KotlinCalled(i)) \ {KotlinCalled(KotlinCalled(i))} : Kind(j) = "identifier"})
    [] OTHER -> 0

KotlinCallReferences ==
  LET calls == {i \in OfKind({"call_expression"}) : KotlinCallee(i) # 0 /\ Long(KotlinCallee(i))}
      Receiver(i) == IF Kind(KotlinCalled(i)) = "identifier" THEN 0 ELSE KotlinCalled(KotlinCalled(i))
      own == {i \in calls : Kind(Receiver(i)) = "this_expression"}
  IN  MarkSelfReceiverCalls(
        Each(calls, LAMBDA i :
          CallTo(KotlinCallee(i), IF Receiver(i) = 0 THEN <<>> ELSE PathOf(Receiver(i)))),
        {KotlinCallee(i) : i \in own})

KotlinInheritance ==
  LET types == OfKind({"class_declaration", "object_declaration"})
      lists == {j \in UNION {Kids(i) : i \in types} : Kind(j) = "delegation_specifiers"}
      specifiers == {j \in UNION {Kids(l) : l \in lists} : Kind(j) = "delegation_specifier"}
      FirstUserType(i) == Least({j \in Within(i) : Kind(j) = "user_type"})
  IN  Each({FirstUserType(i) : i \in specifiers} \ {0}, LAMBDA i :
        RefAt(i, SimpleTypeName(i, "."), "IsImplementation"))

KotlinImports ==
  LET plain == {i \in OfKind({"import"}) : \A j \in Below(i) : Text(j) # "*"}
      imported == {FirstOf(i, KotlinNames) : i \in plain} \ {0}
  IN  Each(imported, LAMBDA i : ImportRef(i, Last(PathOf(i)), Front(PathOf(i))))

(***************************************************************************)
(* Types, reads and writes.                                                *)
(***************************************************************************)
KotlinReturnTypes == {"user_type", "nullable_type", "function_type", "parenthesized_type"}

(* type_leaf: the children of a type in which names are looked for; every  *)
(* segment of a qualified type counts as a name.                           *)
KotlinParts(i) ==
  CASE Kind(i) = "user_type" ->
         {j \in NamedKids(i) : Kind(j) \in {"simple_user_type", "type_identifier", "identifier",
                                            "type_arguments"}}
    [] Kind(i) = "simple_user_type" ->
         {j \in NamedKids(i) : Kind(j) \in {"type_identifier", "type_arguments"}}
    [] OTHER -> NamedKids(i)

KotlinNamedTypes(annotation) ==
  {j \in Within(annotation) :
     /\ \/ Kind(j) = "type_identifier"
        \/ Kind(j) = "identifier" /\ Kind(Up(j)) = "user_type"
     /\ \A up \in (Above(j) \cup {j}) \cap Below(annotation) : up \in KotlinParts(Up(up))}

KotlinTyped == {"parameter", "class_parameter", "variable_declaration"}

(* What a type contains belongs to the type alone. *)
KotlinVisited(i) ==
  \A up \in Above(i) :
    /\ Kind(up) \notin KotlinTyped
    /\ ~(Kind(up) \in KotlinReturnTypes /\ Kind(Up(up)) = "function_declaration")

KotlinAnnotations ==
  LET functions == {i \in OfKind({"function_declaration"}) : KotlinVisited(i)}
      Returned(i) == {j \in NamedKids(i) : /\ Kind(j) \in KotlinReturnTypes
                                           /\ Child(i, "function_value_parameters") \in 1 .. j}
  IN  {FirstOf(i, KotlinReturnTypes \cup {"type_identifier"}) : i \in {j \in OfKind(KotlinTyped) : KotlinVisited(j)}}
        \cup UNION {Returned(i) : i \in functions}

KotlinTypeReferences ==
  Each(UNION {KotlinNamedTypes(i) : i \in KotlinAnnotations}, LAMBDA j : TypeRefTo(j, Text(j)))

(* The child that names a node without a field for it. *)
KotlinFirstIdentifier(i) == Least({j \in NamedKids(i) : Kind(j) = "identifier"})
KotlinLastIdentifier(i) == Greatest({j \in NamedKids(i) : Kind(j) = "identifier"})

KotlinIsNonReadPosition(i) ==
  LET up == Kind(Up(i))
  IN  \/ up = "call_expression" /\ i = KotlinCalled(Up(i))
      \/ up = "navigation_expression" /\ i = KotlinLastIdentifier(Up(i))
      \/ up \in KotlinTypeDecls \cup {"function_declaration"} /\ IsField(i, "name")
      \/ up = "type_alias" /\ IsField(i, "type")
      \/ up \in KotlinTyped /\ i = KotlinFirstIdentifier(Up(i))
      \/ up \in {"import", "qualified_identifier", "package_header", "user_type",
                 "type_identifier"}
      \/ up = "assignment" /\ IsField(i, "left")

KotlinIdentifiers == {i \in OfKind({"identifier"}) : Long(i)}

KotlinReads == {i \in KotlinIdentifiers : ~KotlinIsNonReadPosition(i)}
KotlinWrites == {i \in KotlinIdentifiers : Kind(Up(i)) = "assignment" /\ IsField(i, "left")}

(***************************************************************************)
(* Scopes and bindings.                                                    *)
(***************************************************************************)
KotlinFunctions == {"function_declaration", "anonymous_function"}

(* The children of a node in which scopes are looked for. *)
KotlinEntered(i) ==
  CASE Kind(i) \in KotlinTypeDecls -> {c \in Kids(i) : Kind(c) \in KotlinTypeBodies}
    [] Kind(i) \in KotlinFunctions -> {c \in Kids(i) : Kind(c) = "function_body"}
    [] Kind(i) = "secondary_constructor" -> {c \in Kids(i) : Kind(c) = "block"}
    [] OTHER -> Kids(i)

KotlinIsOwnBlock(i) ==
  /\ Kind(i) = "block"
  /\ \/ Kind(Up(i)) = "function_body" /\ Kind(Up(Up(i))) \in KotlinFunctions
     \/ Kind(Up(i)) = "secondary_constructor"

KotlinOpening ==
  {i \in OfKind(KotlinTypeDecls \cup KotlinFunctions \cup {"secondary_constructor", "lambda_literal", "block"}) :
     /\ ~KotlinIsOwnBlock(i)
     /\ \A up \in (Above(i) \cup {i}) \ {Root} : up \in KotlinEntered(Up(up))}

KotlinScopes == ScopeTree([i \in KotlinOpening |-> Span(i)])

(* Only what a function or a block declares is a local. *)
KotlinIsLocal(i) ==
  LET around == KotlinOpening \cap Above(i)
  IN  around # {} /\ Kind(Max(around)) \notin KotlinTypeDecls

KotlinParameterType(i) ==
  LET type == Child(i, "user_type")
  IN  IF type = 0 THEN "" ELSE SimpleTypeName(type, ".")

KotlinPropertyType(i) ==
  LET value == Least({j \in NamedKids(Up(i)) : j > i})
      made == IF Kind(value) = "call_expression" THEN KotlinCalled(value) ELSE 0
  IN  IF KotlinParameterType(i) # "" THEN KotlinParameterType(i)
      ELSE IF Kind(made) = "identifier" THEN SimpleTypeName(made, ".") ELSE ""

KotlinLocalBindings(scopes) ==
  LET functions == OfKind(KotlinFunctions \cup {"secondary_constructor"})
      lists == {j \in UNION {Kids(i) : i \in functions} : Kind(j) = "function_value_parameters"}
      params == {j \in UNION {NamedKids(l) : l \in lists} : Kind(j) = "parameter"}
      heads == {j \in UNION {Kids(i) : i \in OfKind({"lambda_literal"})} :
                  Kind(j) = "lambda_parameters"}
      implied == {j \in UNION {Kids(h) : h \in heads} : Kind(j) = "variable_declaration"}
      Declared(kind) == {Child(i, "variable_declaration") : i \in OfKind({kind})}
      WithName(indices) == {i \in indices : Child(i, "identifier") # 0}
      Locals(kind) == {i \in WithName(Declared(kind)) : KotlinIsLocal(Child(i, "identifier"))}
      Bind(i, kind, type) ==
        BindingAt(Child(i, "identifier"), Text(Child(i, "identifier")), kind, type, scopes)
  IN  Each(WithName(params), LAMBDA i : Bind(i, "Param", KotlinParameterType(i)))
      \o Each(WithName(implied), LAMBDA i : Bind(i, "Param", ""))
      \o Each(Locals("property_declaration"), LAMBDA i : Bind(i, "Local", KotlinPropertyType(i)))
      \o Each(Locals("for_statement"), LAMBDA i : Bind(i, "Local", ""))

(***************************************************************************)
(* extract_facts.                                                          *)
(***************************************************************************)
KotlinFacts ==
  LET refs == KotlinCallReferences \o KotlinInheritance \o KotlinImports \o KotlinTypeReferences
                \o Each(KotlinReads, LAMBDA i : RefTo(i, "Read"))
                \o Each(KotlinWrites, LAMBDA i : RefTo(i, "Write"))
  IN  FactsOf(KotlinCollectSymbols, <<ModuleSymbol(KotlinNamespaces)>>, refs, KotlinScopes, KotlinLocalBindings, <<>>)

(***************************************************************************)
(* extract/scala.rs.                                                       *)
(***************************************************************************)
(* The package clauses of a file, one after the other, else its path. *)
ScalaNamespaces ==
  LET clauses == {i \in Kids(Root) : Kind(i) = "package_clause"}
      packaged == FlattenSeq(Each(clauses, LAMBDA i : PathOf(Field(i, "name"))))
  IN  IF packaged # <<>> THEN packaged
      ELSE IF Head(path) = "src" /\ Len(path) > 1 THEN Tail(path) ELSE path

(***************************************************************************)
(* Definitions: outside of other definitions, or members of a type.        *)
(***************************************************************************)
ScalaTypes == [class_definition |-> "Class", trait_definition |-> "Trait",
               object_definition |-> "Module", package_object |-> "Module",
               enum_definition |-> "Enum"]
ScalaValues == [val_definition |-> "Const", var_definition |-> "Static"]
ScalaItems == DOMAIN ScalaTypes \cup DOMAIN ScalaValues \cup {"function_definition", "type_definition"}

(* A value is named by its pattern if that is no more than a name. *)
ScalaNameNode(i) ==
  LET pattern == IF Kind(i) \in DOMAIN ScalaValues THEN Field(i, "pattern") ELSE 0
  IN  IF pattern = 0 THEN Field(i, "name")
      ELSE IF Kind(pattern) = "identifier" THEN pattern ELSE 0

(* collect_defs_in. *)
ScalaIsFree(i) ==
  \A up \in (Above(i) \cup {i}) \ {Root} :
    /\ Kind(Up(up)) \notin ScalaItems
    /\ Kind(Up(up)) = "package_clause" => IsField(up, "body")

RECURSIVE ScalaIsDefined(_)

ScalaIsDefined(i) ==
  /\ Kind(i) \in ScalaItems /\ ScalaNameNode(i) # 0
  /\ \/ ScalaIsFree(i)
     \/ /\ Kind(i) # "package_object"
        /\ IsField(Up(i), "body") /\ Kind(Up(Up(i))) \in DOMAIN ScalaTypes
        /\ ScalaIsDefined(Up(Up(i)))

(* The names of the cases that a defined enumeration lists. *)
ScalaCaseNames ==
  {j \in OfKind({"identifier", "operator_identifier"}) :
     /\ IsField(j, "name") /\ Kind(Up(j)) \in {"simple_enum_case", "full_enum_case"}
     /\ LET group == Up(Up(j))
        IN  /\ Kind(group) = "enum_case_definitions" /\ IsField(Up(group), "body")
            /\ Kind(Up(Up(group))) = "enum_definition" /\ ScalaIsDefined(Up(Up(group)))}

ScalaDeclarations == {i \in Nodes : ScalaIsDefined(i)} \cup ScalaCaseNames

ScalaShape(i) ==
  CASE Kind(i) \in DOMAIN ScalaTypes -> <<ScalaTypes[Kind(i)], "Type">>
    [] Kind(i) \in DOMAIN ScalaValues -> <<ScalaValues[Kind(i)], "Term">>
    [] Kind(i) = "function_definition" -> <<"Method", "Method">>
    [] Kind(i) = "type_definition" -> <<"TypeAlias", "Type">>
    [] OTHER -> <<"Const", "Term">>

ScalaDeclarationSymbol(i) ==
  LET at == IF Kind(i) \in ScalaItems THEN i ELSE Up(i)
      owners == {up \in Above(at) : Kind(up) \in DOMAIN ScalaTypes}
      Owned == Each(owners, LAMBDA up : <<"Type", Text(ScalaNameNode(up))>>)
  IN  Given(ScalaShape(i), LAMBDA shape :
        Given(IF at = i THEN Text(ScalaNameNode(i)) ELSE Text(i), LAMBDA name :
          MakeSymbol(at, name, shape[1],
                     Namespaced(ScalaNamespaces) \o Owned \o <<<<shape[2], name>>>>)))

ScalaCollectSymbols == Each(ScalaDeclarations, ScalaDeclarationSymbol)

(***************************************************************************)
(* Calls, inheritance and imports.                                         *)
(***************************************************************************)
(* What is called, its type arguments left out. *)
ScalaCalled(i) ==
  LET fn == Field(i, "function")
  IN  IF Kind(fn) = "generic_function" THEN Field(fn, "function") ELSE fn

ScalaCallee(i) ==
  LET name == IF Kind(ScalaCalled(i)) = "field_expression" THEN Field(ScalaCalled(i), "field") ELSE ScalaCalled(i)
  IN  IF Kind(name) = "identifier" THEN name ELSE 0

ScalaReceiver(i) == IF Kind(ScalaCalled(i)) = "field_expression" THEN Field(ScalaCalled(i), "value") ELSE 0

(* A receiver counts as the own object only without type arguments. *)
ScalaCallReferences ==
  LET calls == {i \in OfKind({"call_expression"}) : ScalaCallee(i) # 0 /\ Long(ScalaCallee(i))}
      own == {i \in calls : /\ ScalaCalled(i) = Field(i, "function")
                            /\ Kind(ScalaReceiver(i)) = "identifier" /\ Text(ScalaReceiver(i)) = "this"}
  IN  MarkSelfReceiverCalls(
        Each(calls, LAMBDA i : CallTo(ScalaCallee(i), PathOf(ScalaReceiver(i)))), {ScalaCallee(i) : i \in own})

ScalaInheritance ==
  LET bases == UNION {NamedKids(i) : i \in OfKind({"extends_clause"})}
      NameOf(i) == IF Kind(i) \in {"generic_type", "stable_type_identifier"}
                   THEN SimpleTypeName(i, ".") ELSE Text(i)
  IN  Each({i \in bases : Kind(i) \in {"type_identifier", "identifier", "generic_type",
                                       "stable_type_identifier"}},
           LAMBDA i : RefAt(i, NameOf(i), "IsImplementation"))

(* All names of an import form one path, or the prefix of its selectors;   *)
(* wildcards and renamed names are left out.                               *)
ScalaSegment(i) ==
  {j \in NamedKids(i) : Kind(j) \in {"identifier", "operator_identifier"}}

ScalaSelected(i) ==
  LET listed == NamedKids(Child(i, "import_selectors"))
      First(s) == Least(NamedKids(s))
      kept == {s \in listed : Kind(s) = "import_selector" /\ Child(s, "=>") = 0}
  IN  IF Child(i, "import_selectors") = 0 THEN {Greatest(ScalaSegment(i))} \ {0}
      ELSE {j \in listed \cup {First(s) : s \in kept} : Kind(j) = "identifier"}

ScalaImports ==
  LET imports == OfKind({"import_declaration"})
      names == {j \in UNION {ScalaSelected(i) : i \in imports} : Text(j) \notin {"_", "*"}}
      Import(j) == Max(Above(j) \cap imports)
  IN  Each(names, LAMBDA j :
        ImportRef(j, Text(j), Each(ScalaSegment(Import(j)) \ {j}, LAMBDA s : Text(s))))

(***************************************************************************)
(* Types, reads and writes.                                                *)
(***************************************************************************)
ScalaNoNames == {"unit_type", "tuple_type", "function_type"}
ScalaTypeLeaves == {"type_identifier", "identifier", "stable_type_identifier", "generic_type"}

(* type_leaf: the outermost names; type arguments are not looked at. *)
ScalaNamedTypes(annotation) ==
  {j \in Within(annotation) :
     /\ Kind(j) \in ScalaTypeLeaves
     /\ \A up \in Above(j) \cap Within(annotation) : Kind(up) \notin ScalaNoNames \cup ScalaTypeLeaves}

ScalaAnnotation(i) ==
  CASE Kind(i) = "function_definition" -> Field(i, "return_type")
    [] Kind(i) \in DOMAIN ScalaValues \cup {"parameter", "class_parameter"} -> Field(i, "type")
    [] OTHER -> 0

ScalaTypeReferences ==
  Each(UNION {ScalaNamedTypes(ScalaAnnotation(i)) : i \in Nodes},
       LAMBDA j : TypeRefTo(j, SimpleTypeName(j, ".")))

ScalaIsNonReadPosition(i) ==
  LET up == Kind(Up(i))
  IN  \/ up \in {"call_expression", "generic_function"} /\ IsField(i, "function")
      \/ up \in ScalaItems \cup {"parameter", "class_parameter"} /\ IsField(i, "name")
      \/ up \in DOMAIN ScalaValues /\ IsField(i, "pattern")
      \/ up \in {"import_declaration", "import_selectors", "import_selector"}
      \/ up = "field_expression" /\ IsField(i, "field")
      \/ up = "assignment_expression" /\ IsField(i, "left")

ScalaIdentifiers == {i \in OfKind({"identifier"}) : Long(i)}

ScalaReads == {i \in ScalaIdentifiers : ~ScalaIsNonReadPosition(i)}
ScalaWrites == {i \in ScalaIdentifiers : Kind(Up(i)) = "assignment_expression" /\ IsField(i, "left")}

(***************************************************************************)
(* Scopes and bindings.                                                    *)
(***************************************************************************)
ScalaBodied == DOMAIN ScalaTypes \cup {"function_definition"}

(* The children of a node in which scopes are looked for. *)
ScalaEntered(i) == IF Kind(i) \in ScalaBodied THEN {Field(i, "body")} ELSE Kids(i)

ScalaIsBody(i) == IsField(i, "body") /\ Kind(Up(i)) \in ScalaBodied

ScalaOpening ==
  {i \in OfKind(ScalaBodied \cup {"block"}) :
     /\ ~ScalaIsBody(i)
     /\ \A up \in (Above(i) \cup {i}) \ {Root} : up \in ScalaEntered(Up(up))}

ScalaScopes == ScopeTree([i \in ScalaOpening |-> Span(i)])

(* scala_simple_type_name. *)
ScalaPlainTypeName(i) ==
  LET base == IF Kind(i) = "generic_type" THEN Field(i, "type") ELSE i
  IN  IF Kind(base) \in {"type_identifier", "stable_type_identifier"}
      THEN SimpleTypeName(base, ".") ELSE ""

(* The written type of a value, or the class it is made an instance of. *)
ScalaValueType(i) ==
  LET value == Field(i, "value")
      made == {j \in NamedKids(value) : ~IsField(j, "arguments") /\ Kind(j) # "template_body"}
  IN  IF Field(i, "type") # 0 THEN ScalaPlainTypeName(Field(i, "type"))
      ELSE IF Kind(value) = "instance_expression" THEN ScalaPlainTypeName(Least(made)) ELSE ""

ScalaParameters ==
  LET lists == {j \in OfKind({"parameters", "parameter_clause"}) :
                  Kind(Up(j)) = "function_definition"}
  IN  {j \in UNION {NamedKids(l) : l \in lists} :
         Kind(j) \in {"parameter", "class_parameter"} /\ Field(j, "name") # 0}

(* Values outside the file's own scope; those of a type are among them. *)
ScalaLocalBindings(scopes) ==
  LET patterns == {Field(i, "pattern") : i \in OfKind(DOMAIN ScalaValues)}
      locals == {j \in patterns : /\ Kind(j) = "identifier" /\ Long(j)
                                  /\ InnermostScope(Start(j), scopes) # 1}
  IN  Each(ScalaParameters, LAMBDA i :
             BindingAt(i, Text(Field(i, "name")), "Param", ScalaPlainTypeName(Field(i, "type")), scopes))
        \o Each(locals, LAMBDA j : BindingAt(j, Text(j), "Local", ScalaValueType(Up(j)), scopes))

(***************************************************************************)
(* extract_facts.                                                          *)
(***************************************************************************)
ScalaFacts ==
  LET refs == ScalaCallReferences \o ScalaInheritance \o ScalaImports \o ScalaTypeReferences
                \o Each(ScalaReads, LAMBDA i : RefTo(i, "Read"))
                \o Each(ScalaWrites, LAMBDA i : RefTo(i, "Write"))
  IN  FactsOf(ScalaCollectSymbols, <<ModuleSymbol(ScalaNamespaces)>>, refs, ScalaScopes, ScalaLocalBindings, <<>>)
=============================================================================
