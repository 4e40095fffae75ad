-------------------------- MODULE PythonExtractor --------------------------
(***************************************************************************)
(* extract/python.rs.                                                      *)
(***************************************************************************)
EXTENDS ExtractSupport

PythonNamespaces ==
  LET p == IF Len(path) > 1 /\ Head(path) = "src" THEN Tail(path) ELSE path
  IN  IF Last(p) = "__init__" THEN Front(p) ELSE p

(***************************************************************************)
(* Definitions of the module, and the methods of its classes.              *)
(***************************************************************************)
Containers == {"if_statement", "elif_clause", "else_clause", "try_statement", "except_clause",
               "except_group_clause", "finally_clause", "with_statement", "for_statement",
               "while_statement", "block"}

DefKinds == {"function_definition", "class_definition"}

OnlyUnderscores == {"", "_", "__", "___"}

ModuleLevel == {i \in Nodes \ {Root} : \A up \in Above(i) \ {Root} : Kind(up) \in Containers}

(* Decorators belong to the definition below them. *)
Decorated(i, kinds) == IF Kind(i) = "decorated_definition" THEN FirstOf(i, kinds) ELSE i

DefinitionName(i) == Child(Decorated(i, DefKinds), "identifier")

Definitions ==
  {i \in ModuleLevel : /\ Kind(Decorated(i, DefKinds)) \in DefKinds
                       /\ Text(DefinitionName(i)) \notin OnlyUnderscores}

AssignedName(i) ==
  LET assign == IF Kind(i) = "assignment" THEN i ELSE Child(i, "assignment")
      left == Field(assign, "left")
  IN  IF Kind(left) = "identifier" THEN left ELSE 0

Constants ==
  {i \in ModuleLevel : /\ Kind(i) \in {"expression_statement", "assignment"}
                       /\ Text(AssignedName(i)) \notin OnlyUnderscores}

ModuleMember(i) ==
  LET shape == CASE i \in Constants -> <<"Const", "Term">>
                 [] Kind(Decorated(i, DefKinds)) = "class_definition" -> <<"Class", "Type">>
                 [] OTHER -> <<"Function", "Method">>
      name == Text(IF i \in Constants THEN AssignedName(i) ELSE DefinitionName(i))
  IN  MakeSymbol(i, name, shape[1], Append(Namespaced(PythonNamespaces), <<shape[2], name>>))

(* Only of the classes right in the file. *)
Classes == {i \in Kids(Root) : Kind(Decorated(i, {"class_definition"})) = "class_definition"}

MethodName(m) == Child(Decorated(m, {"function_definition"}), "identifier")

MethodsOf(i) ==
  {m \in Kids(Field(Decorated(i, {"class_definition"}), "body")) :
     /\ Kind(Decorated(m, {"function_definition"})) = "function_definition"
     /\ Text(MethodName(m)) \notin OnlyUnderscores}

ClassMethods ==
  LET Owner(i) == Text(Child(Decorated(i, {"class_definition"}), "identifier"))
      Method(i, m) == MakeSymbol(m, Text(MethodName(m)), "Method",
                        MemberDescriptors(PythonNamespaces, Owner(i),
                                          <<"Method", Text(MethodName(m))>>))
  IN  FlattenSeq(Each({i \in Classes : Owner(i) # ""}, LAMBDA i :
        Each(MethodsOf(i), LAMBDA m : Method(i, m))))

CollectSymbols == Each(Definitions \cup Constants, ModuleMember)

(***************************************************************************)
(* Calls.                                                                  *)
(***************************************************************************)
Called(i) == Field(i, "function")
Callee(i) == CASE Kind(Called(i)) = "identifier" -> Called(i)
               [] Kind(Called(i)) = "attribute" -> Field(Called(i), "attribute")
               [] OTHER -> 0
Receiver(i) == Field(Called(i), "object")

CallExpressions == OfKind({"call"})

CallReferences ==
  LET calls == {i \in CallExpressions : Callee(i) # 0 /\ Long(Callee(i))}
      methods == {i \in calls : Kind(Receiver(i)) = "identifier"}
      own == {i \in methods : Text(Receiver(i)) = "self"}
  IN  MarkSelfReceiverCalls(
        MarkReceiverQualifierCalls(Each(calls, LAMBDA i : CallTo(Callee(i), <<>>)),
                                   {<<Callee(i), Receiver(i)>> : i \in methods}),
        {Callee(i) : i \in own})

(***************************************************************************)
(* Inheritance and imports.  An alias is not what an import is known by.   *)
(***************************************************************************)
Inheritance ==
  LET bases == UNION {NamedKids(Field(i, "superclasses")) : i \in OfKind({"class_definition"})}
      Name(i) == IF Kind(i) = "attribute" THEN Text(Field(i, "attribute")) ELSE Text(i)
  IN  Each({i \in bases : Kind(i) \in {"identifier", "attribute"}}, LAMBDA i :
        RefAt(i, Name(i), "IsImplementation"))

Identifiers(dotted) == {i \in Kids(dotted) : Kind(i) = "identifier"}

(* emit_module_path_refs: the modules a dotted name goes through. *)
ModulePathRefs(segments) == Each(segments, LAMBDA i : RefTo(i, "ModuleRef"))

ImportedNames(i) ==
  {IF Kind(n) = "aliased_import" THEN Field(n, "name") ELSE n :
     n \in {m \in Fields(i, "name") : Kind(m) \in {"dotted_name", "aliased_import"}}} \ {0}

FromImports(i) ==
  LET module == Field(i, "module_name")
      Imported(n) == ImportRef(n, SimpleTypeName(n, "."), PathOf(module))
  IN  ModulePathRefs(Identifiers(module)) \o Each(ImportedNames(i), Imported)

ModuleImports(i) ==
  LET Through(n) ==
        IF Kind(Up(n)) = "aliased_import" THEN {}
        ELSE Identifiers(n) \ {Greatest(Identifiers(n))}
      Imported(n) == Append(ModulePathRefs(Through(n)),
                            ImportRef(n, SimpleTypeName(n, "."), PathOf(n)))
  IN  FlattenSeq(Each(ImportedNames(i), Imported))

Imports ==
  FlattenSeq(Each(OfKind({"import_from_statement", "import_statement"}), LAMBDA i :
    IF Kind(i) = "import_statement" THEN ModuleImports(i) ELSE FromImports(i)))

(***************************************************************************)
(* Types, reads, writes and SQL.                                           *)
(***************************************************************************)
Annotations ==
  {Field(i, "type") : i \in OfKind({"typed_parameter", "typed_default_parameter", "assignment"})}
    \cup {Field(i, "return_type") : i \in OfKind({"function_definition"})}

(* emit_type_node: the children of a type in which names are looked for. *)
Parts(i) ==
  CASE Kind(i) \in {"type", "union_type"} -> NamedKids(i)
    [] Kind(i) = "generic_type" ->
         {h \in {Least(NamedKids(i))} : Kind(h) = "identifier"}
           \cup ({Child(i, "type_parameter")} \ {0})
    [] Kind(i) = "type_parameter" -> NamedKids(i)
    [] Kind(i) = "member_type" -> {Greatest({j \in NamedKids(i) : Kind(j) = "identifier"})} \ {0}
    [] OTHER -> {}

NamedTypes(annotation) ==
  {j \in Within(annotation) :
     /\ Kind(j) = "identifier"
     /\ \A up \in (Above(j) \cup {j}) \cap Below(annotation) : up \in Parts(Up(up))}

TypeReferences ==
  Each(UNION {NamedTypes(i) : i \in Annotations}, LAMBDA j : TypeRefTo(j, Text(j)))

IsNonReadPosition(i) ==
  LET up == Kind(Up(i))
  IN  \/ up = "call" /\ IsField(i, "function")
      \/ up \in DefKinds \cup {"default_parameter", "typed_default_parameter"}
           /\ IsField(i, "name")
      \/ up \in {"typed_parameter", "list_splat_pattern", "dictionary_splat_pattern"}
           /\ ~IsField(i, "type")
      \/ up = "assignment" /\ IsField(i, "left")
      \/ up = "attribute" /\ IsField(i, "attribute")
      \/ up \in {"parameters", "import_statement", "import_from_statement", "dotted_name",
                 "aliased_import", "type", "generic_type", "union_type", "member_type"}

Reads == {i \in OfKind({"identifier"}) : Long(i) /\ ~IsNonReadPosition(i)}

Assigned == {Field(i, "left") : i \in OfKind({"assignment"})}
Writes == {i \in Assigned : Kind(i) = "identifier" /\ Long(i)}

QueryBindings(rules) ==
  LET Argument(i, rule) == Nth(NamedKids(Field(i, "arguments")), rule.sql_arg)
      Of(i) == {r \in rules : r.lang = lang /\ r.construct = <<Text(Callee(i))>>}
      bound == UNION {{Argument(i, rule) : rule \in Of(i)} : i \in CallExpressions}
  IN  FlattenSeq(Each(bound \ {0}, LAMBDA i : EmbeddedSqlRefs(i, "string_content")))

(***************************************************************************)
(* Scopes and bindings: only functions open a scope.                       *)
(***************************************************************************)
Functions == OfKind({"function_definition"})

Opening ==
  {i \in Functions :
     \A up \in Above(i) \cap Functions : i \in Below(Field(up, "body"))}

Scopes == ScopeTree([i \in Opening |-> Span(i)])

TypeName(i) == SimpleTypeName(Field(i, "type"), ".")

ParameterIdent(i) ==
  LET name == CASE Kind(i) = "identifier" -> i
                [] Kind(i) \in {"default_parameter", "typed_default_parameter"} ->
                     Field(i, "name")
                [] Kind(i) \in {"typed_parameter", "list_splat_pattern",
                                "dictionary_splat_pattern"} ->
                     Least({j \in NamedKids(i) : Kind(j) = "identifier"})
                [] OTHER -> 0
  IN  IF Kind(name) = "identifier" THEN name ELSE 0

Parameters == UNION {NamedKids(Field(i, "parameters")) : i \in Functions}

LocalBindings(scopes) ==
  Each({i \in Parameters : ParameterIdent(i) # 0}, LAMBDA i :
        BindingAt(ParameterIdent(i), Text(ParameterIdent(i)), "Param", TypeName(i), scopes))
    \o Each({i \in Assigned : Kind(i) = "identifier"}, LAMBDA i :
        BindingAt(i, Text(i), "Local", TypeName(Up(i)), scopes))

(***************************************************************************)
(* extract_impl.                                                           *)
(***************************************************************************)
ExtractFacts(rules) ==
  LET refs == CallReferences \o Inheritance \o Imports \o TypeReferences
                \o Each(Reads, LAMBDA i : RefTo(i, "Read"))
                \o Each(Writes, LAMBDA i : RefTo(i, "Write")) \o QueryBindings(rules)
  IN  FactsOf(CollectSymbols, Append(ClassMethods, ModuleSymbol(PythonNamespaces)), refs, Scopes,
              LocalBindings, <<>>)
=============================================================================
