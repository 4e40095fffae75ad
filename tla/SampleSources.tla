--------------------------- MODULE SampleSources ---------------------------
(***************************************************************************)
(* Files of compiled languages, then of scripting and data languages, with *)
(* the syntax trees the parser hands to an extractor: sequences of nodes in*)
(* preorder, written down as nested terms.                                 *)
(*                                                                         *)
(* A node keeps its grammar kind and field name, its parent ("up", 0 for   *)
(* the root), the index of its last descendant and its bytes.  A leaf is   *)
(* one byte wide whatever its text, so that bytes only tell apart what     *)
(* stands where.  Punctuation that no extractor looks at is left out.      *)
(***************************************************************************)
EXTENDS Integers, Sequences, SequencesExt

Term(kind, field, text, named, kids) ==
  [kind |-> kind, field |-> field, text |-> text, named |-> named, kids |-> kids,
   mark |-> 0]

(* An inner node, a named leaf, an anonymous token. *)
N(kind, field, kids) == Term(kind, field, "", TRUE, kids)
L(kind, field, text) == Term(kind, field, text, TRUE, <<>>)
T(text) == Term(text, "", text, FALSE, <<>>)

(* A term as a field of its parent. *)
Of(field, term) == [term EXCEPT !.field = field]

(* What the language means by a name, which no extractor sees: the place   *)
(* that declares local number n, and a use of it.                          *)
Declares(n, leaf) == [leaf EXCEPT !.mark = n]
Means(n, leaf) == [leaf EXCEPT !.mark = -n]

RECURSIVE Lay(_, _, _, _)

(* The nodes of a term that starts at a byte and becomes node number "at". *)
Lay(term, at, up, byte) ==
  LET Put(laid, kid) ==
        LET nodes == Lay(kid, at + 1 + Len(laid.nodes), at, laid.end)
        IN  [nodes |-> laid.nodes \o nodes, end |-> Head(nodes).end]
      below == FoldLeft(Put, [nodes |-> <<>>,
                              end |-> byte + (IF term.text = "" THEN 0 ELSE 1)],
                        term.kids)
  IN  <<[kind |-> term.kind, field |-> term.field, text |-> term.text,
         named |-> term.named, mark |-> term.mark, up |-> up, last |-> at + Len(below.nodes),
         start |-> byte, end |-> below.end]>> \o below.nodes

Parse(term) == Lay(term, 1, 0, 0)

(***************************************************************************)
(* Rust files of a few items, with the tree the grammar gives them.        *)
(***************************************************************************)
RsId(field, name) == L("identifier", field, name)
RsTypeId(field, name) == L("type_identifier", field, name)
RsSelf(field) == L("self", field, "self")

RsBlock(field, statements) == N("block", field, <<T("{")>> \o statements \o <<T("}")>>)
RsParam(n, name, type) ==
  N("parameter", "", <<Declares(n, RsId("pattern", name)), type>>)
RsFn(n, name, params, statements) ==
    N("function_item", "",
      <<Declares(n, RsId("name", name)), N("parameters", "parameters", <<T("(")>> \o params \o <<T(")")>>),
        RsBlock("body", statements)>>)

RsLet(n, name, value) ==
  N("let_declaration", "", <<T("let"), Declares(n, RsId("pattern", name)), value>>)
RsScoped(field, left, right) ==
  N("scoped_identifier", field, <<RsId("path", left), T("::"), RsId("name", right)>>)
RsAccess(field, value, name) ==
  N("field_expression", field, <<value, T("."), L("field_identifier", "field", name)>>)
RsCall(field, callee, args) ==
  N("call_expression", field, <<callee, N("arguments", "arguments", <<T("(")>> \o args)>>)
RsClosure(field, n, name, body) ==
  N("closure_expression", field,
    <<N("closure_parameters", "parameters", <<Declares(n, RsId("", name))>>), body>>)
RsGeneric(field, base, arg) ==
  N("generic_type", field,
    <<RsTypeId("type", base),
      N("type_arguments", "type_arguments", <<T("<"), RsTypeId("", arg), T(">")>>)>>)

(* Statements that use the locals `item` (1) and `size` (2) or the         *)
(* function `helper` (101), and the locals that the k-th of them declares. *)
RsStatements(k) ==
  {RsCall("", Means(101, RsId("function", "helper")), <<Means(1, RsId("", "item"))>>),
   RsCall("", RsAccess("function", RsId("value", "item"), "close"), <<>>),
   RsCall("", RsAccess("function", RsSelf("value"), "close"), <<Means(2, RsId("", "size"))>>),
   RsCall("", RsScoped("function", "Store", "open"), <<RsAccess("", RsSelf("value"), "limit")>>),
   N("assignment_expression", "",
     <<Means(2, RsId("left", "size")), T("="), RsAccess("right", RsId("value", "item"), "count")>>),
   RsBlock("", <<RsLet(k, "item", L("integer_literal", "value", "1")), Means(k, RsId("", "item"))>>),
   RsLet(k, "total", RsClosure("value", k + 1, "item", Means(k + 1, RsId("body", "item")))),
   N("macro_invocation", "",
     <<RsId("macro", "format"), N("token_tree", "", <<RsId("", "item")>>)>>)}

RsBodies ==
  {<<RsLet(2, "size", RsCall("value", RsScoped("function", "Limits", "new"), <<>>)), s, t,
     Means(1, RsId("", "item"))>> : s \in RsStatements(3), t \in RsStatements(5)}

RsSelfParam == N("self_parameter", "", <<T("&"), RsSelf("")>>)
RsMethod(statements) ==
  RsFn(102, "drain", <<RsSelfParam, RsParam(1, "item", RsGeneric("type", "Vec", "Entry"))>>, statements)

RsStruct ==
  N("struct_item", "",
    <<RsTypeId("name", "Store"),
      N("field_declaration_list", "body",
        <<N("field_declaration", "", <<L("field_identifier", "name", "limit"),
                                       RsTypeId("type", "Limits")>>)>>)>>)
RsImpl(statements) ==
  N("impl_item", "",
    <<RsTypeId("type", "Store"), N("declaration_list", "body", <<RsMethod(statements)>>)>>)
RsImplTrait ==
  N("impl_item", "",
    <<RsTypeId("trait", "Drain"), RsTypeId("type", "Store"),
      N("declaration_list", "body", <<RsFn(103, "close", <<RsSelfParam>>, <<>>)>>)>>)

RsUses ==
  {N("use_declaration", "",
     <<N("visibility_modifier", "", <<T("pub")>>), RsScoped("argument", "crate", "Limits")>>),
   N("use_declaration", "",
     <<N("scoped_use_list", "argument",
         <<RsId("path", "store"), T("::"),
           N("use_list", "list",
             <<RsId("", "Entry"),
               N("use_as_clause", "", <<RsId("path", "open"), RsId("alias", "reopen")>>)>>)>>)>>)}

RsExported(name) ==
  <<N("attribute_item", "", <<T("#["), N("attribute", "", <<RsId("", "no_mangle")>>), T("]")>>),
    RsFn(101, name, <<>>, <<>>)>>

RsFile(items) == Parse(N("source_file", "", items))

RustSources ==
  {[lang |-> "rust", file |-> "src/store.rs", path |-> <<"src", "store">>,
    tree |-> RsFile(<<use, RsStruct, RsImpl(body), RsImplTrait>> \o RsExported("helper"))] :
     use \in RsUses, body \in RsBodies}

(***************************************************************************)
(* Java classes, with the trees the grammar gives them.                    *)
(***************************************************************************)
JaId(field, name) == L("identifier", field, name)
JaTypeId(field, name) == L("type_identifier", field, name)
JaThis(field) == L("this", field, "this")

JaArgs(args) == N("argument_list", "arguments", args)
JaInvoke(field, object, name, args) ==
  N("method_invocation", field, object \o <<JaId("name", name), JaArgs(args)>>)
JaNew(class) == N("object_creation_expression", "value", <<JaTypeId("type", class), JaArgs(<<>>)>>)
JaExpression(e) == N("expression_statement", "", <<e>>)
JaAccess(field, object, name) ==
  N("field_access", field, <<object, T("."), JaId("field", name)>>)
JaGeneric(field, base, arg) ==
  N("generic_type", field, <<JaTypeId("", base), N("type_arguments", "", <<T("<"), arg, T(">")>>)>>)

JaLocal(n, type, name, value) ==
  N("local_variable_declaration", "",
    <<JaTypeId("type", type),
      N("variable_declarator", "declarator", <<Declares(n, JaId("name", name)), T("="), value>>)>>)
JaParam(n, type, name) == N("formal_parameter", "", <<type, Declares(n, JaId("name", name))>>)
JaParams(params) == N("formal_parameters", "parameters", params)
JaBlock(field, statements) == N("block", field, <<T("{")>> \o statements \o <<T("}")>>)
JaModifiers(word) == N("modifiers", "", <<T(word)>>)

JaMethod(modifier, n, name, params, statements) ==
  N("method_declaration", "",
    <<JaModifiers(modifier), JaTypeId("type", "Entry"), Declares(n, JaId("name", name)), JaParams(params),
      JaBlock("body", statements)>>)
JaNative ==
  N("method_declaration", "",
    <<JaModifiers("native"), L("void_type", "type", "void"), JaId("name", "flush"), JaParams(<<>>)>>)
JaFieldDecl(name) ==
  N("field_declaration", "",
    <<JaModifiers("private"), JaTypeId("type", "Limits"),
      N("variable_declarator", "declarator", <<Declares(102, JaId("name", name))>>)>>)

(* Uses of the locals `item` (1) and `size` (2), of the method `helper`    *)
(* (101) and of the field `limit` (102).                                   *)
JaLambda(k) ==
  N("lambda_expression", "value",
    <<Declares(k, JaId("parameters", "item")), Means(k, JaId("body", "item"))>>)
JaStatements(k) ==
  {JaExpression(N("method_invocation", "",
     <<Means(101, JaId("name", "helper")), JaArgs(<<Means(1, JaId("", "item"))>>)>>)),
   JaExpression(JaInvoke("", <<JaId("object", "item"), T(".")>>, "close", <<>>)),
   JaExpression(JaInvoke("", <<JaThis("object"), T(".")>>, "close", <<Means(2, JaId("", "size"))>>)),
   JaExpression(N("assignment_expression", "",
     <<Means(2, JaId("left", "size")), T("="), JaAccess("right", JaThis("object"), "limit")>>)),
   JaBlock("", <<JaLocal(k, "Entry", "fresh", JaNew("Entry")), Means(k, JaId("", "fresh")),
                 Means(102, JaId("", "limit"))>>),
   JaLocal(k + 1, "var", "total", JaLambda(k)),
   N("enhanced_for_statement", "",
     <<JaTypeId("type", "Entry"), Declares(k, JaId("name", "each")), Means(1, JaId("value", "item")),
       JaBlock("body", <<Means(k, JaId("", "each"))>>)>>)}

JaBodies ==
  {<<JaLocal(2, "var", "size", JaNew("Limits")), s, t, Means(1, JaId("", "item"))>> :
     s \in JaStatements(3), t \in JaStatements(5)}

JaScoped(field, scope, name) ==
  N("scoped_identifier", field, <<JaId("scope", scope), T("."), JaId("name", name)>>)
JaImport == N("import_declaration", "", <<T("import"), JaScoped("", "limits", "Limits")>>)
JaPackage == N("package_declaration", "", <<T("package"), JaScoped("", "app", "store")>>)

JaClass(statements) ==
  N("class_declaration", "",
    <<JaId("name", "Store"),
      N("superclass", "superclass", <<T("extends"), JaTypeId("", "Base")>>),
      N("super_interfaces", "interfaces", <<T("implements"),
        N("type_list", "", <<JaTypeId("", "Drain"), JaGeneric("", "Source", JaTypeId("", "Entry"))>>)>>),
      N("class_body", "body",
        <<JaFieldDecl("limit"), JaNative,
          JaMethod("public", 103, "drain",
                   <<JaParam(1, JaGeneric("type", "List", N("wildcard", "", <<JaTypeId("", "Entry")>>)),
                             "item")>>, statements),
          JaMethod("static", 101, "helper", <<>>, <<>>)>>)>>)

JaEnum ==
  N("enum_declaration", "",
    <<JaId("name", "Mode"),
      N("enum_body", "body",
        <<N("enum_constant", "", <<JaId("name", "FAST")>>),
          N("enum_body_declarations", "", <<JaMethod("static", 104, "next", <<>>, <<>>)>>)>>)>>)

JavaSources ==
  {[lang |-> "java", file |-> "src/Store.java", path |-> <<"src", "Store">>,
    tree |-> Parse(N("program", "", header \o <<JaImport, JaClass(body), JaEnum>>))] :
     header \in {<<>>, <<JaPackage>>}, body \in JaBodies}

(***************************************************************************)
(* Kotlin files, with the trees the grammar gives them.                    *)
(***************************************************************************)
KtId(name) == L("identifier", "", name)
KtType(name) == N("user_type", "", <<KtId(name)>>)
KtListOf(name) ==
  N("user_type", "", <<KtId("List"), N("type_arguments", "",
                                       <<N("type_projection", "", <<KtType(name)>>)>>)>>)

KtNavigate(receiver, name) == N("navigation_expression", "", <<receiver, T("."), KtId(name)>>)
KtCall(callee, args) == N("call_expression", "", <<callee, N("value_arguments", "", args)>>)
KtThis == L("this_expression", "", "this")
KtBlock(statements) == N("block", "", <<T("{")>> \o statements \o <<T("}")>>)

KtVariable(n, name, type) == N("variable_declaration", "", <<Declares(n, KtId(name))>> \o type)
KtProperty(word, variable, value) ==
  N("property_declaration", "", <<T(word), variable, T("="), value>>)
KtParam(n, name, type) == N("parameter", "", <<Declares(n, KtId(name)), T(":"), type>>)
KtName(n, name) == Declares(n, L("identifier", "name", name))

KtFn(n, name, params, body) ==
    N("function_declaration", "",
      <<T("fun"), KtName(n, name), N("function_value_parameters", "", params), KtType("Entry"),
        N("function_body", "", body)>>)

KtLambda(k) ==
  N("lambda_literal", "",
    <<N("lambda_parameters", "", <<KtVariable(k, "item", <<>>)>>), Means(k, KtId("item"))>>)

(* Uses of the locals `item` (1) and `size` (2), of the method `helper`    *)
(* (101) and of the property `limit` (102).                                *)
KtStatements(k) ==
  {KtCall(Means(101, KtId("helper")), <<Means(1, KtId("item"))>>),
   KtCall(KtNavigate(KtId("item"), "close"), <<>>),
   KtCall(KtNavigate(KtThis, "close"), <<Means(2, KtId("size"))>>),
   N("assignment", "", <<Means(2, L("identifier", "left", "size")), T("="),
                         KtNavigate(KtThis, "limit")>>),
   N("if_expression", "",
     <<Means(102, KtId("limit")), KtBlock(<<KtProperty("val", KtVariable(k, "item", <<>>), KtId("null")),
                                            Means(k, KtId("item"))>>)>>),
   KtProperty("val", KtVariable(k + 1, "total", <<>>), KtLambda(k)),
   N("for_statement", "",
     <<KtVariable(k, "each", <<>>), Means(1, KtId("item")), KtBlock(<<Means(k, KtId("each"))>>)>>)}

KtBodies ==
  {<<KtProperty("var", KtVariable(2, "size", <<>>), KtCall(KtId("Limits"), <<>>)), s, t,
     Means(1, KtId("item"))>> : s \in KtStatements(3), t \in KtStatements(5)}

KtImport ==
  N("import", "", <<T("import"), N("qualified_identifier", "",
                                   <<KtId("app"), T("."), KtId("Limits")>>)>>)
KtPackage == N("package_header", "", <<T("package"), N("qualified_identifier", "",
                                                       <<KtId("app"), T("."), KtId("store")>>)>>)

KtClass(statements) ==
  N("class_declaration", "",
    <<T("class"), KtName(103, "Store"),
      N("delegation_specifiers", "",
        <<N("delegation_specifier", "", <<N("constructor_invocation", "", <<KtType("Base")>>)>>)>>),
      N("class_body", "",
        <<KtProperty("val", KtVariable(102, "limit", <<KtType("Limits")>>), KtId("null")),
          KtFn(104, "drain", <<KtParam(1, "item", KtListOf("Entry"))>>, <<KtBlock(statements)>>),
          N("companion_object", "",
            <<N("class_body", "", <<KtFn(101, "helper", <<KtParam(20, "size", KtType("Limits"))>>,
                                         <<T("="), Means(20, KtId("size"))>>)>>)>>)>>)>>)

KtEnum ==
  N("class_declaration", "",
    <<T("enum"), T("class"), KtName(105, "Mode"),
      N("enum_class_body", "", <<N("enum_entry", "", <<KtId("FAST")>>)>>)>>)

KotlinSources ==
  {[lang |-> "kotlin", file |-> "src/Store.kt", path |-> <<"src", "Store">>,
    tree |-> Parse(N("source_file", "", <<KtPackage, KtImport, KtClass(body), KtEnum>>))] :
     body \in KtBodies}

(***************************************************************************)
(* Scala files, with the trees the grammar gives them.                     *)
(***************************************************************************)
ScId(name) == L("identifier", "", name)
ScType(name) == L("type_identifier", "type", name)
ScGeneric(field, name, arg) ==
  N("generic_type", field,
    <<L("type_identifier", "type", name), N("type_arguments", "type_arguments", <<Of("", ScType(arg))>>)>>)

ScFieldOf(value, name) ==
  N("field_expression", "", <<Of("value", value), T("."), L("identifier", "field", name)>>)
ScCall(callee, args) ==
  N("call_expression", "", <<Of("function", callee), N("arguments", "arguments", args)>>)
ScTyped(callee) ==
  N("generic_function", "", <<Of("function", callee), N("type_arguments", "", <<Of("", ScType("Entry"))>>)>>)
ScAssign(left, right) ==
  N("assignment_expression", "", <<Of("left", left), T("="), Of("right", right)>>)
ScBlock(statements) == N("block", "", <<T("{")>> \o statements \o <<T("}")>>)

ScValue(kind, n, name, type, value) ==
  N(kind, "", <<Declares(n, L("identifier", "pattern", name))>> \o type
                \o <<T("="), Of("value", value)>>)
ScParam(n, name, type) ==
  N("parameter", "", <<Declares(n, L("identifier", "name", name)), T(":"), type>>)
ScDef(n, name, params, body) ==
  N("function_definition", "",
    <<T("def"), Declares(n, L("identifier", "name", name)), N("parameters", "parameters", params),
      T(":"), Of("return_type", ScGeneric("", "List", "Entry")), T("="), Of("body", body)>>)

(* Uses of the locals `item` (1) and `size` (2), of the function `helper`  *)
(* (101) and of the value `limit` (102).                                   *)
ScStatements(k) ==
  {ScCall(Means(101, ScId("helper")), <<Means(1, ScId("item"))>>),
   ScCall(ScFieldOf(Means(1, ScId("item")), "close"), <<Means(2, ScId("size"))>>),
   ScCall(ScFieldOf(ScId("this"), "close"), <<Means(2, ScId("size"))>>),
   ScCall(ScTyped(ScFieldOf(ScFieldOf(Means(1, ScId("item")), "held"), "sweep")), <<Means(102, ScId("limit"))>>),
   ScAssign(Means(2, ScId("size")), ScFieldOf(Means(1, ScId("item")), "limit")),
   N("if_expression", "",
     <<T("if"), Of("condition", Means(102, ScId("limit"))),
       Of("consequence",
          ScBlock(<<ScValue("val_definition", k, "item", <<>>, Means(2, ScId("size"))),
                    ScCall(Means(101, ScId("helper")), <<Means(k, ScId("item"))>>)>>))>>),
   ScDef(0, "each", <<ScParam(k, "item", ScType("Entry"))>>, Means(k, ScId("item"))),
   ScValue("val_definition", 0, "other", <<ScType("Entry")>>, Means(1, ScId("item")))}

ScMade ==
  N("instance_expression", "", <<T("new"), Of("", ScType("Limits")), N("arguments", "arguments", <<>>)>>)

ScBodies ==
  {<<ScValue("var_definition", 2, "size", <<>>, ScMade), s, t, Means(1, ScId("item"))>> :
     s \in ScStatements(3), t \in ScStatements(5)}

ScPackage(names) ==
  N("package_clause", "", <<T("package"), N("package_identifier", "name", names)>>)
ScImport(segments, last) ==
  N("import_declaration", "", <<T("import")>> \o [n \in DOMAIN segments |-> L("identifier", "path", segments[n])]
                                \o last)
ScSelectors ==
  N("import_selectors", "",
    <<L("identifier", "", "Entry"), N("import_selector", "", <<ScId("Slot")>>),
      N("import_selector", "", <<ScId("Limits"), T("=>"), ScId("Bounds")>>)>>)

ScClass(statements) ==
  N("class_definition", "",
    <<Declares(103, L("identifier", "name", "Store")),
      N("class_parameters", "class_parameters",
        <<N("class_parameter", "", <<L("identifier", "name", "held"), ScGeneric("type", "List", "Entry")>>)>>),
      N("extends_clause", "extend",
        <<ScGeneric("type", "Base", "Entry"), T("with"), ScType("Closing")>>),
      N("template_body", "body",
        <<ScDef(104, "drain", <<ScParam(1, "item", ScType("Entry"))>>, ScBlock(statements)),
          N("type_definition", "", <<L("type_identifier", "name", "Slots"), ScGeneric("type", "List", "Slot")>>)>>)>>)
ScTrait ==
  N("trait_definition", "", <<Declares(105, L("identifier", "name", "Closing")),
                              N("template_body", "body", <<>>)>>)
ScObject ==
  N("object_definition", "",
    <<Declares(106, L("identifier", "name", "Store")),
      N("template_body", "body", <<ScDef(0, "main", <<>>, ScCall(ScId("sweep"), <<>>))>>)>>)
ScEnum ==
  N("enum_definition", "",
    <<Declares(107, L("identifier", "name", "Mode")),
      N("enum_body", "body",
        <<N("enum_case_definitions", "", <<N("simple_enum_case", "", <<L("identifier", "name", "Fast")>>)>>)>>)>>)

ScItems(body) ==
  <<ScImport(<<"app", "store">>, <<ScSelectors>>), ScImport(<<"app", "Base">>, <<>>),
    ScTrait, ScClass(body), ScObject, ScEnum,
    ScDef(101, "helper", <<ScParam(20, "size", ScType("Limits"))>>, Means(20, ScId("size"))),
    ScValue("val_definition", 102, "limit", <<ScType("Count")>>, L("integer_literal", "", "8"))>>

ScalaSources ==
  {[lang |-> "scala", file |-> "src/Store.scala", path |-> <<"src", "Store">>,
    tree |-> Parse(N("compilation_unit", "", head \o ScItems(body)))] :
     body \in ScBodies, head \in {<<ScPackage(<<ScId("app"), T("."), ScId("store")>>)>>}}
    \cup
  {[lang |-> "scala", file |-> "src/Store.scala", path |-> <<"src", "Store">>,
    tree |-> Parse(N("compilation_unit", "", ScItems(<<>>)))]}

(***************************************************************************)
(* Swift files, with the trees the grammar gives them.                     *)
(***************************************************************************)
SwId(name) == L("simple_identifier", "", name)

SwTypeId(name) == L("type_identifier", "", name)
SwType(name) == N("user_type", "", <<SwTypeId(name)>>)
SwListOf(name) ==
  N("user_type", "", <<SwTypeId("List"), N("type_arguments", "", <<SwType(name)>>)>>)

SwNavigate(target, name) ==
  N("navigation_expression", "",
    <<Of("target", target), N("navigation_suffix", "suffix", <<T("."), Of("suffix", SwId(name))>>)>>)
SwArgument(value) == N("value_argument", "", <<Of("value", value)>>)
SwCall(callee, args) ==
  N("call_expression", "", <<callee, N("call_suffix", "", <<N("value_arguments", "", args)>>)>>)
SwSelf == L("self_expression", "", "self")
SwSequence(statements) == N("statements", "", statements)

SwPattern(field, n, name) ==
  N("pattern", field, <<Declares(n, L("simple_identifier", "bound_identifier", name))>>)
SwProperty(word, n, name, type, value) ==
  N("property_declaration", "",
    <<N("value_binding_pattern", "", <<Of("mutability", T(word))>>), SwPattern("name", n, name)>>
      \o type \o <<T("="), Of("value", value)>>)
SwAnnotation(type) == <<N("type_annotation", "", <<T(":"), Of("type", type)>>)>>
SwParam(n, name, type) ==
  N("parameter", "", <<Declares(n, L("simple_identifier", "name", name)), T(":"),
                       Of("type", type)>>)
SwFn(n, name, params, body) ==
    N("function_declaration", "",
      <<T("func"), Declares(n, L("simple_identifier", "name", name))>> \o params
        \o <<T("->"), Of("return_type", N("optional_type", "", <<Of("wrapped", SwType("Entry"))>>)),
             N("function_body", "body", <<SwSequence(body)>>)>>)

SwLambda(k) ==
  N("lambda_literal", "",
    <<N("lambda_function_type", "type",
        <<N("lambda_function_type_parameters", "",
            <<N("lambda_parameter", "", <<Declares(k, L("simple_identifier", "name", "item"))>>)>>)>>),
      T("in"), SwSequence(<<Means(k, SwId("item"))>>)>>)

(* Uses of the locals `item` (1) and `size` (2), of the method `helper`    *)
(* (101) and of the property `limit` (102).                                *)
SwStatements(k) ==
  {SwCall(Means(101, SwId("helper")), <<SwArgument(Means(1, SwId("item")))>>),
   SwCall(SwNavigate(SwId("item"), "close"), <<>>),
   SwCall(SwNavigate(SwSelf, "close"), <<SwArgument(Means(2, SwId("size")))>>),
   N("assignment", "",
     <<N("directly_assignable_expression", "target", <<Means(2, SwId("size"))>>), T("="),
       Of("result", SwNavigate(SwSelf, "limit"))>>),
   N("if_statement", "",
     <<T("if"), Of("condition", Means(102, SwId("limit"))),
       SwSequence(<<SwProperty("let", k, "item", <<>>, L("nil", "", "nil")), Means(k, SwId("item"))>>)>>),
   SwProperty("let", k + 1, "total", <<>>, SwLambda(k)),
   N("for_statement", "",
     <<T("for"), SwPattern("item", k, "each"), T("in"), Of("collection", Means(1, SwId("item"))),
       SwSequence(<<Means(k, SwId("each"))>>)>>)}

SwBodies ==
  {<<SwProperty("var", 2, "size", SwAnnotation(SwType("Limits")), SwCall(SwId("Limits"), <<>>)), s, t,
     Means(1, SwId("item"))>> : s \in SwStatements(3), t \in SwStatements(5)}

SwImport ==
  N("import_declaration", "",
    <<T("import"), N("identifier", "", <<SwId("App"), T("."), SwId("Limits")>>)>>)

SwDeclare(word, name, n, bases, body) ==
  N("class_declaration", "",
    <<Of("declaration_kind", T(word)), Of("name", Declares(n, name))>>
      \o [b \in DOMAIN bases |->
            N("inheritance_specifier", "", <<Of("inherits_from", SwType(bases[b]))>>)]
      \o <<N(IF word = "enum" THEN "enum_class_body" ELSE "class_body", "body", body)>>)

SwClass(statements) ==
  SwDeclare("class", SwTypeId("Store"), 103, <<"Base">>,
    <<SwProperty("let", 102, "limit", SwAnnotation(SwType("Limits")), L("nil", "", "nil")),
      N("init_declaration", "",
        <<T("init"), SwParam(21, "seed", SwType("Limits")),
          N("function_body", "body", <<SwSequence(<<Means(21, SwId("seed"))>>)>>)>>),
      SwFn(104, "drain", <<SwParam(1, "item", SwListOf("Entry"))>>, statements)>>)

SwExtension ==
  SwDeclare("extension", SwType("Store"), 0, <<>>,
    <<SwFn(101, "helper", <<SwParam(20, "size", N("array_type", "", <<Of("element", SwType("Entry"))>>))>>,
           <<Means(20, SwId("size"))>>)>>)

SwEnum ==
  SwDeclare("enum", SwTypeId("Mode"), 105, <<>>,
    <<N("enum_entry", "", <<T("case"), L("simple_identifier", "name", "fast")>>)>>)

SwProtocol ==
  N("protocol_declaration", "",
    <<T("protocol"), Declares(106, L("type_identifier", "name", "Closing")),
      N("protocol_body", "body",
        <<N("protocol_function_declaration", "",
            <<T("func"), L("simple_identifier", "name", "close")>>),
          N("protocol_property_declaration", "",
            <<SwPattern("name", 0, "open")>> \o SwAnnotation(SwType("Limits")))>>)>>)

SwFile(items) ==
  [lang |-> "swift", file |-> "Sources/Store.swift", path |-> <<"Sources", "Store">>,
   tree |-> Parse(N("source_file", "", items))]

SwiftSources == {SwFile(<<SwClass(body), SwExtension, SwEnum, SwProtocol>>) : body \in SwBodies}

(* With an import, whose path the grammar makes of plain names. *)
SwImportSources == {SwFile(<<SwImport, SwEnum>>)}

(***************************************************************************)
(* Dart files, with the trees the grammar gives them.                      *)
(***************************************************************************)
DaId(name) == L("identifier", "", name)
DaName(n, name) == Declares(n, L("identifier", "name", name))

DaTypeId(name) == L("type_identifier", "", name)
DaType(name) == N("type", "", <<DaTypeId(name)>>)
DaListOf(name) ==
  N("type", "", <<DaTypeId("List"), N("type_arguments", "", <<T("<"), DaType(name), T(">")>>)>>)

DaMember(object, property) ==
  N("member_expression", "", <<Of("object", object), T("."), Of("property", DaId(property))>>)
DaCall(callee, args) ==
  N("call_expression", "", <<Of("function", callee), N("arguments", "arguments", args)>>)
DaAssign(left, right) ==
  N("assignment_expression", "",
    <<N("assignable_expression", "left", left), T("="), Of("right", right)>>)
DaDoes(expression) == N("expression_statement", "", <<expression>>)
DaBlock(statements) == N("block", "", <<T("{")>> \o statements \o <<T("}")>>)
DaLocal(type, n, name, value) ==
  N("local_variable_declaration", "",
    <<N("initialized_variable_definition", "",
        type \o <<DaName(n, name), T("="), Of("value", value)>>)>>)

(* A parameter is identified by where it starts. *)
DaParam(n, type, name) ==
  Declares(n, N("formal_parameter", "", <<type, L("identifier", "name", name)>>))
DaSignature(field, n, name, params) ==
  N("function_signature", field,
    <<Of("return_type", DaType("Entry")), DaName(n, name),
      N("formal_parameter_list", "parameters", params)>>)
DaBody(statements) == N("function_body", "body", <<DaBlock(statements)>>)
DaMethod(n, name, params, statements) ==
  N("class_member", "",
    <<N("method_declaration", "",
        <<N("method_signature", "signature", <<DaSignature("", n, name, params)>>),
          DaBody(statements)>>)>>)

(* Uses of the locals `item` (1) and `size` (2), of the function `helper`  *)
(* (101) and of the variable `limit` (102).                                *)
DaStatements(k) ==
  {DaDoes(DaCall(Means(101, DaId("helper")), <<Means(1, DaId("item"))>>)),
   DaDoes(DaCall(DaMember(Means(1, DaId("item")), "close"), <<Means(2, DaId("size"))>>)),
   DaDoes(DaCall(DaMember(T("this"), "close"), <<Means(2, DaId("size"))>>)),
   DaDoes(DaAssign(<<Means(2, DaId("size"))>>, DaMember(Means(1, DaId("item")), "limit"))),
   DaDoes(DaAssign(<<Means(1, DaId("item")), T("."), DaId("limit")>>, Means(102, DaId("limit")))),
   N("if_statement", "",
     <<T("if"), Means(102, DaId("limit")),
       DaBlock(<<DaLocal(<<>>, k, "item", L("null_literal", "", "null")),
                 DaDoes(Means(k, DaId("item")))>>)>>),
   N("local_variable_declaration", "",
     <<N("initialized_variable_definition", "",
         <<DaType("Limits"), DaName(k, "left"), T("="), Of("value", Means(1, DaId("item"))),
           N("initialized_identifier", "", <<DaName(k + 1, "right"), T("="),
                                             Of("value", Means(k, DaId("left")))>>)>>)>>)}

DaBodies ==
  {<<DaLocal(<<DaType("Limits")>>, 2, "size", DaCall(DaId("Limits"), <<>>)), s, t,
     DaDoes(Means(1, DaId("item")))>> : s \in DaStatements(3), t \in DaStatements(5)}

DaImport(uri, names) ==
  N("import_or_export", "",
    <<N("library_import", "",
        <<N("import_specification", "",
            <<T("import"), N("configurable_uri", "uri", <<L("string_literal", "", uri)>>)>>
              \o names)>>)>>)
DaShown == DaImport("limits.dart", <<N("combinator", "", <<T("show"), DaId("Limits")>>)>>)
DaPrefixed == DaImport("entry.dart", <<T("as"), DaId("entry")>>)

DaVariable(kind, n, name, type) ==
  N(kind, "",
    <<type, N("initialized_identifier_list", "", <<N("initialized_identifier", "",
                                                     <<DaName(n, name)>>)>>)>>)
DaClass(statements) ==
  N("class_declaration", "",
    <<T("class"), DaName(103, "Store"), N("superclass", "superclass", <<T("extends"), DaType("Base")>>),
      N("interfaces", "interfaces", <<T("implements"), DaType("Closing")>>),
      N("class_body", "body",
        <<N("class_member", "", <<DaVariable("declaration", 106, "held", DaListOf("Entry"))>>),
          N("class_member", "",
            <<N("declaration", "", <<N("constructor_signature", "", <<DaName(0, "Store")>>)>>)>>),
          DaMethod(104, "drain", <<DaParam(1, DaType("Entry"), "item")>>, statements)>>)>>)
DaMixin ==
  N("mixin_declaration", "",
    <<T("mixin"), DaName(107, "Sweeping"), T("on"), DaType("Base"), N("class_body", "body", <<>>)>>)
DaEnum ==
  N("enum_declaration", "",
    <<T("enum"), DaName(105, "Mode"),
      N("enum_body", "body", <<N("enum_constant", "", <<L("identifier", "name", "fast")>>)>>)>>)
DaHelper ==
  N("function_declaration", "",
    <<DaSignature("signature", 101, "helper", <<DaParam(20, DaType("Limits"), "size")>>),
      DaBody(<<DaDoes(Means(20, DaId("size")))>>)>>)

DartSources ==
  {[lang |-> "dart", file |-> "lib/store.dart", path |-> <<"lib", "store">>,
    tree |-> Parse(N("program", "",
               <<DaShown, DaPrefixed, DaVariable("top_level_variable_declaration", 102, "limit",
                                                 DaType("Limits")),
                 DaClass(body), DaMixin, DaEnum, DaHelper>>))] : body \in DaBodies}

(***************************************************************************)
(* Solidity files, with the trees the grammar gives them.                  *)
(***************************************************************************)
SoId(name) == L("identifier", "", name)
SoExpr(term) == N("expression", "", <<term>>)
SoUse(n, name) == SoExpr(Means(n, SoId(name)))
SoName(n, name) == Declares(n, L("identifier", "name", name))

SoType(name) == N("type_name", "type", <<N("user_defined_type", "", <<SoId(name)>>)>>)
SoMapping(key, value) ==
  N("type_name", "type", <<N("mapping", "", <<Of("key", SoType(key)), Of("value", SoType(value))>>)>>)

SoMember(object, property) ==
  SoExpr(N("member_expression", "", <<Of("object", object), T("."), Of("property", SoId(property))>>))
SoCall(callee, args) ==
  SoExpr(N("call_expression", "",
           <<Of("function", callee)>> \o [a \in DOMAIN args |-> N("call_argument", "", <<args[a]>>)]))
SoAssign(kind, left, right) ==
  SoExpr(N(kind, "", <<Of("left", left), T("="), Of("right", right)>>))
SoDoes(expression) == N("expression_statement", "", <<expression>>)
SoBlock(statements) == N("block_statement", "", <<T("{")>> \o statements \o <<T("}")>>)
SoLocal(n, name, type, value) ==
  N("variable_declaration_statement", "",
    <<N("variable_declaration", "", <<SoType(type), SoName(n, name)>>), T("="), Of("value", value)>>)
SoParam(n, name, type) == N("parameter", "", <<type, SoName(n, name)>>)
SoFn(kind, name, params, body) ==
    N(kind, "", name \o params
                  \o <<N("return_type_definition", "", <<N("parameter", "", <<SoType("Entry")>>)>>),
                       N("function_body", "body", body)>>)

(* Uses of the locals `item` (1) and `size` (2), of the function `helper`  *)
(* (101) and of the state variable `limit` (102).                          *)
SoStatements(k) ==
  {SoDoes(SoCall(SoUse(101, "helper"), <<SoUse(1, "item")>>)),
   SoDoes(SoCall(SoMember(SoUse(1, "item"), "close"), <<SoUse(2, "size")>>)),
   SoDoes(SoAssign("assignment_expression", SoUse(2, "size"), SoMember(SoUse(1, "item"), "limit"))),
   SoDoes(SoAssign("augmented_assignment_expression", SoUse(2, "size"), SoUse(102, "limit"))),
   N("if_statement", "",
     <<T("if"), Of("condition", SoUse(102, "limit")),
       SoBlock(<<SoLocal(k, "item", "Entry", SoExpr(L("number_literal", "", "0"))),
                 SoDoes(SoUse(k, "item"))>>)>>),
   N("variable_declaration_statement", "",
     <<N("variable_declaration_tuple", "",
         <<Declares(k, SoId("left")), N("variable_declaration", "",
                                        <<SoType("Entry"), SoName(k + 1, "right")>>)>>),
       T("="), Of("value", SoUse(1, "item"))>>),
   N("for_statement", "",
     <<SoBlock(<<SoDoes(SoUse(2, "size"))>>), Of("condition", SoUse(1, "item"))>>)}

SoBodies ==
  {<<SoLocal(2, "size", "Limits", SoCall(SoExpr(SoId("Limits")), <<>>)), s, t, SoDoes(SoUse(1, "item"))>> :
     s \in SoStatements(3), t \in SoStatements(5)}

SoImport ==
  N("import_directive", "", <<T("import"), L("identifier", "import_name", "Limits"),
                              L("string", "source", "./Limits.sol")>>)
SoBase == N("inheritance_specifier", "",
            <<N("user_defined_type", "ancestor", <<SoId("app"), T("."), SoId("Base")>>)>>)

SoContract(statements) ==
  N("contract_declaration", "",
    <<T("contract"), SoName(103, "Store"), SoBase,
      N("contract_body", "body",
        <<N("state_variable_declaration", "", <<SoMapping("Key", "Entry"), SoName(102, "limit")>>),
          N("struct_declaration", "",
            <<T("struct"), SoName(105, "Entry"),
              N("struct_body", "body", <<N("struct_member", "", <<SoType("Limits"), SoName(0, "held")>>)>>)>>),
          N("enum_declaration", "",
            <<T("enum"), SoName(106, "Mode"), N("enum_body", "body", <<L("enum_value", "", "FAST")>>)>>),
          N("event_definition", "", <<T("event"), SoName(107, "Drained")>>),
          SoFn("constructor_definition", <<T("constructor")>>, <<SoParam(21, "seed", SoType("Limits"))>>,
               <<SoDoes(SoUse(21, "seed"))>>),
          SoFn("fallback_receive_definition", <<T("receive")>>, <<>>, <<>>),
          SoFn("function_definition", <<T("function"), SoName(104, "drain")>>, <<SoParam(1, "item", SoType("Entry"))>>,
               statements)>>)>>)

SoHelper ==
  SoFn("function_definition", <<T("function"), SoName(101, "helper")>>, <<SoParam(20, "size", SoType("Limits"))>>,
       <<SoDoes(SoUse(20, "size"))>>)

SoliditySources ==
  {[lang |-> "solidity", file |-> "src/Store.sol", path |-> <<"src", "Store">>,
    tree |-> Parse(N("source_file", "", <<SoImport, SoContract(body), SoHelper>>))] : body \in SoBodies}

(***************************************************************************)
(* Go files, with the trees the grammar gives them.                        *)
(***************************************************************************)
GoId(field, name) == L("identifier", field, name)
GoTypeId(field, name) == L("type_identifier", field, name)
GoPointer(field, name) == N("pointer_type", field, <<GoTypeId("", name)>>)
GoSlice(field, name) == N("slice_type", field, <<GoTypeId("element", name)>>)

GoList(field, expressions) == N("expression_list", field, expressions)
GoSelect(field, operand, name) ==
  N("selector_expression", field, <<GoId("operand", operand), T("."),
                                    L("field_identifier", "field", name)>>)
GoCall(field, callee, args) ==
  N("call_expression", field, <<callee, N("argument_list", "arguments", args)>>)
GoLiteral(type) ==
  N("composite_literal", "", <<GoTypeId("type", type), N("literal_value", "body", <<>>)>>)
GoShort(names, values) ==
  N("short_var_declaration", "", <<GoList("left", names), T(":="), GoList("right", values)>>)
GoAssign(name, value) ==
  N("assignment_statement", "", <<GoList("left", <<name>>), T("="), GoList("right", <<value>>)>>)
GoBlock(field, statements) == N("block", field, <<T("{")>> \o statements \o <<T("}")>>)

GoParam(n, name, type) == N("parameter_declaration", "", <<Declares(n, GoId("name", name)), type>>)
GoParams(field, params) == N("parameter_list", field, params)

GoFn(n, name, params, statements) ==
    N("function_declaration", "",
      <<T("func"), Declares(n, GoId("name", name)), GoParams("parameters", params),
        GoBlock("body", statements)>>)
GoMethod(name, params, statements) ==
  N("method_declaration", "",
    <<T("func"), GoParams("receiver", <<GoParam(3, "own", GoPointer("type", "Store"))>>),
      L("field_identifier", "name", name), GoParams("parameters", params),
      GoParams("result", <<GoParam(4, "err", GoTypeId("type", "Error"))>>), GoBlock("body", statements)>>)

(* Uses of the locals `item` (1), `size` (2) and `own` (3), of the         *)
(* function `helper` (101) and of the variable `limit` (102).              *)
GoLiterals(k) ==
  N("func_literal", "",
    <<T("func"), GoParams("parameters", <<GoParam(k, "item", GoTypeId("type", "Entry"))>>),
      GoBlock("body", <<Means(k, GoId("", "item"))>>)>>)
GoStatements(k) ==
  {GoCall("", Means(101, GoId("function", "helper")), <<Means(1, GoId("", "item"))>>),
   GoCall("", GoSelect("function", "item", "close"), <<Means(3, GoId("", "own"))>>),
   GoAssign(Means(2, GoId("", "size")), Means(102, GoId("", "limit"))),
   GoBlock("", <<GoShort(<<Declares(k, GoId("", "item"))>>, <<GoLiteral("Entry")>>),
                 Means(k, GoId("", "item"))>>),
   GoShort(<<Declares(k + 1, GoId("", "total"))>>, <<GoLiterals(k)>>),
   N("for_statement", "",
     <<N("range_clause", "", <<GoList("left", <<GoId("", "_"), Declares(k, GoId("", "each"))>>),
                               Means(1, GoId("right", "item"))>>),
       GoBlock("body", <<Means(k, GoId("", "each"))>>)>>)}

GoBodies ==
  {<<GoShort(<<Declares(2, GoId("", "size")), GoId("", "_")>>, <<GoLiteral("Limits"), GoLiteral("Limits")>>),
     s, t, Means(1, GoId("", "item"))>> : s \in GoStatements(5), t \in GoStatements(7)}

GoImport ==
  N("import_declaration", "",
    <<N("import_spec", "",
        <<N("interpreted_string_literal", "path", <<T("app"), T("/"), T("limits")>>)>>)>>)

GoTypes ==
  N("type_declaration", "",
    <<N("type_spec", "",
        <<GoTypeId("name", "Store"),
          N("struct_type", "type", <<N("field_declaration", "",
              <<L("field_identifier", "name", "limit"), GoPointer("type", "Limits")>>)>>)>>),
      N("type_alias", "", <<GoTypeId("name", "Entries"), GoSlice("type", "Entry")>>)>>)
GoVariable ==
  N("var_declaration", "",
    <<N("var_spec", "", <<Declares(102, GoId("name", "limit")), GoTypeId("type", "Limits")>>)>>)

GoSources ==
  {[lang |-> "go", file |-> "store/store.go", path |-> <<"store", "store">>,
    tree |-> Parse(N("source_file", "",
      <<N("package_clause", "", <<L("package_identifier", "", "store")>>), GoImport, GoTypes, GoVariable,
        GoMethod("drain", <<GoParam(1, "item", GoSlice("type", "Entry"))>>, body),
        GoFn(101, "helper", <<>>, <<>>)>>))] : body \in GoBodies}

(***************************************************************************)
(* Pascal files, with the trees the grammar gives them.                    *)
(***************************************************************************)
PaId(name) == L("identifier", "", name)
PaTypeRef(name) == N("typeref", "", <<PaId(name)>>)
PaType(inner) == N("type", "type", <<inner>>)
PaModuleName(name) == N("moduleName", "", <<PaId(name)>>)

PaDot(lhs, name) == N("exprDot", "", <<Of("lhs", lhs), T("."), L("identifier", "rhs", name)>>)
PaCall(entity, args) ==
  N("exprCall", "", <<Of("entity", entity), N("exprArgs", "args", args)>>)
PaAssign(left, right) ==
  N("assignment", "", <<Of("lhs", left), T(":="), Of("rhs", right)>>)
PaDoes(expression) == N("statement", "", <<expression>>)
PaBlock(statements) == N("block", "", <<T("begin")>> \o statements \o <<T("end")>>)

PaName(n, name) == Declares(n, L("identifier", "name", name))
PaArg(names, type) == N("declArg", "", names \o <<PaType(type)>>)
PaHeader(name, args) ==
  N("declProc", "header",
    <<T("function"), name, N("declArgs", "args", args), Of("type", PaTypeRef("TEntry"))>>)
PaRoutine(name, args, statements) ==
  N("defProc", "", <<PaHeader(name, args), Of("body", PaBlock(statements))>>)

(* Uses of the parameters `item` (1) and `size` (2) and of the function    *)
(* `helper` (101).                                                         *)
PaStatements ==
  {PaDoes(PaCall(Means(101, PaId("helper")), <<Means(1, PaId("item"))>>)),
   PaDoes(PaCall(PaDot(Means(1, PaId("item")), "close"), <<Means(2, PaId("size"))>>)),
   PaDoes(PaCall(PaDot(PaDot(PaId("held"), "first"), "close"), <<Means(2, PaId("size"))>>)),
   PaAssign(Means(2, PaId("size")), PaDot(Means(1, PaId("item")), "limit")),
   N("if", "", <<T("if"), Of("condition", Means(2, PaId("size"))),
                 Of("then", PaBlock(<<PaDoes(Means(1, PaId("item")))>>))>>),
   N("varAssignDef", "", <<T("var"), PaId("other"), PaTypeRef("TEntry"), T(":="), Means(101, PaCall(PaId("helper"), <<>>))>>)}

PaBodies == {<<s, t, PaDoes(Means(1, PaId("item")))>> : s \in PaStatements, t \in PaStatements}

PaDecl(name, inner) == N("declType", "", <<name, PaType(inner)>>)
PaSection(keyword, members) == N("declSection", "", <<L(keyword, "", keyword)>> \o members)
PaMember(name, args) ==
  N("declProc", "", <<T("function"), name, N("declArgs", "args", args), Of("type", PaTypeRef("TEntry"))>>)

PaDeclared ==
  N("declTypes", "",
    <<T("type"),
      PaDecl(PaName(103, "TStore"),
        N("declClass", "",
          <<L("kClass", "", "class"), PaTypeRef("TBase"),
            PaSection("kPrivate", <<N("declField", "", <<L("identifier", "name", "FHeld"), PaType(PaTypeRef("TEntry"))>>)>>),
            PaSection("kPublic", <<PaMember(L("identifier", "name", "Drain"), <<PaArg(<<PaName(20, "item")>>, PaTypeRef("TEntry"))>>)>>)>>)),
      PaDecl(PaName(104, "TLimits"),
        N("declClass", "",
          <<L("kRecord", "", "record"),
            N("declField", "", <<L("identifier", "name", "limit"), PaType(L("declString", "", "string"))>>)>>)),
      PaDecl(PaName(105, "IClosing"), N("declIntf", "", <<PaTypeRef("IBase"), PaMember(L("identifier", "name", "close"), <<>>)>>)),
      PaDecl(PaName(106, "TMode"),
        N("declEnum", "", <<N("declEnumValue", "", <<L("identifier", "name", "mdFast")>>)>>)),
      PaDecl(PaName(107, "TSlots"), N("declArray", "", <<PaTypeRef("TEntry")>>))>>)

PaUses == N("declUses", "", <<T("uses"), PaModuleName("SysUtils"), PaModuleName("Entries")>>)
PaHelper == PaRoutine(PaName(101, "helper"), <<PaArg(<<PaName(21, "size")>>, PaTypeRef("TLimits"))>>, <<PaDoes(Means(21, PaId("size")))>>)
PaDrain(statements) ==
  PaRoutine(N("genericDot", "name", <<L("identifier", "lhs", "TStore"), T("."), L("identifier", "rhs", "Drain")>>),
            <<PaArg(<<PaName(1, "item"), PaName(2, "size")>>, PaTypeRef("TEntry"))>>, statements)

Pascal(top) ==
  [lang |-> "pascal", file |-> "src/Store.pas", path |-> <<"src", "Store">>,
   tree |-> Parse(N("root", "", <<top>>))]

PascalSources ==
  {Pascal(N("unit", "",
     <<T("unit"), PaModuleName("Store"), N("interface", "", <<PaUses, PaDeclared>>),
       N("implementation", "", <<PaHelper, PaDrain(body)>>)>>)) : body \in PaBodies}
    \cup {Pascal(N("program", "", <<PaHelper, PaDrain(body)>>)) : body \in {<<s>> : s \in PaStatements}}

(***************************************************************************)
(* C++ files, with the trees the grammar gives them.                       *)
(***************************************************************************)
CxId(name) == L("identifier", "", name)
CxTypeId(name) == L("type_identifier", "type", name)
CxTemplate(name, arg) ==
  N("template_type", "type",
    <<L("type_identifier", "name", name),
      N("template_argument_list", "", <<N("type_descriptor", "", <<CxTypeId(arg)>>)>>)>>)

CxFieldOf(argument, name) ==
  N("field_expression", "",
    <<Of("argument", argument), T("."), L("field_identifier", "field", name)>>)
CxCall(callee, args) ==
  N("call_expression", "", <<Of("function", callee), N("argument_list", "arguments", args)>>)
CxAssign(left, right) ==
  N("assignment_expression", "", <<Of("left", left), T("="), Of("right", right)>>)
CxDoes(expression) == N("expression_statement", "", <<expression>>)
CxBlock(statements) == N("compound_statement", "", <<T("{")>> \o statements \o <<T("}")>>)
CxThis == L("this", "", "this")

(* A local is identified by where its declarator starts. *)
CxPlain(n, name) == Declares(n, L("identifier", "declarator", name))
CxInit(n, name, value) ==
  Declares(n, N("init_declarator", "declarator",
                <<L("identifier", "declarator", name), T("="), Of("value", value)>>))
CxReference(n, name) == Declares(n, N("reference_declarator", "declarator", <<T("&"), CxId(name)>>))
CxDeclaration(type, declarators) == N("declaration", "", <<type>> \o declarators)
CxParam(type, declarator) == N("parameter_declaration", "", <<type, declarator>>)

CxFunction(name, params) ==
  N("function_declarator", "declarator",
    <<Of("declarator", name), N("parameter_list", "parameters", params)>>)
CxFn(type, declarator, statements) ==
    N("function_definition", "", <<type, declarator, Of("body", CxBlock(statements))>>)

CxLambda(k) ==
  N("lambda_expression", "",
    <<N("lambda_capture_specifier", "captures", <<T("[")>>),
      N("abstract_function_declarator", "declarator",
        <<N("parameter_list", "parameters", <<CxParam(CxTypeId("Entry"), CxPlain(k, "item"))>>)>>),
      Of("body", CxBlock(<<CxDoes(Means(k, CxId("item")))>>))>>)

(* Uses of the locals `item` (1) and `size` (2), of the function `helper`  *)
(* (101) and of the variable `limit` (102).                                *)
CxStatements(k) ==
  {CxDoes(CxCall(Means(101, CxId("helper")), <<Means(1, CxId("item"))>>)),
   CxDoes(CxCall(CxFieldOf(Means(1, CxId("item")), "close"), <<Means(2, CxId("size"))>>)),
   CxDoes(CxCall(CxFieldOf(CxThis, "close"), <<Means(2, CxId("size"))>>)),
   CxDoes(CxCall(N("qualified_identifier", "", <<L("namespace_identifier", "scope", "app"), T("::"),
                                                 L("identifier", "name", "sweep")>>), <<>>)),
   CxDoes(CxAssign(Means(2, CxId("size")), CxFieldOf(Means(1, CxId("item")), "limit"))),
   N("if_statement", "",
     <<T("if"), Means(102, CxId("limit")),
       CxBlock(<<CxDeclaration(CxTypeId("Entry"), <<CxPlain(k, "item")>>), CxDoes(Means(k, CxId("item")))>>)>>),
   CxDeclaration(CxTypeId("Sweep"), <<CxInit(k + 1, "total", CxLambda(k))>>),
   N("for_range_loop", "",
     <<T("for"), CxTypeId("Entry"), CxPlain(k, "each"), Of("right", Means(1, CxId("item"))),
       Of("body", CxBlock(<<CxDoes(Means(k, CxId("each")))>>))>>)}

CxBodies ==
  {<<CxDeclaration(CxTypeId("Limits"), <<CxInit(2, "size", CxCall(CxId("Limits"), <<>>))>>), s, t,
     CxDoes(Means(1, CxId("item")))>> : s \in CxStatements(3), t \in CxStatements(5)}

CxRecord(kind, n, name, bases, members) ==
  N(kind, "", <<Declares(n, L("type_identifier", "name", name))>> \o bases
                \o <<N("field_declaration_list", "body", members)>>)
CxMember(type, declarator) == N("field_declaration", "", <<type, declarator>>)
CxFieldName(n, name) == Declares(n, L("field_identifier", "declarator", name))

CxClass(statements) ==
  CxRecord("class_specifier", 103, "Store",
    <<N("base_class_clause", "", <<N("qualified_identifier", "",
        <<L("namespace_identifier", "scope", "app"), T("::"),
          L("type_identifier", "name", "Base")>>)>>)>>,
    <<L("access_specifier", "", "public"),
      CxMember(CxTemplate("List", "Entry"), CxFieldName(106, "held")),
      CxMember(CxTypeId("Entry"), CxFunction(CxFieldName(0, "next"), <<>>)),
      CxRecord("struct_specifier", 107, "Slot", <<>>, <<CxMember(CxTypeId("Entry"), CxFieldName(0, "entry"))>>),
      CxFn(CxTypeId("Entry"), CxFunction(CxFieldName(104, "drain"), <<CxParam(CxTypeId("Entry"), CxReference(1, "item"))>>),
           statements)>>)

CxHelper ==
  CxFn(CxTypeId("Entry"), CxFunction(CxPlain(101, "helper"), <<CxParam(CxTypeId("Limits"), CxPlain(20, "size"))>>),
       <<CxDoes(Means(20, CxId("size")))>>)
CxOutOfLine ==
  N("template_declaration", "",
    <<T("template"),
      CxFn(CxTypeId("Entry"),
           CxFunction(N("qualified_identifier", "",
                        <<L("namespace_identifier", "scope", "Store"), T("::"),
                          L("identifier", "name", "sweep")>>), <<CxParam(CxTypeId("Entry"), CxPlain(21, "seed"))>>),
           <<CxDoes(Means(21, CxId("seed")))>>)>>)

CxNamespace(items) ==
  N("namespace_definition", "",
    <<T("namespace"), L("namespace_identifier", "name", "app"), N("declaration_list", "body", items)>>)
CxMacro == N("preproc_def", "", <<T("#define"), L("identifier", "name", "MAX")>>)
CxEnum ==
  N("type_definition", "",
    <<T("typedef"),
      N("enum_specifier", "type", <<Declares(105, L("type_identifier", "name", "Mode")),
                                    N("enumerator_list", "body", <<L("enumerator", "", "FAST")>>)>>),
      L("type_identifier", "declarator", "mode_t")>>)
CxAlias == N("alias_declaration", "", <<T("using"), L("type_identifier", "name", "Slots"), T("="),
                                        N("type_descriptor", "type", <<CxTemplate("List", "Slot")>>)>>)

CppSources ==
  {[lang |-> "cpp", file |-> "src/store.cpp", path |-> <<"src", "store">>,
    tree |-> Parse(N("translation_unit", "",
               <<CxMacro, CxEnum, CxAlias, CxDeclaration(CxTypeId("Limits"), <<CxPlain(102, "limit")>>),
                 CxNamespace(<<CxClass(body), CxHelper, CxOutOfLine>>)>>))] : body \in CxBodies}

(***************************************************************************)
(* C files, with the trees the grammar gives them, where those differ from *)
(* the trees of C++.                                                       *)
(***************************************************************************)
CTagged(tag) == N("struct_specifier", "type", <<L("type_identifier", "name", tag)>>)
CPointer(declarator) == N("pointer_declarator", "declarator", <<T("*"), declarator>>)
CParenthesized(declarator) ==
  N("parenthesized_declarator", "declarator", <<T("("), Of("", declarator), T(")")>>)

CStatements(k) ==
  {CxDoes(CxCall(Means(101, CxId("helper")), <<Means(1, CxId("item"))>>)),
   CxDoes(CxCall(CxFieldOf(Means(1, CxId("item")), "close"), <<Means(2, CxId("size"))>>)),
   CxDoes(CxAssign(Means(2, CxId("size")), CxFieldOf(Means(1, CxId("item")), "limit"))),
   N("if_statement", "",
     <<T("if"), Means(102, CxId("limit")),
       CxBlock(<<CxDeclaration(CTagged("Entry"), <<CPointer(CxPlain(0, "other")), CxPlain(k, "item")>>),
                 CxDoes(Means(k, CxId("item")))>>)>>),
   N("for_statement", "",
     <<T("for"), CxDeclaration(CxTypeId("Count"), <<CxInit(k, "each", Means(102, CxId("limit")))>>),
       CxBlock(<<CxDoes(Means(k, CxId("each")))>>)>>),
   CxBlock(<<CxDeclaration(CxTypeId("Count"), <<CxInit(k, "item", Means(2, CxId("size")))>>),
             CxDoes(CxCall(Means(101, CxId("helper")), <<Means(k, CxId("item"))>>))>>)}

CBodies ==
  {<<CxDeclaration(CxTypeId("Count"), <<CxInit(2, "size", Means(102, CxId("limit")))>>), s, t,
     CxDoes(Means(1, CxId("item")))>> : s \in CStatements(3), t \in CStatements(5)}

CStruct ==
  CxRecord("struct_specifier", 103, "Entry", <<>>,
           <<CxMember(CTagged("Entry"), CPointer(CxFieldName(0, "next")))>>)
CHelper ==
  CxFn(CTagged("Entry"), Of("declarator", CPointer(CxFunction(CxPlain(101, "helper"),
         <<CxParam(CxTypeId("Limits"), CxPlain(20, "size")), CxParam(CxTypeId("Void"), T(""))>>))),
       <<CxDoes(Means(20, CxId("size")))>>)
CDrain(statements) ==
  CxFn(CxTypeId("Count"), CxFunction(CxPlain(104, "Java_Store_drain"), <<CxParam(CTagged("Entry"), CxPlain(1, "item"))>>),
       statements)
Callback ==
  N("type_definition", "",
    <<T("typedef"), CxTypeId("Count"),
      CxFunction(CParenthesized(CPointer(L("type_identifier", "declarator", "sweep_fn"))), <<>>)>>)
CLimit ==
  N("init_declarator", "declarator",
    <<CxPlain(102, "limit"), T("="), L("number_literal", "value", "8")>>)
CMacroCall ==
  N("preproc_function_def", "", <<T("#define"), L("identifier", "name", "CLAMP"),
                                  N("preproc_params", "parameters", <<>>)>>)

CSources ==
  {[lang |-> "c", file |-> "src/store.c", path |-> <<"src", "store">>,
    tree |-> Parse(N("translation_unit", "",
               <<CxMacro, CMacroCall, CStruct, CxEnum, Callback,
                 CxDeclaration(CxTypeId("Count"), <<CLimit>>),
                 CHelper, CDrain(body)>>))] : body \in CBodies}

(***************************************************************************)
(* C# files, with the trees the grammar gives them.                        *)
(***************************************************************************)
CsId(name) == L("identifier", "", name)
CsType(name) == L("identifier", "type", name)
CsGeneric(field, name, arg) ==
  N("generic_name", field,
    <<L("identifier", "name", name), N("type_argument_list", "", <<T("<"), CsId(arg), T(">")>>)>>)
CsQualified(segments) ==
  N("qualified_name", "", <<L("identifier", "qualifier", segments[1]), T("."),
                            L("identifier", "name", segments[2])>>)

CsFieldOf(expression, name) ==
  N("member_access_expression", "", <<Of("expression", expression), T("."), Of("name", name)>>)
CsCall(callee, args) ==
  N("invocation_expression", "", <<Of("function", callee), N("argument_list", "arguments", args)>>)
CsNew(type) ==
  N("object_creation_expression", "", <<T("new"), Of("type", type), N("argument_list", "arguments", <<>>)>>)
CsAssign(left, right) ==
  N("assignment_expression", "", <<Of("left", left), T("="), Of("right", right)>>)
CsDoes(expression) == N("expression_statement", "", <<expression>>)
CsBlock(statements) == N("block", "", <<T("{")>> \o statements \o <<T("}")>>)
CsThis == T("this")

CsDeclarator(n, name, value) ==
  N("variable_declarator", "", <<Declares(n, L("identifier", "name", name))>> \o value)
CsDeclaration(type, declarators) == N("variable_declaration", "", <<type>> \o declarators)
CsLocal(type, n, name, value) ==
  N("local_declaration_statement", "", <<CsDeclaration(type, <<CsDeclarator(n, name, <<T("="), value>>)>>)>>)
CsVar == L("implicit_type", "type", "var")

CsParam(n, name, type) == N("parameter", "", <<type, Declares(n, L("identifier", "name", name))>>)
CsMethod(n, name, returns, params, body) ==
  N("method_declaration", "",
    <<Of("returns", returns), Declares(n, L("identifier", "name", name)),
      N("parameter_list", "parameters", params), Of("body", body)>>)

(* What two clauses of one block catch has two names: both count as        *)
(* parameters of the block, and of parameters the last one is seen.        *)
CsFault(k) == IF k = 3 THEN "fault" ELSE "error"

(* Uses of the locals `item` (1) and `size` (2) and of the type `Slot`     *)
(* (101).                                                                  *)
CsStatements(k) ==
  {CsDoes(CsCall(CsFieldOf(Means(1, CsId("item")), CsId("Close")), <<Means(2, CsId("size"))>>)),
   CsDoes(CsCall(CsFieldOf(CsThis, CsId("Close")), <<CsNew(CsQualified(<<"App", "Limits">>))>>)),
   CsDoes(CsCall(CsFieldOf(CsFieldOf(CsThis, CsId("held")), CsGeneric("", "Sweep", "Entry")), <<Means(1, CsId("item"))>>)),
   CsDoes(CsCall(CsFieldOf(T("base"), CsId("Close")), <<Means(1, CsId("item"))>>)),
   CsDoes(CsAssign(Means(2, CsId("size")), CsFieldOf(Means(1, CsId("item")), CsId("limit")))),
   N("if_statement", "",
     <<T("if"), Of("condition", Means(2, CsId("size"))),
       Of("consequence", CsBlock(<<CsLocal(CsType("Entry"), k, "other", Means(1, CsId("item"))),
                                   CsDoes(CsCall(CsId("Sweep"), <<Means(k, CsId("other"))>>))>>))>>),
   N("for_each_statement", "",
     <<T("foreach"), Of("type", CsVar), Declares(k, L("identifier", "left", "each")),
       Of("right", Means(1, CsId("item"))), Of("body", CsBlock(<<CsDoes(Means(k, CsId("each")))>>))>>),
   N("try_statement", "",
     <<T("try"), Of("body", CsBlock(<<CsDoes(Means(1, CsId("item")))>>)),
       N("catch_clause", "",
         <<N("catch_declaration", "declaration",
             <<CsType("Fault"), Declares(k, L("identifier", "name", CsFault(k)))>>),
           Of("body", CsBlock(<<CsDoes(Means(k, CsId(CsFault(k))))>>))>>)>>)}

CsBodies ==
  {<<CsLocal(CsVar, 2, "size", CsNew(Means(101, CsId("Slot")))), s, t, CsDoes(Means(1, CsId("item")))>> :
     s \in CsStatements(3), t \in CsStatements(5)}

CsUsing(name) == N("using_directive", "", <<T("using"), name>>)
CsMembers(list) == N("declaration_list", "body", <<T("{")>> \o list \o <<T("}")>>)
CsNullable(name) == N("nullable_type", "type", <<Of("", CsType(name)), T("?")>>)

CsClass(statements) ==
  N("class_declaration", "",
    <<Declares(103, L("identifier", "name", "Store")),
      N("base_list", "", <<T(":"), CsQualified(<<"App", "Base">>), T(","), CsId("IClosing")>>),
      CsMembers(
        <<N("field_declaration", "", <<CsDeclaration(CsGeneric("type", "List", "Entry"),
            <<CsDeclarator(0, "held", <<>>), CsDeclarator(0, "kept", <<>>)>>)>>),
          N("property_declaration", "",
            <<CsNullable("Entry"), L("identifier", "name", "First"),
              N("accessor_list", "accessors", <<CsBlock(<<CsDoes(CsId("held"))>>)>>)>>),
          N("constructor_declaration", "",
            <<L("identifier", "name", "Store"),
              N("parameter_list", "parameters", <<CsParam(20, "seed", CsType("Entry"))>>),
              Of("body", CsBlock(<<CsDoes(Means(20, CsId("seed")))>>))>>),
          CsMethod(104, "Drain", N("predefined_type", "", <<T("void")>>),
                   <<CsParam(1, "item", CsType("Entry"))>>, CsBlock(statements)),
          CsMethod(0, "First", CsId("Entry"), <<CsParam(21, "seed", CsNullable("Limits"))>>,
                   N("arrow_expression_clause", "", <<T("=>"), Means(21, CsId("seed"))>>)),
          N("class_declaration", "", <<L("identifier", "name", "Inner"), CsMembers(<<>>)>>)>>)>>)
CsRecord ==
  N("record_declaration", "", <<Declares(101, L("identifier", "name", "Slot")),
                                N("parameter_list", "parameters", <<CsParam(0, "entry", CsType("Entry"))>>)>>)
CsEnum ==
  N("enum_declaration", "",
    <<L("identifier", "name", "Mode"),
      N("enum_member_declaration_list", "body",
        <<N("enum_member_declaration", "", <<L("identifier", "name", "Fast")>>)>>)>>)
CsNamespace(kind, last) ==
  N(kind, "", <<T("namespace"), Of("name", CsQualified(<<"App", "Storage">>))>> \o last)

CsItems(body) ==
  <<CsUsing(CsQualified(<<"App", "Base">>)), CsUsing(CsId("System")), CsRecord, CsEnum, CsClass(body)>>

CsCSharp(items) ==
  [lang |-> "csharp", file |-> "src/Store.cs", path |-> <<"src", "Store">>,
   tree |-> Parse(N("compilation_unit", "", items))]

(* Declared for the rest of the file, as a block, or not at all. *)
CSharpSources ==
  {CsCSharp(<<CsNamespace("file_scoped_namespace_declaration", <<>>)>> \o CsItems(body)) : body \in CsBodies}
    \cup {CsCSharp(<<CsNamespace("namespace_declaration", <<CsMembers(CsItems(body))>>)>>) : body \in {<<>>}}
    \cup {CsCSharp(CsItems(body)) : body \in {<<>>}}


(***************************************************************************)
(* TypeScript modules and CommonJS scripts, with the trees the grammar     *)
(* gives them.                                                             *)
(***************************************************************************)
TsId(field, name) == L("identifier", field, name)
TsTypeId(name) == L("type_identifier", "", name)
TsProp(field, name) == L("property_identifier", field, name)
TsThis(field) == L("this", field, "this")

TsQuoted(field, tokens) ==
  N("string", field, <<N("string_fragment", "", [n \in DOMAIN tokens |-> T(tokens[n])])>>)
TsBlock(statements) == N("statement_block", "body", <<T("{")>> \o statements \o <<T("}")>>)
TsArgs(args) == N("arguments", "arguments", <<T("(")>> \o args \o <<T(")")>>)
TsCall(field, callee, args) == N("call_expression", field, <<callee, TsArgs(args)>>)
TsAccess(field, object, name) ==
  N("member_expression", field, <<object, T("."), TsProp("property", name)>>)
TsExpression(e) == N("expression_statement", "", <<e>>)
TsAssign(left, right) == N("assignment_expression", "", <<left, T("="), right>>)

TsAnnotated(types) == N("type_annotation", "type", <<T(":")>> \o types)
TsGeneric(base, arg) ==
  N("generic_type", "",
    <<TsTypeId(base), N("type_arguments", "", <<T("<"), TsTypeId(arg), T(">")>>)>>)
TsParam(n, name) ==
  N("required_parameter", "",
    <<Declares(n, TsId("pattern", name)), TsAnnotated(<<TsGeneric("Array", "Entry")>>)>>)
TsParams(params) == N("formal_parameters", "parameters", <<T("(")>> \o params \o <<T(")")>>)

TsDeclarator(n, name, more) ==
  N("variable_declarator", "", <<Declares(n, TsId("name", name))>> \o more)
TsLet(n, name, more) ==
  N("lexical_declaration", "", <<T("let"), TsDeclarator(n, name, more)>>)
TsNew(class) == <<T("="), N("new_expression", "value", <<TsId("constructor", class), TsArgs(<<>>)>>)>>
TsArrow(n, name, body) ==
  N("arrow_function", "value", <<Declares(n, TsId("parameter", name)), body>>)

TsFn(n, name, params, statements) ==
    N("function_declaration", "", <<T("function"), Declares(n, TsId("name", name)), TsParams(params),
                                    TsBlock(statements)>>)
TsMethod(params, statements) ==
  N("method_definition", "", <<TsProp("name", "drain"), TsParams(params), TsBlock(statements)>>)

(* Uses of the locals `item` (1) and `size` (2) and of the function        *)
(* `helper` (101), and what the k-th statement declares.                   *)
TsStatements(k) ==
  {TsExpression(TsCall("", Means(101, TsId("function", "helper")), <<Means(1, TsId("", "item"))>>)),
   TsExpression(TsCall("", TsAccess("function", TsId("object", "item"), "close"), <<>>)),
   TsExpression(TsCall("", TsAccess("function", TsThis("object"), "close"),
                       <<Means(2, TsId("", "size"))>>)),
   TsExpression(TsAssign(Means(2, TsId("left", "size")), TsAccess("right", TsThis("object"), "limit"))),
   N("statement_block", "",
     <<TsLet(k, "item", <<T("="), L("number", "value", "1")>>), Means(k, TsId("", "item"))>>),
   TsLet(k, "total", <<T("="), TsArrow(k + 1, "item", Means(k + 1, TsId("body", "item")))>>)}

TsBodies ==
  {<<TsLet(2, "size", TsNew("Limits")), s, t, Means(1, TsId("", "item"))>> :
     s \in TsStatements(3), t \in TsStatements(5)}

TsImport(clause, tokens) ==
  N("import_statement", "",
    <<T("import"), N("import_clause", "", clause), T("from"), TsQuoted("source", tokens)>>)
TsImports ==
  <<TsImport(<<TsId("", "Limits"),
               N("named_imports", "",
                 <<N("import_specifier", "", <<TsId("name", "Entry")>>),
                   N("import_specifier", "", <<TsId("name", "open"), TsId("alias", "reopen")>>)>>)>>,
             <<".", "/", "limits", ".", "ts">>)>>

TsClass(statements) ==
  N("class_declaration", "",
    <<L("type_identifier", "name", "Store"),
      N("class_heritage", "",
        <<N("extends_clause", "", <<TsId("value", "Base")>>),
          N("implements_clause", "", <<TsTypeId("Drain")>>)>>),
      N("class_body", "body",
        <<N("public_field_definition", "", <<TsProp("name", "limit"),
                                             TsAnnotated(<<TsTypeId("Limits")>>)>>),
          TsMethod(<<TsParam(1, "item")>>, statements)>>)>>)

TsInterface ==
  N("interface_declaration", "",
    <<L("type_identifier", "name", "Drain"),
      N("interface_body", "body",
        <<N("property_signature", "", <<TsProp("name", "limit"), TsAnnotated(<<TsTypeId("Limits")>>)>>),
          N("method_signature", "", <<TsProp("name", "drain"), TsParams(<<>>)>>)>>)>>)

TsExport(declaration) == N("export_statement", "", <<T("export"), declaration>>)

(* A constant of the module, with or without a use in a function.          *)
TsConstant == N("lexical_declaration", "",
                <<T("const"), N("variable_declarator", "",
                                <<Declares(102, TsId("name", "limit")), T("="),
                                  L("number", "value", "5")>>)>>)
TsConstantUse == TsFn(103, "within", <<>>, <<Means(102, TsId("", "limit"))>>)

TsSource(language, name, items) ==
  [lang |-> language, file |-> "src/" \o name, path |-> <<"src", "store">>,
   tree |-> Parse(N("program", "", items))]

TypeScriptSources ==
  {TsSource("typescript", "store.ts",
            TsImports \o <<TsExport(TsClass(body)), TsInterface, TsConstant,
                           TsExport(TsFn(101, "helper", <<>>, <<>>))>>) : body \in TsBodies}

TsConstantSources == {TsSource("typescript", "limits.ts", <<TsConstant, TsConstantUse>>)}

(* Scripts that require modules and assign to their exports. *)
TsRequires ==
  {TsLet(0, "fs", <<T("="), TsCall("value", TsId("function", "require"), <<TsQuoted("", <<"fs">>)>>)>>),
   N("lexical_declaration", "",
     <<T("const"),
       N("variable_declarator", "",
         <<N("object_pattern", "name",
             <<L("shorthand_property_identifier_pattern", "", "open")>>),
           TsCall("value", TsId("function", "require"), <<TsQuoted("", <<".", "/", "fs", ".", "js">>)>>)>>)>>),
   TsExpression(TsCall("", TsId("function", "require"), <<TsQuoted("", <<".", "/", "fs">>)>>))}

TsFunctionValue == N("function_expression", "right", <<T("function"), TsParams(<<>>), TsBlock(<<>>)>>)
TsPair(name, value) == N("pair", "", <<TsProp("key", name), value>>)
TsObject ==
  N("object", "right",
    <<L("shorthand_property_identifier", "", "helper"), TsPair("drain", TsId("value", "helper")),
      TsPair("limit", L("number", "value", "5"))>>)

TsExports ==
  {TsExpression(TsAssign(TsAccess("left", TsId("object", "module"), "exports"), right)) :
     right \in {TsObject, TsFunctionValue, TsId("right", "helper")}}
    \cup {TsExpression(TsAssign(TsAccess("left", TsId("object", "exports"), "drain"), right)) :
            right \in {TsFunctionValue, TsId("right", "helper")}}

ScriptSources ==
  {TsSource("javascript", "store.js",
            <<require, TsFn(101, "helper", <<>>, <<>>), export,
              TsExpression(TsCall("", Means(101, TsId("function", "helper")), <<>>))>>) :
     require \in TsRequires, export \in TsExports}

(***************************************************************************)
(* Svelte components, with the trees the grammar gives them: the text of a *)
(* script is the tree that the grammar of its language gives it.           *)
(***************************************************************************)
SvScript(items) ==
  N("script_element", "", <<L("start_tag", "", "<script>"), N("raw_text", "", items),
                            L("end_tag", "", "</script>")>>)

SvComponent(scripts) ==
  [lang |-> "svelte", file |-> "src/Store.svelte", path |-> <<"src", "Store">>,
   tree |-> Parse(N("document", "", scripts \o <<N("element", "", <<L("text", "", "Store")>>)>>))]

SvExported == TsExport(TsFn(104, "open", <<TsParam(20, "size")>>, <<Means(20, TsId("", "size"))>>))
SvEmpty == N("script_element", "", <<L("start_tag", "", "<script>"), L("end_tag", "", "</script>")>>)

SvDrains ==
  {TsFn(102, "drain", <<TsParam(1, "item")>>, <<TsLet(2, "size", TsNew("Limits")), s, Means(1, TsId("", "item"))>>) :
       s \in TsStatements(3)}

SvelteSources ==
  {SvComponent(<<first, SvEmpty, second>>) :
     first \in {SvScript(<<SvExported>>)},
     second \in {SvScript(<<TsFn(101, "helper", <<>>, <<>>), drain>>) : drain \in SvDrains}}

(***************************************************************************)
(* Python modules, with the trees the grammar gives them.                  *)
(***************************************************************************)
PyId(field, name) == L("identifier", field, name)
PyType(kids) == N("type", "type", kids)

PyCall(field, callee, args) ==
  N("call", field, <<callee, N("argument_list", "arguments", args)>>)
PyAccess(field, object, name) ==
  N("attribute", field, <<object, T("."), PyId("attribute", name)>>)
PyExpression(e) == N("expression_statement", "", <<e>>)
PyAssign(name, value) ==
  PyExpression(N("assignment", "", <<name, T("="), value>>))
PyBlock(statements) == N("block", "body", statements)

PyFn(n, name, params, statements) ==
    N("function_definition", "",
      <<T("def"), Declares(n, PyId("name", name)), N("parameters", "parameters", params),
        PyBlock(statements)>>)

PyParam(n, name) ==
  N("typed_parameter", "",
    <<Declares(n, PyId("", name)), T(":"),
      PyType(<<N("generic_type", "",
                 <<PyId("", "list"), N("type_parameter", "", <<PyType(<<PyId("", "Entry")>>)>>)>>)>>)>>)

(* Uses of the locals `item` (1) and `size` (2), of the function `helper`  *)
(* (101) and of the constant `limit` (102).                                *)
PyStatements(k) ==
  {PyExpression(PyCall("", Means(101, PyId("function", "helper")), <<Means(1, PyId("", "item"))>>)),
   PyExpression(PyCall("", PyAccess("function", PyId("object", "item"), "close"), <<>>)),
   PyExpression(PyCall("", PyAccess("function", PyId("object", "self"), "close"),
                       <<Means(2, PyId("", "size"))>>)),
   PyAssign(Declares(k, PyId("left", "total")), PyAccess("right", PyId("object", "self"), "limit")),
   PyFn(103, "inner", <<Declares(k, PyId("", "item"))>>, <<PyExpression(Means(k, PyId("", "item")))>>),
   N("if_statement", "",
     <<Means(2, PyId("condition", "size")),
       N("block", "consequence", <<PyExpression(Means(102, PyId("", "limit")))>>)>>),
   PyExpression(PyCall("", PyAccess("function", PyId("object", "pool"), "execute"),
                       <<N("string", "", <<N("string_content", "", <<L("entity", "", "entries")>>)>>)>>))}

PyBodies ==
  {<<PyAssign(Declares(2, PyId("left", "size")), PyCall("right", PyId("function", "measure"), <<>>)), s, t,
     PyExpression(Means(1, PyId("", "item")))>> : s \in PyStatements(3), t \in PyStatements(5)}

PyDotted(field, names) ==
  N("dotted_name", field, [n \in 1 .. 2 * Len(names) - 1 |->
                             IF n % 2 = 0 THEN T(".") ELSE PyId("", names[(n + 1) \div 2])])
PyImports ==
  {N("import_from_statement", "",
     <<T("from"), PyDotted("module_name", <<"store", "limits">>), T("import"),
       PyDotted("name", <<"Entry">>),
       N("aliased_import", "name", <<PyDotted("name", <<"open">>), PyId("alias", "reopen")>>)>>),
   N("import_statement", "", <<T("import"), PyDotted("name", <<"store", "limits">>)>>)}

PyClass(statements) ==
  N("class_definition", "",
    <<T("class"), PyId("name", "Store"),
      N("argument_list", "superclasses",
        <<PyId("", "Base"), PyAccess("", PyId("object", "store"), "Drain")>>),
      PyBlock(<<PyFn(104, "drain", <<PyId("", "self"), PyParam(1, "item")>>, statements),
                N("decorated_definition", "",
                  <<N("decorator", "", <<PyId("", "property")>>),
                    PyFn(105, "close", <<PyId("", "self")>>, <<>>)>>)>>)>>)

(* A definition that one of two branches makes. *)
PyGuarded(statement) ==
  N("try_statement", "", <<PyBlock(<<statement>>), N("except_clause", "", <<PyBlock(<<statement>>)>>)>>)

PythonSources ==
  {[lang |-> "python", file |-> "src/store.py", path |-> <<"src", "store">>,
    tree |-> Parse(N("module", "",
      <<import, PyAssign(Declares(102, PyId("left", "limit")), L("integer", "right", "5")),
        PyClass(body), PyFn(101, "helper", <<>>, <<>>), PyGuarded(PyAssign(PyId("left", "fast"),
                                                                           PyId("right", "limit")))>>))] :
     import \in PyImports, body \in PyBodies}

(***************************************************************************)
(* PHP files, with the trees the grammar gives them.                       *)
(***************************************************************************)
PhName(text) == L("name", "", text)
PhVar(name) == N("variable_name", "", <<T("$"), PhName(name)>>)
PhType(name) == N("named_type", "type", <<PhName(name)>>)
PhQualified(segments) ==
  N("qualified_name", "", <<T(segments[1]), T("\\"), PhName(segments[2])>>)

PhMemberOf(object, name) ==
  N("member_access_expression", "", <<Of("object", object), T("->"), L("name", "name", name)>>)
PhMemberCall(object, name, args) ==
  N("member_call_expression", "",
    <<Of("object", object), T("->"), L("name", "name", name), N("arguments", "arguments", args)>>)
PhCall(n, name, args) ==
  N("function_call_expression", "",
    <<Means(n, L("name", "function", name)), N("arguments", "arguments", args)>>)
PhAssign(left, right) ==
  N("assignment_expression", "", <<Of("left", left), T("="), Of("right", right)>>)
PhDoes(expression) == N("expression_statement", "", <<expression>>)
PhBlock(statements) == N("compound_statement", "", <<T("{")>> \o statements \o <<T("}")>>)

PhParam(n, name, type) ==
  N("simple_parameter", "", <<type, Declares(n, Of("name", PhVar(name)))>>)
PhFn(kind, name, params, body) ==
    N(kind, "", name \o <<N("formal_parameters", "parameters", params),
                          Of("return_type", PhType("Entry")), Of("body", body)>>)

(* Uses of the locals `item` (1) and `size` (2) and of the function        *)
(* `helper` (101).                                                         *)
PhStatements(k) ==
  {PhDoes(PhCall(101, "helper", <<Means(1, PhVar("item"))>>)),
   PhDoes(PhMemberCall(Means(1, PhVar("item")), "close", <<Means(2, PhVar("size"))>>)),
   PhDoes(PhMemberCall(PhVar("this"), "close", <<Means(2, PhVar("size"))>>)),
   PhDoes(PhMemberCall(PhMemberOf(Means(1, PhVar("item")), "held"), "close", <<>>)),
   N("if_statement", "",
     <<T("if"), Of("condition", Means(2, PhVar("size"))),
       Of("body", PhBlock(<<PhDoes(PhAssign(Declares(k, PhVar("other")), Means(1, PhVar("item")))),
                            PhDoes(Means(k, PhVar("other")))>>))>>),
   N("foreach_statement", "",
     <<T("foreach"), Means(1, PhVar("item")), Declares(k, PhVar("each")),
       Of("body", PhBlock(<<PhDoes(Means(k, PhVar("each")))>>))>>),
   PhDoes(PhAssign(Declares(k + 1, PhVar("keep")),
     PhFn("anonymous_function", <<T("function")>>, <<PhParam(k, "item", PhType("Entry"))>>,
          PhBlock(<<PhDoes(Means(k, PhVar("item")))>>)))),
   PhDoes(N("arrow_function", "",
     <<T("fn"), N("formal_parameters", "parameters",
         <<N("simple_parameter", "", <<N("by_ref", "name", <<T("&"), Declares(k, PhVar("item"))>>)>>)>>),
       Of("body", Means(k, PhVar("item")))>>))}

PhBodies ==
  {<<PhDoes(PhAssign(Declares(2, PhVar("size")), PhCall(101, "helper", <<>>))), s, t,
     PhDoes(Means(1, PhVar("item")))>> : s \in PhStatements(3), t \in PhStatements(5)}

PhUse(clauses) == N("namespace_use_declaration", "", <<T("use")>> \o clauses)
PhClause(names) == N("namespace_use_clause", "", names)

PhClass(statements) ==
  N("class_declaration", "",
    <<Declares(103, L("name", "name", "Store")),
      N("base_clause", "", <<T("extends"), PhQualified(<<"App", "Base">>)>>),
      N("class_interface_clause", "", <<T("implements"), PhName("Closing")>>),
      N("declaration_list", "body",
        <<N("const_declaration", "", <<T("const"), N("const_element", "", <<PhName("LIMIT")>>)>>),
          N("property_declaration", "",
            <<N("union_type", "type", <<N("named_type", "", <<PhName("Entry")>>),
                                        N("primitive_type", "", <<T("null")>>)>>),
              N("property_element", "", <<Of("name", PhVar("held"))>>)>>),
          PhFn("method_declaration", <<Declares(104, L("name", "name", "drain"))>>,
               <<PhParam(1, "item", N("optional_type", "type", <<T("?"), N("named_type", "", <<PhName("Entry")>>)>>)),
                 N("variadic_parameter", "", <<Of("name", PhVar("rest"))>>)>>,
               PhBlock(statements))>>)>>)

PhHelper ==
  PhFn("function_definition", <<Declares(101, L("name", "name", "helper"))>>,
       <<PhParam(20, "size", PhType("Limits"))>>, PhBlock(<<PhDoes(Means(20, PhVar("size")))>>))
PhInterface ==
  N("interface_declaration", "", <<L("name", "name", "Closing"), N("declaration_list", "body", <<>>)>>)
PhEnum == N("enum_declaration", "", <<L("name", "name", "Mode"), N("enum_declaration_list", "body", <<>>)>>)

PhNamespace(items) ==
  N("namespace_definition", "",
    <<T("namespace"), N("namespace_name", "name", <<PhName("App"), T("\\"), PhName("Store")>>)>> \o items)

PhItems(body) ==
  <<PhUse(<<PhClause(<<PhQualified(<<"App", "Entry">>)>>), PhClause(<<PhName("Limits"), L("name", "alias", "Bounds")>>)>>),
    PhInterface, PhClass(body), PhEnum, PhHelper, PhDoes(PhAssign(PhVar("limit"), L("integer", "", "8")))>>

Php(items) ==
  [lang |-> "php", file |-> "src/Store.php", path |-> <<"src", "Store">>,
   tree |-> Parse(N("program", "", items))]

(* Declared for the rest of the file, as a block, or not at all. *)
PhpSources ==
  {Php(<<PhNamespace(<<>>)>> \o PhItems(body)) : body \in PhBodies}
    \cup {Php(<<PhNamespace(<<N("compound_statement", "body", PhItems(body))>>)>>) : body \in {<<>>}}
    \cup {Php(PhItems(body)) : body \in {<<>>}}

(***************************************************************************)
(* Ruby files, with the trees the grammar gives them.                      *)
(***************************************************************************)
RbId(name) == L("identifier", "", name)
RbName(name) == L("identifier", "name", name)
RbConst(name) == L("constant", "", name)
RbArgs(args) == N("argument_list", "arguments", args)
RbCall(name, args) == N("call", "", <<Of("method", name), RbArgs(args)>>)
RbSend(receiver, name, args) ==
  N("call", "", <<Of("receiver", receiver), T("."), L("identifier", "method", name), RbArgs(args)>>)
RbAssign(target, value) == N("assignment", "", <<Of("left", target), T("="), Of("right", value)>>)
RbBody(statements) == N("body_statement", "body", statements)
RbParams(kind, params) == N(kind, "parameters", params)

RbDef(n, name, params, body) ==
  N("method", "", <<T("def"), Declares(n, RbName(name)), RbParams("method_parameters", params), body>>)

(* Uses of the parameters `item` (1) and `size` (2), and of the method     *)
(* `helper` (101).                                                         *)
RbStatements(k) ==
  {RbCall(Means(101, RbId("helper")), <<Means(1, RbId("item"))>>),
   RbSend(Means(1, RbId("item")), "close", <<>>),
   RbSend(L("self", "", "self"), "drain", <<Means(2, RbId("size"))>>),
   RbSend(RbConst("Limits"), "sweep", <<Means(2, RbId("size"))>>),
   RbAssign(Declares(k, RbId("total")), RbSend(Means(1, RbId("item")), "limit", <<>>)),
   N("if", "", <<T("if"), Of("condition", Means(2, RbId("size"))),
                 N("then", "consequence", <<RbCall(Means(101, RbId("helper")), <<Means(1, RbId("item"))>>)>>)>>),
   N("call", "",
     <<Of("receiver", Means(1, RbId("item"))), T("."), L("identifier", "method", "each"),
       N("do_block", "block",
         <<RbParams("block_parameters", <<Declares(k, RbId("item"))>>),
           RbBody(<<RbCall(Means(101, RbId("helper")), <<Means(k, RbId("item"))>>)>>)>>)>>),
   N("call", "",
     <<L("identifier", "method", "loop"),
       N("block", "block",
         <<T("{"), RbParams("block_parameters", <<N("optional_parameter", "", <<Declares(k, RbName("item")), T("=")>>)>>),
           N("block_body", "body", <<Means(k, RbId("item"))>>)>>)>>)}

RbBodies == {<<RbAssign(Declares(7, RbId("extra")), Means(2, RbId("size"))), s, t,
               Means(1, RbId("item")), Means(7, RbId("extra"))>> :
               s \in RbStatements(3), t \in RbStatements(5)}

RbHelper == RbDef(101, "helper", <<Declares(20, RbId("size"))>>, Of("body", Means(20, RbId("size"))))
RbStore(statements) ==
  N("class", "",
    <<T("class"), L("constant", "name", "Store"),
      N("superclass", "superclass",
        <<T("<"), N("scope_resolution", "", <<RbConst("Base"), T("::"), L("constant", "name", "Drain")>>)>>),
      RbBody(
        <<RbAssign(RbConst("LIMIT"), L("integer", "", "8")),
          N("singleton_method", "",
            <<T("def"), L("self", "object", "self"), RbName("sweep"),
              RbParams("method_parameters",
                       <<N("splat_parameter", "", <<T("*")>>),
                         N("keyword_parameter", "", <<Declares(21, RbName("depth")), T(":")>>)>>),
              RbBody(<<Means(21, RbId("depth"))>>)>>),
          N("singleton_class", "", <<T("class"), L("self", "value", "self"),
                                     RbBody(<<RbAssign(RbId("count"), L("integer", "", "8"))>>)>>),
          RbDef(102, "drain", <<Declares(1, RbId("item")), Declares(2, RbId("size"))>>,
                RbBody(statements))>>)>>)

RbScript(statements) ==
  <<RbAssign(RbId("config"), L("integer", "", "8")), RbHelper, RbStore(statements),
    RbCall(Means(101, RbId("helper")), <<RbId("config")>>)>>

RubySources ==
  {[lang |-> "ruby", file |-> "lib/app/store.rb", path |-> <<"lib", "app", "store">>,
    tree |-> Parse(N("program", "", RbScript(body)))] : body \in RbBodies}
  \cup {[lang |-> "ruby", file |-> "store.rb", path |-> <<"store">>,
         tree |-> Parse(N("program", "",
           <<N("module", "", <<T("module"), L("constant", "name", "App"),
               RbBody(<<N("class", "", <<T("class"), L("constant", "name", "Slot"),
                          N("superclass", "superclass", <<T("<"), RbConst("Base")>>)>>),
                        RbStore(<<>>)>>)>>), s>>))] : s \in {RbId("config"), RbHelper}}

(***************************************************************************)
(* Lua and Luau files, with the trees the grammar gives them.              *)
(***************************************************************************)
LuId(name) == L("identifier", "", name)
LuDot(table, name) ==
  N("dot_index_expression", "", <<Of("table", table), T("."), L("identifier", "field", name)>>)
LuMethod(table, name) ==
  N("method_index_expression", "", <<Of("table", table), T(":"), L("identifier", "method", name)>>)
LuCall(name, args) ==
  N("function_call", "", <<Of("name", name), N("arguments", "arguments", args)>>)
LuAssign(targets, values) ==
  N("assignment_statement", "",
    <<N("variable_list", "", targets), T("="), N("expression_list", "", values)>>)
LuLocal(targets, values) == N("variable_declaration", "local_declaration", <<T("local"), LuAssign(targets, values)>>)
LuBlock(field, statements) == N("block", field, statements)

LuFunction(kind, name, params, statements) ==
  N(kind, "", name \o <<N("parameters", "parameters", params), LuBlock("body", statements)>>)

(* Uses of the parameters `item` (1) and `size` (2), of the function       *)
(* `helper` (101) and of the table `Store` (102).                          *)
LuStatements(k) ==
  {LuCall(Means(101, LuId("helper")), <<Means(1, LuId("item"))>>),
   LuCall(LuMethod(Means(1, LuId("item")), "close"), <<Means(2, LuId("size"))>>),
   LuCall(LuDot(Means(102, LuId("Store")), "sweep"), <<Means(2, LuId("size"))>>),
   LuCall(LuDot(LuDot(Means(1, LuId("item")), "held"), "sweep"), <<>>),
   LuAssign(<<Means(2, LuId("size"))>>, <<LuDot(Means(1, LuId("item")), "limit")>>),
   N("if_statement", "",
     <<T("if"), Of("condition", Means(2, LuId("size"))),
       LuBlock("consequence", <<LuCall(Means(101, LuId("helper")), <<Means(1, LuId("item"))>>)>>)>>),
   LuCall(LuId("each"), <<LuFunction("function_definition", <<T("function")>>, <<Declares(k, LuId("item"))>>,
                                     <<LuCall(Means(101, LuId("helper")), <<Means(k, LuId("item"))>>)>>)>>)}

LuBodies == {<<s, t, LuCall(Means(101, LuId("helper")), <<Means(1, LuId("item"))>>)>> :
               s \in LuStatements(3), t \in LuStatements(5)}

LuString(tokens) ==
  N("string", "", <<N("string_content", "content", [n \in DOMAIN tokens |-> T(tokens[n])])>>)
LuHelper ==
  LuFunction("function_declaration", <<T("function"), Declares(101, L("identifier", "name", "helper"))>>,
             <<Declares(20, LuId("size"))>>, <<LuCall(LuId("print"), <<Means(20, LuId("size"))>>)>>)
LuStore ==
  LuLocal(<<Declares(102, LuId("Store")), LuId("count")>>,
          <<N("table_constructor", "",
              <<N("field", "", <<L("identifier", "name", "held"), T("="), L("number", "value", "8")>>),
                N("field", "", <<L("identifier", "name", "sweep"), T("="),
                                 Of("value", LuFunction("function_definition", <<T("function")>>, <<>>, <<>>))>>)>>),
            T(","), L("number", "", "8")>>)
LuDrain(name, statements) ==
  LuFunction("function_declaration", <<T("function"), Of("name", name)>>,
             <<Declares(1, LuId("item")), Declares(2, LuId("size"))>>, statements)
LuSweep == LuAssign(<<LuId("sweep")>>, <<LuFunction("function_definition", <<T("function")>>, <<>>, <<>>)>>)

Lua(body) ==
  [lang |-> "lua", file |-> "lua/store.lua", path |-> <<"lua", "store">>,
   tree |-> Parse(N("chunk", "",
     <<LuLocal(<<LuId("limits")>>, <<LuCall(LuId("require"), <<LuString(<<"app", ".", "limits">>)>>)>>),
       LuCall(LuId("require"), <<N("string", "", <<T("entry")>>)>>),
       LuStore, LuHelper, LuDrain(LuDot(LuId("Store"), "drain"), body), LuSweep>>))]

Luau(body) ==
  [lang |-> "luau", file |-> "src/store.luau", path |-> <<"src", "store">>,
   tree |-> Parse(N("chunk", "",
     <<LuCall(LuId("require"), <<LuDot(LuDot(LuId("script"), "Parent"), "Limits")>>),
       N("type_definition", "", <<T("type"), L("identifier", "name", "Slot"), T("=")>>),
       LuStore, LuHelper, LuDrain(LuMethod(LuId("Store"), "drain"), body)>>))]

LuaSources == {Lua(body) : body \in LuBodies} \cup {Luau(<<s>>) : s \in LuStatements(3)}

(* A function with a local variable of its own. *)
LuLocalSources ==
  {Lua(<<LuLocal(<<Declares(6, LuId("other"))>>, <<Means(1, LuId("item"))>>), s,
         LuCall(Means(101, LuId("helper")), <<Means(6, LuId("other"))>>)>>) : s \in LuStatements(3)}

(***************************************************************************)
(* SQL, HCL and shell files, with the trees the grammars give them.        *)
(***************************************************************************)
DbId(name) == L("identifier", "", name)
DbName(name) == L("identifier", "name", name)

(***************************************************************************)
(* SQL.  Uses of the common table expression `recent` (103) and of the     *)
(* table `entries` (101).                                                  *)
(***************************************************************************)
DbObject(schema, name) ==
  N("object_reference", "",
    (IF schema = "" THEN <<>> ELSE <<L("identifier", "schema", schema), T(".")>>) \o <<name>>)
DbFrom(object) == N("from", "", <<T("from"), N("relation", "", <<object>>)>>)
DbSelect(object) == N("select", "", <<T("select"), object>>)
DbStatement(kids) == N("statement", "", kids)
DbCte(name, kids) ==
  N("cte", "", <<name, T("as"), T("(")>> \o kids \o <<T(")")>>)

DbTable(schema, name) ==
  N("create_table", "",
    <<T("create"), DbObject(schema, name),
      N("column_definitions", "",
        <<N("column_definition", "", <<DbName("size"), DbId("int")>>),
          N("column_definition", "", <<DbName("slot"), DbObject("", DbName("slots"))>>),
          N("constraint", "", <<DbObject("app", DbName("limits"))>>)>>)>>)

DbEntries == DbTable("", Declares(101, DbName("entries")))
DbView(kind, query) == N(kind, "", <<T("create"), DbObject("app", DbName("open")), query>>)
DbUseOf(n, name) == DbObject("", Means(n, DbName(name)))

DbQueries ==
  {<<DbFrom(DbUseOf(101, "entries"))>>,
   <<DbFrom(DbObject("app", DbName("drains")))>>,
   <<N("subquery", "", <<T("("), DbFrom(DbUseOf(101, "entries")), T(")")>>)>>}

DbWithQueries ==
  {<<DbCte(Declares(104, DbId("inner")), <<DbFrom(DbUseOf(101, "entries"))>>), DbFrom(DbUseOf(104, "inner"))>>}

DbSqlFile(statements) ==
  [lang |-> "sql", file |-> "db/schema.sql", path |-> <<"db", "schema">>,
   tree |-> Parse(N("program", "", statements))]

SqlSources ==
  {DbSqlFile(<<DbStatement(<<DbEntries>>),
               DbStatement(<<DbCte(Declares(103, DbId("recent")), q), DbFrom(DbUseOf(103, "recent"))>> \o r),
               DbStatement(<<DbView(kind, DbSelect(DbUseOf(101, "entries")))>>),
               DbStatement(<<DbTable("app", DbName("drains"))>>)>>) :
     q \in DbQueries, r \in DbQueries \cup DbWithQueries, kind \in {"create_view", "create_materialized_view"}}

(***************************************************************************)
(* HCL.                                                                    *)
(***************************************************************************)
DbLabel(name) == L("string_lit", "", name)
DbTraversal(names) ==
  N("expression", "",
    <<N("variable_expr", "", <<DbId(names[1])>>)>>
      \o [n \in 1 .. Len(names) - 1 |-> N("get_attr", "", <<T("."), DbId(names[n + 1])>>)])
DbAttribute(name, value) == N("attribute", "", <<DbId(name), T("="), value>>)
DbBody(items) == N("body", "", items)
DbHclBlock(labels, items) ==
  N("block", "", labels \o <<L("block_start", "", "{"), DbBody(items), L("block_end", "", "}")>>)

DbValues ==
  {DbTraversal(<<"aws_subnet", "main", "id">>), DbTraversal(<<"module", "vpc">>), DbTraversal(<<"region">>),
   N("expression", "", <<N("function_call", "",
     <<DbId("merge"), N("function_arguments", "", <<DbTraversal(<<"data", "ami", "base">>),
                                                    DbTraversal(<<"var", "size">>)>>)>>)>>)}
DbHeaders ==
  {<<DbId("resource"), DbLabel("aws_subnet"), DbLabel("main")>>, <<DbId("resource"), DbLabel("aws_subnet")>>,
   <<DbId("data"), DbLabel("ami"), DbLabel("base")>>, <<DbId("module"), DbLabel("vpc")>>,
   <<DbId("module"), DbId("main")>>, <<DbId("module")>>, <<DbId("variable"), DbLabel("size")>>,
   <<N("template", "", <<>>), DbLabel("size")>>}

HclSources ==
  {[lang |-> "hcl", file |-> "infra/main.tf", path |-> <<"infra", "main">>,
    tree |-> Parse(N("config_file", "",
      <<DbBody(<<DbHclBlock(h, <<DbAttribute("size", v), DbHclBlock(<<DbId("module"), DbLabel("inner")>>, <<>>)>>),
                 DbHclBlock(g, <<>>), DbAttribute("other", v)>>)>>))] :
     h \in DbHeaders, g \in DbHeaders, v \in DbValues}
  \cup {[lang |-> "hcl", file |-> "infra/prod.tfvars", path |-> <<"infra", "prod">>,
         tree |-> Parse(N("config_file", "", <<N("object", "", <<DbTraversal(<<"var", "size">>)>>)>>))]}

(***************************************************************************)
(* Shell.  Uses of the variables `item` (1) and `size` (2) and of the      *)
(* function `helper` (101).                                                *)
(***************************************************************************)
DbWord(name) == L("word", "", name)
DbCommand(word, args) ==
  N("command", "", <<N("command_name", "name", <<word>>)>> \o args)
DbVariable(name) == L("variable_name", "", name)
DbValue(variable) == N("simple_expansion", "", <<T("$"), variable>>)
DbSet(variable, value) ==
  N("variable_assignment", "", <<Of("name", variable), T("="), value>>)
DbDeclareWith(word, assignments) == N("declaration_command", "", <<T(word)>> \o assignments)
DbFunction(name, body) ==
  N("function_definition", "", <<Of("name", name), Of("body", body)>>)
DbCompound(statements) == N("compound_statement", "", <<T("{")>> \o statements \o <<T("}")>>)

DbCommands(k) ==
  {DbCommand(Means(101, DbWord("helper")), <<DbValue(Means(1, DbVariable("item")))>>),
   DbCommand(DbWord("echo"), <<N("expansion", "", <<T("${"), Means(2, DbVariable("size")), T("}")>>)>>),
   DbSet(Means(2, DbVariable("size")), DbValue(Means(1, DbVariable("item")))),
   DbSet(N("subscript", "", <<DbVariable("slots")>>), DbWord("none")),
   N("for_statement", "",
     <<T("for"), Of("variable", Declares(k, DbVariable("item"))), DbWord("all"),
       N("do_group", "body", <<DbCommand(DbWord("echo"), <<>>)>>)>>),
   N("if_statement", "", <<T("if"), DbCommand(Means(101, DbWord("helper")), <<>>),
                           DbCompound(<<DbCommand(DbWord("echo"), <<DbValue(Means(2, DbVariable("size")))>>)>>)>>),
   DbFunction(DbWord("inner"), DbCompound(<<DbDeclareWith("local", <<DbSet(Declares(k, DbVariable("item")), DbWord("all"))>>),
                                            DbCommand(DbWord("echo"), <<DbValue(Means(k, DbVariable("item")))>>)>>))}

DbBound(k) ==
  N("for_statement", "",
    <<T("for"), Of("variable", Declares(k, DbVariable("each"))), DbWord("all"),
      N("do_group", "body", <<DbCommand(DbWord("echo"), <<DbValue(Means(k, DbVariable("each")))>>)>>)>>)

DbDrain(statements) ==
  DbFunction(DbWord("drain"), DbCompound(
    <<DbDeclareWith("local", <<DbSet(Declares(1, DbVariable("item")), DbWord("all")),
                               DbSet(N("subscript", "", <<DbVariable("slots")>>), DbWord("none"))>>),
      DbDeclareWith("local", <<DbSet(Declares(2, DbVariable("size")), DbWord("none"))>>)>> \o statements))

DbShellFile(file, path, statements) ==
  [lang |-> "shell", file |-> file, path |-> path, tree |-> Parse(N("program", "", statements))]

DbIsLoop(statement) == statement.kind = "for_statement"

ShellSources ==
  {DbShellFile("bin/store.sh", <<"bin", "store">>,
     <<DbDeclareWith("export", <<DbSet(DbVariable("mode"), DbWord("all"))>>),
       DbFunction(Declares(101, DbWord("helper")), N("subshell", "", <<DbCommand(DbWord("true"), <<>>)>>)),
       DbDrain(<<s, t, DbBound(7)>>), DbCommand(Means(101, DbWord("helper")), <<>>),
       N("for_statement", "", <<T("for"), Of("variable", DbVariable("mode")),
                                N("do_group", "body", <<>>)>>)>>) :
     s \in {c \in DbCommands(3) : ~DbIsLoop(c)}, t \in DbCommands(5)}
  \cup {DbShellFile("store.bash", <<"store">>, <<DbCommand(DbWord("echo"), <<DbValue(DbVariable("mode"))>>)>>)}
=============================================================================
