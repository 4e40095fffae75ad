--------------------------- MODULE ExtractSupport ---------------------------
(***************************************************************************)
(* What extractors ask of a syntax tree, the library interface of the      *)
(* parser (node kinds, fields, children, text), and what every extractor   *)
(* shares (extract/support.rs, extract/dispatch.rs, graph/validate.rs): the*)
(* few text helpers, how facts are built from nodes, how references and    *)
(* bindings find their scope, how calls learn their receiver, and the      *)
(* contract the facts of a file must meet before anyone sees them.         *)
(*                                                                         *)
(* A source is a tree, the language it is extracted as, the file's name,   *)
(* and the segments of its path, the last without its extension.           *)
(***************************************************************************)
EXTENDS Facts, FiniteSetsExt

CONSTANTS tree, lang, file, path

(***************************************************************************)
(* The tree: a node is its index in it, and 0 is a node that is not there. *)
(***************************************************************************)
Nodes == DOMAIN tree
Root == 1

Kind(i) == IF i = 0 THEN "" ELSE tree[i].kind
Up(i) == IF i = 0 THEN 0 ELSE tree[i].up
Start(i) == tree[i].start
Span(i) == <<tree[i].start, tree[i].end>>

Below(i) == IF i = 0 THEN {} ELSE i + 1 .. tree[i].last
Within(i) == IF i = 0 THEN {} ELSE i .. tree[i].last
Above(i) == {j \in 1 .. i - 1 : i <= tree[j].last}
Kids(i) == {j \in Below(i) : tree[j].up = i}
NamedKids(i) == {j \in Kids(i) : tree[j].named}

OfKind(kinds) == {i \in Nodes : tree[i].kind \in kinds}

Least(indices) == IF indices = {} THEN 0 ELSE Min(indices)
Greatest(indices) == IF indices = {} THEN 0 ELSE Max(indices)

(* child_by_field_name, and the first child of a kind. *)
Field(i, name) == Least({j \in Kids(i) : tree[j].field = name})
Fields(i, name) == {j \in Kids(i) : tree[j].field = name}
Child(i, kind) == Least({j \in Kids(i) : tree[j].kind = kind})
FirstOf(i, kinds) == Least({j \in Kids(i) : tree[j].kind \in kinds})

IsField(i, name) == i # 0 /\ tree[i].field = name

(* The siblings before a node, back to the last that is not of the kind. *)
RunBefore(i, kind) ==
  LET before == {j \in Kids(Up(i)) : j < i}
  IN  {j \in before : \A k \in before : k >= j => tree[k].kind = kind}

(* The n-th, counted from 0, of a set of nodes. *)
Nth(indices, n) ==
  LET at == {i \in indices : Cardinality({j \in indices : j < i}) = n}
  IN  Least(at)

(* A walk that does not enter nodes of some kinds. *)
Outside(kinds) ==
  {i \in Nodes : tree[i].kind \notin kinds /\ \A j \in Above(i) : tree[j].kind \notin kinds}

(* The nodes of a set in the order of a walk, and one fact for each. *)
InOrder(indices) == SelectSeq([i \in Nodes |-> i], LAMBDA i : i \in indices)

Each(indices, Fact(_)) ==
  Given(InOrder(indices), LAMBDA order : [n \in DOMAIN order |-> Fact(order[n])])

(***************************************************************************)
(* Text.                                                                   *)
(***************************************************************************)
Tokens(i) ==
  LET leaves == {j \in Within(i) : tree[j].text # ""}
  IN  Each(leaves, LAMBDA j : tree[j].text)

Joined(tokens) == FoldLeft(LAMBDA text, token : text \o token, "", tokens)

Text(i) == IF i = 0 THEN "" ELSE IF tree[i].text # "" THEN tree[i].text ELSE Joined(Tokens(i))

Separators == {"::", ".", "/", "\\", "->", "?."}

Segments(tokens) == SelectSeq(tokens, LAMBDA token : token \notin Separators)

(* A written path: its segments, anchors included. *)
PathOf(i) == Segments(Tokens(i))

UpTo(tokens, stop) ==
  LET cut == SelectInSeq(tokens, LAMBDA token : token = stop)
  IN  IF cut = 0 THEN tokens ELSE SubSeq(tokens, 1, cut - 1)

AfterLast(tokens, sep) ==
  LET cut == SelectLastInSeq(tokens, LAMBDA token : token = sep)
  IN  SubSeq(tokens, cut + 1, Len(tokens))

BeforeLast(tokens, sep) ==
  LET cut == SelectLastInSeq(tokens, LAMBDA token : token = sep)
  IN  IF cut = 0 THEN <<>> ELSE SubSeq(tokens, 1, cut - 1)

(* simple_type_name: no type arguments, and the last segment only. *)
SimpleTypeName(i, sep) == Joined(AfterLast(UpTo(Tokens(i), "<"), sep))

MinRefLen == 3

Long(i) == Len(Text(i)) >= MinRefLen

(* The source goes on behind the last node: it ends in a line break. *)
SourceLen == tree[Root].end + 1

(***************************************************************************)
(* Symbols.                                                                *)
(***************************************************************************)
Ns(name) == <<"Namespace", name>>
Namespaced(namespaces) == [n \in DOMAIN namespaces |-> Ns(namespaces[n])]

MakeSymbol(i, name, kind, descriptors) ==
  [id |-> GlobalId(lang, descriptors), name |-> name, kind |-> kind,
   file |-> file, span |-> Span(i)]

MemberDescriptors(namespaces, owner, leaf) ==
  Namespaced(namespaces) \o <<<<"Type", owner>>, leaf>>

(* The leaf namespace, else the name of the file. *)
ModuleName(namespaces) == IF namespaces = <<>> THEN Last(path) ELSE Last(namespaces)

ModuleSymbol(namespaces) ==
  LET name == ModuleName(namespaces)
      spaces == IF namespaces = <<>> /\ name # "" THEN <<name>> ELSE namespaces
  IN  [id |-> GlobalId(lang, Namespaced(spaces)), name |-> name, kind |-> "Module",
       file |-> file, span |-> <<0, SourceLen>>]

(***************************************************************************)
(* References.  A name that is empty is never written down.                *)
(***************************************************************************)
RefAt(i, name, role) == Ref(name, role, Start(i))

RefTo(i, role) == RefAt(i, Text(i), role)

ImportRef(i, name, from_path) == [RefAt(i, name, "Import") EXCEPT !.from_path = from_path]

TypeRefTo(i, name) == [RefAt(i, name, "TypeRef") EXCEPT !.annotated = TRUE]

CallTo(i, qualifier) == [RefTo(i, "Call") EXCEPT !.qualifier = qualifier]

(* A member that is read: its receiver is the own object, a plain name, or *)
(* something else, of which nothing is kept.                               *)
MemberRead(name, receiver, own) ==
  [RefTo(name, "Read") EXCEPT
     !.self_receiver = (Kind(receiver) = own),
     !.qualifier = IF Kind(receiver) = "identifier" THEN PathOf(receiver) ELSE <<>>]

Named(refs) == SelectSeq(refs, LAMBDA r : r.name # "")

(* The call that stands at a byte: the map by byte keeps the last. *)
IsCallAt(refs, n, byte) ==
  /\ refs[n].role = "Call" /\ refs[n].byte = byte
  /\ \A later \in DOMAIN refs :
       later > n => ~(refs[later].role = "Call" /\ refs[later].byte = byte)

(* mark_self_receiver_calls: callees whose receiver is the own object. *)
MarkSelfReceiverCalls(references, callees) ==
  Given(references, LAMBDA refs :
    [n \in DOMAIN refs |->
       IF \E i \in callees : IsCallAt(refs, n, Start(i))
       THEN [refs[n] EXCEPT !.self_receiver = TRUE, !.qualifier = <<>>]
       ELSE refs[n]])

(* mark_receiver_qualifier_calls: pairs of a callee and its receiver. *)
MarkReceiverQualifierCalls(references, receivers) ==
  Given(references, LAMBDA refs :
    [n \in DOMAIN refs |->
       LET said == {pair \in receivers : IsCallAt(refs, n, Start(pair[1]))}
       IN  IF said = {} THEN refs[n]
           ELSE [refs[n] EXCEPT !.qualifier = PathOf((CHOOSE pair \in said : TRUE)[2])]])

(* emit_embedded_sql_refs: the entities the SQL extractor finds in a text. *)
EmbeddedSqlRefs(arg, content_kind) ==
  LET entities == {j \in Below(Child(arg, content_kind)) : Kind(j) = "entity"}
  IN  Each(entities, LAMBDA j : [RefTo(j, "TypeRef") EXCEPT !.cross = TRUE])

(***************************************************************************)
(* Scopes and bindings.  Scope 1 is the file; "spans" gives the bytes of   *)
(* the scope that each opening node opens.                                 *)
(***************************************************************************)
ScopeTree(opened) ==
  Given(opened, LAMBDA spans :
    LET opening == DOMAIN spans
        Parent(i) == Cardinality({j \in opening : j <= Greatest(opening \cap Above(i))})
    IN  <<[parent |-> 0, span |-> <<0, SourceLen>>]>>
          \o Each(opening, LAMBDA i : [parent |-> 1 + Parent(i), span |-> spans[i]]))

(* The smallest span around a byte, and the last of equals. *)
InnermostScope(byte, scopes) ==
  LET around == {s \in DOMAIN scopes : Covers(scopes[s].span, byte)}
      Tighter(s, o) ==
        \/ SpanLen(scopes[s].span) < SpanLen(scopes[o].span)
        \/ SpanLen(scopes[s].span) = SpanLen(scopes[o].span) /\ s >= o
  IN  IF around = {} THEN 0 ELSE CHOOSE s \in around : \A o \in around : Tighter(s, o)

AttachReferenceScopes(refs, scopes) ==
  [n \in DOMAIN refs |-> [refs[n] EXCEPT !.scope = InnermostScope(refs[n].byte, scopes)]]

(* A binding outside every scope is put into the file's own. *)
ScopeFor(byte, scopes) ==
  LET scope == InnermostScope(byte, scopes) IN IF scope = 0 THEN 1 ELSE scope

BindingAt(i, name, kind, type, scopes) ==
  [name |-> name, scope |-> ScopeFor(Start(i), scopes), intro |-> Start(i),
   kind |-> kind, from |-> <<>>, def |-> NoId, type |-> type]

DefinitionBindings(symbols) ==
  [n \in DOMAIN symbols |->
     [name |-> symbols[n].name, scope |-> 1, intro |-> symbols[n].span[1],
      kind |-> "Definition", from |-> <<>>, def |-> symbols[n].id, type |-> ""]]

ImportBindings(refs, scopes) ==
  LET imports == SelectSeq(refs, LAMBDA r : r.role = "Import")
  IN  [n \in DOMAIN imports |->
         [name |-> imports[n].name, scope |-> ScopeFor(imports[n].byte, scopes),
          intro |-> imports[n].byte, kind |-> "Import", from |-> imports[n].from_path,
          def |-> NoId, type |-> ""]]

(***************************************************************************)
(* The facts of a file.                                                    *)
(***************************************************************************)
FactsOf(definitions, others, references, scope_tree, LocalBindings(_), exports) ==
  Given(definitions, LAMBDA defs :
    Given(scope_tree, LAMBDA scopes :
      Given(Named(references), LAMBDA named :
        Given(AttachReferenceScopes(named, scopes), LAMBDA refs :
          [file |-> file, lang |-> lang, symbols |-> defs \o others, references |-> refs,
           scopes |-> scopes, exports |-> exports,
           bindings |-> LocalBindings(scopes) \o DefinitionBindings(defs)
                          \o ImportBindings(refs, scopes)]))))

KeepsEveryCopy(facts) == facts

(* dedupe_symbol_identities: of two definitions of one identity the first. *)
DedupeSymbolIdentities(facts) == [facts EXCEPT !.symbols = FirstById(@)]

(***************************************************************************)
(* validate_file_facts_with_context.                                       *)
(***************************************************************************)
ValidSpan(span, len) == span[1] <= span[2] /\ span[2] <= len

ContainsSpan(outer, inner) == outer[1] <= inner[1] /\ inner[2] <= outer[2]

QualifiedRoles == {"Call", "TypeRef", "IsImplementation", "Read"}

ValidReference(facts, r, len) ==
  /\ r.byte <= len
  /\ r.from_path # <<>> \/ r.reexport \/ r.imported_name # "" => r.role = "Import"
  /\ r.qualifier # <<>> => r.role \in QualifiedRoles
  /\ r.annotated => r.role = "TypeRef"
  /\ r.scope # 0 => Covers(facts.scopes[r.scope].span, r.byte)

ValidScope(facts, scope, len) ==
  /\ ValidSpan(scope.span, len)
  /\ scope.parent # 0 => ContainsSpan(facts.scopes[scope.parent].span, scope.span)

ValidBinding(facts, b) ==
  /\ Covers(facts.scopes[b.scope].span, b.intro)
  /\ b.kind = "Definition" <=> b.def # NoId
  /\ b.from # <<>> => b.kind = "Import"
  /\ b.kind = "Definition" => \E s \in Range(facts.symbols) : s.id = b.def

ValidInContext(facts, len) ==
  /\ ValidStructure(facts)
  /\ facts.file = file /\ facts.lang = lang
  /\ \A s \in Range(facts.symbols) :
       s.file = file /\ s.id.lang = lang /\ ValidSpan(s.span, len)
  /\ \A r \in Range(facts.references) : ValidReference(facts, r, len)
  /\ \A scope \in Range(facts.scopes) : ValidScope(facts, scope, len)
  /\ \A b \in Range(facts.bindings) : ValidBinding(facts, b)
  /\ \A e \in Range(facts.exports) : \E s \in Range(facts.symbols) : s.id = e.symbol

(***************************************************************************)
(* The foreign interfaces a Rust function is exported to (src/ffi): each   *)
(* interface has the attributes that export and those that rename.  An     *)
(* attribute is the sequence of its tokens, quotes left out.               *)
(***************************************************************************)
Specs ==
  <<[abi |-> "C", markers |-> {"no_mangle", "export_name"}, renames |-> {"export_name"}],
    [abi |-> "Python", markers |-> {"pyfunction"}, renames |-> {"pyfunction", "pyo3"}],
    [abi |-> "Wasm", markers |-> {"wasm_bindgen"}, renames |-> {"wasm_bindgen"}],
    [abi |-> "NodeApi", markers |-> {"napi"}, renames |-> {"napi"}]>>

JniPrefix == "Java_"

(* c_name_export_abi: a name the Java runtime looks up. *)
IsJniName(name) ==
  Len(name) >= Len(JniPrefix) /\ SubSeq(name, 1, Len(JniPrefix)) = JniPrefix

Begins(body, marker, next) == Len(body) > 1 /\ body[1] = marker /\ body[2] = next

ExactRustAttribute(body, marker) ==
  \/ body = <<marker>>
  \/ Begins(body, marker, "=")
  \/ Begins(body, marker, "(")
  \/ body = <<"unsafe", "(", marker, ")">>

(* The places where an argument is assigned to. *)
AssignedPlaces(body) == {n \in 2 .. Len(body) - 1 : body[n] = "="}

ExactRustAttributeAssignment(body, marker) ==
  \/ Begins(body, marker, "=")
  \/ Begins(body, marker, "(")
  \/ \E n \in AssignedPlaces(body) : Last(body) = ")" /\ body[n - 1] = marker

(* The first value that is assigned; "" when there is none. *)
AttributeAssignmentValue(body) ==
  LET first == {n \in AssignedPlaces(body) : \A o \in AssignedPlaces(body) : n <= o}
  IN  IF first = {} THEN "" ELSE body[(CHOOSE n \in first : TRUE) + 1]

(* The attributes come from the function upwards; the topmost name wins. *)
ExportName(spec, attrs, name) ==
  LET renaming == SelectSeq(Reverse(attrs), LAMBDA body :
                    /\ \E marker \in spec.renames : ExactRustAttributeAssignment(body, marker)
                    /\ AttributeAssignmentValue(body) # "")
  IN  IF renaming = <<>> THEN name ELSE AttributeAssignmentValue(Head(renaming))

ExportsOf(attrs, name) ==
  LET enabled == SelectSeq(Specs, LAMBDA spec :
                   \E n \in DOMAIN attrs : \E marker \in spec.markers :
                     ExactRustAttribute(attrs[n], marker))
      Export(spec) == LET called == ExportName(spec, attrs, name)
                      IN  [abi |-> IF IsJniName(called) THEN "Jni" ELSE spec.abi,
                           name |-> called]
  IN  [n \in DOMAIN enabled |-> Export(enabled[n])]
=============================================================================
