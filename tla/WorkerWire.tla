----------------------------- MODULE WorkerWire -----------------------------
(***************************************************************************)
(* What the refresh and its worker processes say to each other             *)
(* (cli/src/worker): frames with a length in front, the structural scan of *)
(* MessagePack values that comes before any of them is decoded, maps with  *)
(* numbers for keys, the conversion of facts to and from them, and what    *)
(* each side makes of what it reads.                                       *)
(*                                                                         *)
(* A stream is a sequence of cells.  A cell <<marker, n>> stands for the   *)
(* bytes of a marker and of the number or size after it, <<"char", c>> for *)
(* one byte of a text, and a frame begins with two cells, the first byte   *)
(* of its length and the other three.  Numbers are those of their field:   *)
(* widths are left out.                                                    *)
(***************************************************************************)
EXTENDS SymbolIds

CONSTANTS RequestFrameMax, ResponseFrameMax, MaxDepth, MaxStringBytes,
          MaxCollectionItems, MaxErrorMessageBytes

ProtocolVersion == 1

(***************************************************************************)
(* Types and the keys of the maps.  An option is <<>> or <<value>>.        *)
(***************************************************************************)
Num == <<"num">>
Bool == <<"bool">>
Str == <<"str">>
Bin == <<"bin">>
Option(type) == <<"option", type>>
Vec(type) == <<"vec", type>>
Dto(name) == <<"dto", name>>

Field(key, name, type) == [key |-> key, name |-> name, type |-> type, required |-> TRUE]
Optional(key, name, type) == [Field(key, name, type) EXCEPT !.required = FALSE]

QueryBindingRuleWire ==
  <<Field(0, "lang", Str), Field(1, "construct", Str), Field(2, "sql_arg", Num)>>

WorkerRequest ==
  <<Field(0, "version", Num), Field(1, "kind", Num), Field(2, "request_id", Num),
    Field(3, "path", Str), Field(4, "language", Num), Field(5, "source", Bin),
    Optional(6, "custom_rules", Vec(Dto("QueryBindingRuleWire")))>>

WorkerResponse ==
  <<Field(0, "version", Num), Field(1, "kind", Num), Field(2, "request_id", Num),
    Optional(3, "facts", Option(Dto("FileFactsWire"))),
    Optional(4, "error", Option(Dto("WorkerErrorWire")))>>

WorkerErrorWire == <<Field(0, "code", Num), Field(1, "message", Str)>>

FileFactsWire ==
  <<Field(0, "file", Str), Field(1, "lang", Str), Field(2, "symbols", Vec(Dto("SymbolWire"))),
    Field(3, "references", Vec(Dto("ReferenceWire"))), Field(4, "scopes", Vec(Dto("ScopeWire"))),
    Field(5, "bindings", Vec(Dto("BindingWire"))),
    Field(6, "ffi_exports", Vec(Dto("FfiExportWire")))>>

SymbolIdWireDto ==
  <<Field(0, "version", Num), Field(1, "scip", Str), Optional(2, "lang", Option(Str)),
    Optional(3, "file", Option(Str))>>

SymbolWire ==
  <<Field(0, "id", Dto("SymbolIdWireDto")), Field(1, "name", Str), Field(2, "kind", Num),
    Field(3, "visibility", Num), Field(4, "entry_points", Vec(Dto("EntryPointWire"))),
    Field(5, "file", Str), Field(6, "line", Num), Field(7, "span_start", Num),
    Field(8, "span_end", Num), Field(9, "signature", Str)>>

EntryPointWire == <<Field(0, "tag", Num), Optional(1, "value", Option(Str))>>

OccurrenceWire ==
  <<Field(0, "file", Str), Field(1, "line", Num), Field(2, "col", Num), Field(3, "byte", Num)>>

ReferenceWire ==
  <<Field(0, "name", Str), Field(1, "occ", Dto("OccurrenceWire")), Field(2, "role", Num),
    Optional(3, "source_module", Option(Str)), Optional(4, "from_path", Option(Str)),
    Optional(5, "qualifier", Option(Str)), Optional(6, "scope", Option(Num)),
    Optional(7, "type_ref_ctx", Option(Num)), Optional(8, "is_reexport", Option(Bool)),
    Optional(9, "imported_name", Option(Str)), Optional(10, "cross_artifact", Option(Bool)),
    Optional(11, "self_receiver", Option(Bool))>>

ScopeWire ==
  <<Optional(0, "parent", Option(Num)), Field(1, "start", Num), Field(2, "end", Num),
    Field(3, "kind", Num)>>

BindingWire ==
  <<Field(0, "scope", Num), Field(1, "name", Str), Field(2, "intro", Num), Field(3, "kind", Num),
    Field(4, "target_tag", Num), Optional(5, "target_value", Option(Str)),
    Optional(6, "target_id", Option(Dto("SymbolIdWireDto"))),
    Optional(7, "type_name", Option(Str))>>

FfiExportWire ==
  <<Field(0, "symbol", Dto("SymbolIdWireDto")), Field(1, "abi", Num),
    Field(2, "export_name", Str)>>

Fields ==
  [QueryBindingRuleWire |-> QueryBindingRuleWire, WorkerRequest |-> WorkerRequest,
   WorkerResponse |-> WorkerResponse, WorkerErrorWire |-> WorkerErrorWire,
   FileFactsWire |-> FileFactsWire, SymbolIdWireDto |-> SymbolIdWireDto,
   SymbolWire |-> SymbolWire, EntryPointWire |-> EntryPointWire,
   OccurrenceWire |-> OccurrenceWire, ReferenceWire |-> ReferenceWire,
   ScopeWire |-> ScopeWire, BindingWire |-> BindingWire, FfiExportWire |-> FfiExportWire]

(***************************************************************************)
(* Writing.                                                                *)
(***************************************************************************)
TextCells(marker, text) ==
  <<<<marker, Len(text)>>>> \o [n \in DOMAIN text |-> <<"char", text[n]>>]

RECURSIVE WriteValue(_, _)
WriteMap(fields, value) ==
  <<<<"map", Len(fields)>>>>
    \o FlattenSeq([n \in DOMAIN fields |->
         <<<<"num", fields[n].key>>>> \o WriteValue(fields[n].type, value[fields[n].name])])

WriteValue(type, value) ==
  CASE type[1] \in {"num", "bool"} -> <<<<type[1], value>>>>
    [] type[1] \in {"str", "bin"} -> TextCells(type[1], value)
    [] type[1] = "option" -> IF value = <<>> THEN <<<<"nil", 0>>>> ELSE WriteValue(type[2], value[1])
    [] type[1] = "vec" ->
         <<<<"array", Len(value)>>>>
           \o FlattenSeq([n \in DOMAIN value |-> WriteValue(type[2], value[n])])
    [] type[1] = "dto" -> WriteMap(Fields[type[2]], value)

(***************************************************************************)
(* The scan: where the value at a position ends, 0 when it is malformed.   *)
(***************************************************************************)
Take(cells, at, amount, most) ==
  IF amount > most \/ at + amount - 1 > Len(cells) THEN 0 ELSE at + amount

RECURSIVE ScanValue(_, _, _)
ScanMany(cells, at, values, depth) ==
  FoldLeft(LAMBDA position, n : IF position = 0 THEN 0 ELSE ScanValue(cells, position, depth),
           at, [n \in 1 .. values |-> n])

ScanValue(cells, at, depth) ==
  IF depth >= MaxDepth \/ at > Len(cells) THEN 0
  ELSE LET marker == cells[at][1]
           size == cells[at][2]
       IN  CASE marker \in {"num", "bool", "nil", "char"} -> at + 1
             [] marker = "str" -> Take(cells, at + 1, size, MaxStringBytes)
             [] marker = "bin" -> Take(cells, at + 1, size, RequestFrameMax)
             [] marker = "ext" -> Take(cells, at + 1, size + 1, MaxStringBytes + 1)
             [] marker \in {"array", "map"} /\ size > MaxCollectionItems -> 0
             [] marker = "array" /\ size <= MaxCollectionItems ->
                  ScanMany(cells, at + 1, size, depth + 1)
             [] marker = "map" /\ size <= MaxCollectionItems ->
                  ScanMany(cells, at + 1, 2 * size, depth + 1)
             [] marker = "reserved" -> 0

ScanOne(cells) == ScanValue(cells, 1, 0) = Len(cells) + 1

(***************************************************************************)
(* Reading.  The rest of a parse is the position after it.                 *)
(***************************************************************************)
ReadMarker(marker, cells, at) ==
  IF at > Len(cells) \/ cells[at][1] # marker THEN Failed("InvalidMarker")
  ELSE Parsed(cells[at][2], at + 1)

ReadText(marker, cells, at) ==
  Then(ReadMarker(marker, cells, at),
       LAMBDA size : Parsed([n \in 1 .. size.value |-> cells[at + n][2]], size.rest + size.value))

Known(fields, key) == {n \in DOMAIN fields : fields[n].key = key}

RECURSIVE ReadValue(_, _, _)

(* An unknown key is skipped with its value, a known one is there once. *)
ReadField(fields, cells, sofar) ==
  Then(ReadMarker("num", cells, sofar.rest),
       LAMBDA key :
         IF Known(fields, key.value) = {}
         THEN Parsed(sofar.value, ScanValue(cells, key.rest, 0))
         ELSE LET field == fields[CHOOSE n \in Known(fields, key.value) : TRUE]
              IN  IF field.name \in DOMAIN sofar.value THEN Failed("KeyDuplicated")
                  ELSE Then(ReadValue(field.type, cells, key.rest),
                            LAMBDA v : Parsed((field.name :> v.value) @@ sofar.value, v.rest)))

Completed(fields, found) ==
  IF \E field \in Range(fields) : field.required /\ field.name \notin DOMAIN found.value
  THEN Failed("KeyNotFound")
  ELSE Parsed([name \in {field.name : field \in Range(fields)} |->
                 IF name \in DOMAIN found.value THEN found.value[name] ELSE <<>>], found.rest)

ReadMap(fields, cells, at) ==
  Then(ReadMarker("map", cells, at),
       LAMBDA size :
         IF size.value > MaxCollectionItems THEN Failed("MapLengthMismatch")
         ELSE Then(FoldLeft(LAMBDA sofar, n :
                              Then(sofar, LAMBDA s : ReadField(fields, cells, s)),
                            Parsed(<<>>, size.rest), [n \in 1 .. size.value |-> n]),
                   LAMBDA found : Completed(fields, found)))

ReadVec(type, cells, at) ==
  Then(ReadMarker("array", cells, at),
       LAMBDA size :
         FoldLeft(LAMBDA sofar, n :
                    Then(sofar, LAMBDA s :
                      Then(ReadValue(type, cells, s.rest),
                           LAMBDA v : Parsed(Append(s.value, v.value), v.rest))),
                  Parsed(<<>>, size.rest), [n \in 1 .. size.value |-> n]))

ReadValue(type, cells, at) ==
  CASE type[1] \in {"num", "bool"} -> ReadMarker(type[1], cells, at)
    [] type[1] \in {"str", "bin"} -> ReadText(type[1], cells, at)
    [] type[1] = "option" ->
         IF ReadMarker("nil", cells, at).error = "" THEN Parsed(<<>>, at + 1)
         ELSE Then(ReadValue(type[2], cells, at), LAMBDA v : Parsed(<<v.value>>, v.rest))
    [] type[1] = "vec" -> ReadVec(type[2], cells, at)
    [] type[1] = "dto" -> ReadMap(Fields[type[2]], cells, at)

(***************************************************************************)
(* Frames.                                                                 *)
(***************************************************************************)
PrefixLen == 2

EncodeFrame(payload, max) ==
  IF payload = <<>> \/ Len(payload) > max THEN Failed("FrameTooLarge")
  ELSE Parsed(<<<<"first", Len(payload)>>, <<"others", Len(payload)>>>> \o payload, <<>>)

FrameLength(prefixed, max) ==
  LET length == prefixed[2][2]
  IN  IF length = 0 THEN Failed("Malformed")
      ELSE IF length > max THEN Failed("FrameTooLarge") ELSE Parsed(length, <<>>)

(* One frame off a stream, and what is left of the stream. *)
ReadFrame(stream, max) ==
  IF stream = <<>> THEN Failed("None")
  ELSE IF Len(stream) < PrefixLen THEN Failed("Truncated")
  ELSE Then(FrameLength(stream, max),
            LAMBDA length :
              IF Len(stream) < PrefixLen + length.value THEN Failed("Truncated")
              ELSE Parsed(SubSeq(stream, 1, PrefixLen + length.value),
                          From(stream, PrefixLen + length.value + 1)))

DecodeFrame(dto, frame, max) ==
  IF Len(frame) < PrefixLen THEN Failed("Malformed")
  ELSE Then(FrameLength(frame, max),
            LAMBDA length :
              IF Len(frame) # PrefixLen + length.value THEN Failed("Malformed")
              ELSE LET payload == From(frame, PrefixLen + 1)
                   IN  IF ~ScanOne(payload) THEN Failed("Malformed")
                       ELSE ReadMap(Fields[dto], payload, 1))

(***************************************************************************)
(* Tags.  Writing matches on the value, reading indexes a list: the two    *)
(* are kept apart as the code keeps them.                                  *)
(***************************************************************************)
LanguageToTag ==
  [Rust |-> 0, TypeScript |-> 1, JavaScript |-> 2, Python |-> 3, Go |-> 4, Shell |-> 5, C |-> 6,
   Cpp |-> 7, Java |-> 8, Ruby |-> 9, Php |-> 10, Swift |-> 11, Kotlin |-> 12, Solidity |-> 13,
   Sql |-> 14, Hcl |-> 15, CSharp |-> 16, Scala |-> 17, Dart |-> 18, Lua |-> 19, Luau |-> 20,
   Pascal |-> 21, Svelte |-> 22]

LanguagesByTag ==
  <<"Rust", "TypeScript", "JavaScript", "Python", "Go", "Shell", "C", "Cpp", "Java", "Ruby",
    "Php", "Swift", "Kotlin", "Solidity", "Sql", "Hcl", "CSharp", "Scala", "Dart", "Lua", "Luau",
    "Pascal", "Svelte">>

SymbolKindTag ==
  [Function |-> 0, Method |-> 1, Struct |-> 2, Enum |-> 3, Trait |-> 4, Interface |-> 5,
   Class |-> 6, TypeAlias |-> 7, Const |-> 8, Static |-> 9, Module |-> 10, Impl |-> 11,
   Table |-> 12, View |-> 13, Column |-> 14, Resource |-> 15, Other |-> 16, Field |-> 17,
   Variant |-> 18]
SymbolKindsByTag ==
  <<"Function", "Method", "Struct", "Enum", "Trait", "Interface", "Class", "TypeAlias", "Const",
    "Static", "Module", "Impl", "Table", "View", "Column", "Resource", "Other", "Field",
    "Variant">>

VisibilityTag == [Public |-> 0, Internal |-> 1, Protected |-> 2, Private |-> 3, Unknown |-> 4]
VisibilitiesByTag == <<"Public", "Internal", "Protected", "Private", "Unknown">>

RefRoleTag ==
  [Call |-> 0, IsImplementation |-> 1, Import |-> 2, ModuleRef |-> 3, TypeRef |-> 4, Read |-> 5,
   Write |-> 6]
RefRolesByTag == <<"Call", "IsImplementation", "Import", "ModuleRef", "TypeRef", "Read", "Write">>

TypeRefContextTag ==
  [ParameterType |-> 0, ReturnType |-> 1, Field |-> 2, GenericArg |-> 3, Attribute |-> 4,
   Other |-> 5]
TypeRefContextsByTag ==
  <<"ParameterType", "ReturnType", "Field", "GenericArg", "Attribute", "Other">>

ScopeKindTag == [Module |-> 0, Function |-> 1, Block |-> 2, Type |-> 3, Other |-> 4]
ScopeKindsByTag == <<"Module", "Function", "Block", "Type", "Other">>

BindingKindTag == [Local |-> 0, Param |-> 1, Import |-> 2, Definition |-> 3]
BindingKindsByTag == <<"Local", "Param", "Import", "Definition">>

FfiAbiTag == [C |-> 0, Python |-> 1, Wasm |-> 2, NodeApi |-> 3, Jni |-> 4]
FfiAbisByTag == <<"C", "Python", "Wasm", "NodeApi", "Jni">>

IsTag(tag, values) == tag + 1 \in DOMAIN values
ByTag(tag, values) == values[tag + 1]

(***************************************************************************)
(* Facts to the wire.                                                      *)
(***************************************************************************)
EntryPointToWire(entry) ==
  IF entry.kind = "Main" THEN [tag |-> 0, value |-> <<>>]
  ELSE [tag |-> 1, value |-> <<entry.value>>]

SymbolToWire(s) ==
  [id |-> ToWire(s.id), name |-> s.name, kind |-> SymbolKindTag[s.kind],
   visibility |-> VisibilityTag[s.visibility],
   entry_points |-> [n \in DOMAIN s.entry_points |-> EntryPointToWire(s.entry_points[n])],
   file |-> s.file, line |-> s.line, span_start |-> s.span[1], span_end |-> s.span[2],
   signature |-> s.signature]

ReferenceToWire(r) ==
  [name |-> r.name, occ |-> r.occ, role |-> RefRoleTag[r.role],
   source_module |-> r.source_module, from_path |-> r.from_path,
   imported_name |-> r.imported_name, is_reexport |-> <<r.is_reexport>>,
   qualifier |-> r.qualifier, scope |-> r.scope,
   type_ref_ctx |-> [n \in DOMAIN r.type_ref_ctx |-> TypeRefContextTag[r.type_ref_ctx[n]]],
   cross_artifact |-> <<r.cross_artifact>>, self_receiver |-> <<r.self_receiver>>]

ScopeToWire(s) ==
  [parent |-> s.parent, start |-> s.span[1], end |-> s.span[2], kind |-> ScopeKindTag[s.kind]]

TargetTag == [Local |-> 0, Import |-> 1, Def |-> 2]

BindingToWire(b) ==
  [scope |-> b.scope, name |-> b.name, intro |-> b.intro, kind |-> BindingKindTag[b.kind],
   target_tag |-> TargetTag[b.target.kind], target_value |-> b.target.value,
   target_id |-> [n \in DOMAIN b.target.id |-> ToWire(b.target.id[n])],
   type_name |-> b.type_name]

FfiExportToWire(e) ==
  [symbol |-> ToWire(e.symbol), abi |-> FfiAbiTag[e.abi], export_name |-> e.export_name]

FactsToWire(f) ==
  [file |-> f.file, lang |-> f.lang,
   symbols |-> [n \in DOMAIN f.symbols |-> SymbolToWire(f.symbols[n])],
   references |-> [n \in DOMAIN f.references |-> ReferenceToWire(f.references[n])],
   scopes |-> [n \in DOMAIN f.scopes |-> ScopeToWire(f.scopes[n])],
   bindings |-> [n \in DOMAIN f.bindings |-> BindingToWire(f.bindings[n])],
   ffi_exports |-> [n \in DOMAIN f.ffi_exports |-> FfiExportToWire(f.ffi_exports[n])]]

(***************************************************************************)
(* Facts from the wire: what is refused, and what the rest becomes.        *)
(***************************************************************************)
Cap(texts) == \A text \in texts : Len(text) <= MaxStringBytes
CapOption(option) == Cap(Range(option))
CapCollection(items) == Len(items) <= MaxCollectionItems

IdFrom(wire) == TryFromWire(wire)

AcceptsId(w) ==
  Cap({w.scip}) /\ CapOption(w.lang) /\ CapOption(w.file) /\ IdFrom(w).error = ""

AcceptsEntryPoint(e) ==
  \/ e.tag = 0 /\ e.value = <<>>
  \/ e.tag = 1 /\ e.value # <<>> /\ CapOption(e.value)

AcceptsSymbol(w) ==
  /\ Cap({w.name, w.file, w.signature})
  /\ CapCollection(w.entry_points)
  /\ AcceptsId(w.id)
  /\ IsTag(w.kind, SymbolKindsByTag) /\ IsTag(w.visibility, VisibilitiesByTag)
  /\ \A entry \in Range(w.entry_points) : AcceptsEntryPoint(entry)

EntryPointFromWire(e) ==
  IF e.tag = 0 THEN [kind |-> "Main", value |-> <<>>]
  ELSE [kind |-> "HttpRoute", value |-> e.value[1]]

SymbolFromWire(w) ==
  [id |-> IdFrom(w.id).value, name |-> w.name, kind |-> ByTag(w.kind, SymbolKindsByTag),
   visibility |-> ByTag(w.visibility, VisibilitiesByTag),
   entry_points |-> [n \in DOMAIN w.entry_points |-> EntryPointFromWire(w.entry_points[n])],
   file |-> w.file, line |-> w.line, span |-> <<w.span_start, w.span_end>>,
   signature |-> w.signature]

AcceptsReference(w) ==
  /\ Cap({w.name, w.occ.file})
  /\ \A option \in {w.source_module, w.from_path, w.imported_name, w.qualifier} :
       CapOption(option)
  /\ IsTag(w.role, RefRolesByTag)
  /\ \A context \in Range(w.type_ref_ctx) : IsTag(context, TypeRefContextsByTag)

IsSet(flag) == flag = <<TRUE>>

ReferenceFromWire(w) ==
  [name |-> w.name, occ |-> w.occ, role |-> ByTag(w.role, RefRolesByTag),
   source_module |-> w.source_module, from_path |-> w.from_path,
   imported_name |-> w.imported_name, is_reexport |-> IsSet(w.is_reexport),
   qualifier |-> w.qualifier, scope |-> w.scope,
   type_ref_ctx |-> [n \in DOMAIN w.type_ref_ctx |->
                       ByTag(w.type_ref_ctx[n], TypeRefContextsByTag)],
   cross_artifact |-> IsSet(w.cross_artifact), self_receiver |-> IsSet(w.self_receiver)]

AcceptsScope(w) == IsTag(w.kind, ScopeKindsByTag)

ScopeFromWire(w) ==
  [parent |-> w.parent, span |-> <<w.start, w.end>>, kind |-> ByTag(w.kind, ScopeKindsByTag)]

AcceptsTarget(w) ==
  \/ w.target_tag = 0 /\ w.target_value = <<>> /\ w.target_id = <<>>
  \/ w.target_tag = 1 /\ w.target_value # <<>> /\ w.target_id = <<>>
  \/ w.target_tag = 2 /\ w.target_value = <<>> /\ w.target_id # <<>> /\ AcceptsId(w.target_id[1])

AcceptsBinding(w) ==
  /\ Cap({w.name}) /\ CapOption(w.target_value) /\ CapOption(w.type_name)
  /\ AcceptsTarget(w)
  /\ IsTag(w.kind, BindingKindsByTag)

BindingFromWire(w) ==
  [scope |-> w.scope, name |-> w.name, intro |-> w.intro,
   kind |-> ByTag(w.kind, BindingKindsByTag),
   target |-> [kind |-> ByTag(w.target_tag, <<"Local", "Import", "Def">>),
               value |-> w.target_value,
               id |-> [n \in DOMAIN w.target_id |-> IdFrom(w.target_id[n]).value]],
   type_name |-> w.type_name]

AcceptsFfiExport(w) ==
  Cap({w.export_name}) /\ AcceptsId(w.symbol) /\ IsTag(w.abi, FfiAbisByTag)

FfiExportFromWire(w) ==
  [symbol |-> IdFrom(w.symbol).value, abi |-> ByTag(w.abi, FfiAbisByTag),
   export_name |-> w.export_name]

AcceptsFacts(w) ==
  /\ Cap({w.file, w.lang})
  /\ CapCollection(w.symbols) /\ CapCollection(w.references) /\ CapCollection(w.scopes)
  /\ CapCollection(w.bindings) /\ CapCollection(w.ffi_exports)
  /\ \A symbol \in Range(w.symbols) : AcceptsSymbol(symbol)
  /\ \A reference \in Range(w.references) : AcceptsReference(reference)
  /\ \A scope \in Range(w.scopes) : AcceptsScope(scope)
  /\ \A binding \in Range(w.bindings) : AcceptsBinding(binding)
  /\ \A export \in Range(w.ffi_exports) : AcceptsFfiExport(export)

FactsFromWire(w) ==
  [file |-> w.file, lang |-> w.lang,
   symbols |-> [n \in DOMAIN w.symbols |-> SymbolFromWire(w.symbols[n])],
   references |-> [n \in DOMAIN w.references |-> ReferenceFromWire(w.references[n])],
   scopes |-> [n \in DOMAIN w.scopes |-> ScopeFromWire(w.scopes[n])],
   bindings |-> [n \in DOMAIN w.bindings |-> BindingFromWire(w.bindings[n])],
   ffi_exports |-> [n \in DOMAIN w.ffi_exports |-> FfiExportFromWire(w.ffi_exports[n])]]

(***************************************************************************)
(* What facts must satisfy of themselves, and for one source file.         *)
(* Scopes are counted from 0.                                              *)
(***************************************************************************)
ScopeAt(facts, index) == facts.scopes[index + 1]
IsScope(facts, index) == index + 1 \in DOMAIN facts.scopes

EndsInRoot(facts, start) ==
  LET Up(index) == IF ScopeAt(facts, index).parent = <<>> THEN index
                   ELSE ScopeAt(facts, index).parent[1]
  IN  ScopeAt(facts, FoldLeft(LAMBDA at, n : Up(at), start, facts.scopes)).parent = <<>>

ValidStructure(facts) ==
  /\ \A i, j \in DOMAIN facts.symbols : facts.symbols[i].id = facts.symbols[j].id => i = j
  /\ \A scope \in Range(facts.scopes) : \A parent \in Range(scope.parent) : IsScope(facts, parent)
  /\ \A n \in DOMAIN facts.scopes : EndsInRoot(facts, n - 1)
  /\ \A reference \in Range(facts.references) :
       \A scope \in Range(reference.scope) : IsScope(facts, scope)
  /\ \A binding \in Range(facts.bindings) : IsScope(facts, binding.scope)

ValidSpan(span, source_len) == span[1] <= span[2] /\ span[2] <= source_len

Covers(span, byte) == span[1] <= byte /\ byte < span[2]

ContainsSpan(parent, child) == parent[1] <= child[1] /\ child[2] <= parent[2]

ValidIdentity(id, context) ==
  IF id.variant = "Global" THEN id.lang = context.lang ELSE id.file = context.file

ValidOccurrence(occ, context) ==
  occ.file = context.file /\ occ.line # 0 /\ occ.byte <= context.source_len

ValidReference(r, facts, context) ==
  /\ ValidOccurrence(r.occ, context)
  /\ \/ r.role = "Import"
     \/ r.source_module = <<>> /\ r.from_path = <<>> /\ ~r.is_reexport /\ r.imported_name = <<>>
  /\ r.qualifier # <<>> => r.role \in {"Call", "TypeRef", "IsImplementation", "Read"}
  /\ \A scope \in Range(r.scope) : Covers(ScopeAt(facts, scope).span, r.occ.byte)
  /\ r.type_ref_ctx # <<>> => r.role = "TypeRef"

BindingTargetMatchesKind(b) ==
  b.target.kind = CASE b.kind \in {"Local", "Param"} -> "Local"
                    [] b.kind = "Import" -> "Import"
                    [] b.kind = "Definition" -> "Def"

Owns(facts, id, context) ==
  ValidIdentity(id, context) /\ \E symbol \in Range(facts.symbols) : symbol.id = id

ValidInContext(facts, context) ==
  /\ ValidStructure(facts)
  /\ facts.file = context.file /\ facts.lang = context.lang
  /\ \A s \in Range(facts.symbols) :
       /\ s.file = context.file /\ s.line # 0
       /\ ValidSpan(s.span, context.source_len) /\ ValidIdentity(s.id, context)
  /\ \A r \in Range(facts.references) : ValidReference(r, facts, context)
  /\ \A s \in Range(facts.scopes) :
       /\ ValidSpan(s.span, context.source_len)
       /\ \A parent \in Range(s.parent) : ContainsSpan(ScopeAt(facts, parent).span, s.span)
  /\ \A b \in Range(facts.bindings) :
       /\ Covers(ScopeAt(facts, b.scope).span, b.intro)
       /\ BindingTargetMatchesKind(b)
       /\ \A id \in Range(b.target.id) : Owns(facts, id, context)
  /\ \A e \in Range(facts.ffi_exports) : Owns(facts, e.symbol, context)

(***************************************************************************)
(* Languages.  A word of letters is one character of a text.               *)
(***************************************************************************)
Extensions ==
  [Rust |-> {"rs"}, TypeScript |-> {"ts", "tsx"}, JavaScript |-> {"js", "jsx", "mjs", "cjs"},
   Python |-> {"py", "pyi"}, Go |-> {"go"}, Shell |-> {"sh", "bash", "zsh"}, C |-> {"c", "h"},
   Cpp |-> {"cc", "cpp", "cxx", "hh", "hpp", "hxx"}, Java |-> {"java"}, Ruby |-> {"rb"},
   Php |-> {"php"}, Swift |-> {"swift"}, Kotlin |-> {"kt", "kts"}, Solidity |-> {"sol"},
   Sql |-> {"sql"}, Hcl |-> {"tf", "hcl", "tfvars"}, CSharp |-> {"cs"},
   Scala |-> {"scala", "sc"}, Dart |-> {"dart"}, Lua |-> {"lua"}, Luau |-> {"luau"},
   Pascal |-> {"pas", "dpr", "dpk", "lpr"}, Svelte |-> {"svelte"}]

AsStr ==
  [Rust |-> "rust", TypeScript |-> "typescript", JavaScript |-> "javascript",
   Python |-> "python", Go |-> "go", Shell |-> "shell", C |-> "c", Cpp |-> "cpp",
   Java |-> "java", Ruby |-> "ruby", Php |-> "php", Swift |-> "swift", Kotlin |-> "kotlin",
   Solidity |-> "solidity", Sql |-> "sql", Hcl |-> "hcl", CSharp |-> "csharp",
   Scala |-> "scala", Dart |-> "dart", Lua |-> "lua", Luau |-> "luau", Pascal |-> "pascal",
   Svelte |-> "svelte"]

All == Range(LanguagesByTag)

FromTag(text) == {language \in All : <<AsStr[language]>> = text}

InLowercase(word) == IF word = "RS" THEN "rs" ELSE word

(* What follows the last dot decides. *)
FromPath(text) ==
  {language \in All : /\ text # <<>>
                      /\ InLowercase(Last(text)) \in Extensions[language]
                      /\ Len(text) > 1 => text[Len(text) - 1] = "."}

(***************************************************************************)
(* Requests.  A file of the inventory is its path, its language, its bytes *)
(* and what was noted of them; "invalid" is a byte that UTF-8 has not, and *)
(* a digest tells contents apart as they do themselves.                    *)
(***************************************************************************)
Components(text) ==
  LET slashes == {0, Len(text) + 1} \cup {n \in DOMAIN text : text[n] = "/"}
  IN  {SubSeq(text, pair[1] + 1, pair[2] - 1) :
         pair \in {p \in slashes \X slashes :
                     p[1] < p[2] /\ \A n \in slashes : n <= p[1] \/ n >= p[2]}}

IsProjectPath(text) ==
  /\ text # <<>> /\ text[1] # "/"
  /\ Components(text) \cap {<<".">>, <<".", ".">>} = {}

IsUtf8(bytes) == "invalid" \notin Range(bytes)

ValidInventoryFile(file) ==
  /\ Cap({file.path}) /\ Len(file.bytes) <= RequestFrameMax
  /\ IsUtf8(file.bytes) /\ file.text = file.bytes
  /\ FromPath(file.path) = {file.language}
  /\ file.digest = file.bytes

RequestLanguage(request) == ByTag(request.language, LanguagesByTag)

ValidRequest(request) ==
  /\ request.version = ProtocolVersion /\ request.kind = 1
  /\ Len(request.source) <= RequestFrameMax
  /\ Cap({request.path}) /\ IsProjectPath(request.path)
  /\ IsUtf8(request.source)
  /\ IsTag(request.language, LanguagesByTag)
  /\ FromPath(request.path) = {RequestLanguage(request)}

(* What the parent sends for a file, refused when it does not match it. *)
FromInventoryFile(request_id, file, rules) ==
  [version |-> ProtocolVersion, kind |-> 1, request_id |-> request_id, path |-> file.path,
   language |-> LanguageToTag[file.language], source |-> file.bytes,
   custom_rules |-> [n \in DOMAIN rules |-> [rules[n] EXCEPT !.lang = <<AsStr[@]>>]]]

ValidRequestForFile(request, file) ==
  /\ ValidInventoryFile(file) /\ ValidRequest(request)
  /\ request.path = file.path /\ request.source = file.bytes
  /\ RequestLanguage(request) = file.language

RequestFrame(request, file) ==
  IF ~ValidRequestForFile(request, file) THEN Failed("Facts")
  ELSE EncodeFrame(WriteMap(WorkerRequest, request), RequestFrameMax)

(***************************************************************************)
(* The worker.  What extraction makes of a file is given: its facts, or    *)
(* the message of its failure.                                             *)
(***************************************************************************)
Rule(lang, construct, sql_arg) ==
  [lang |-> lang, construct |-> construct, sql_arg |-> sql_arg]

DefaultRules ==
  <<Rule("Rust", <<"sqlx::query">>, 0), Rule("Rust", <<"sqlx::query_as">>, 0),
    Rule("Rust", <<"sqlx::query_scalar">>, 0), Rule("Rust", <<"diesel::sql_query">>, 0),
    Rule("TypeScript", <<"knex.raw">>, 0), Rule("JavaScript", <<"knex.raw">>, 0),
    Rule("Python", <<"execute">>, 0), Rule("Python", <<"text">>, 0)>>

(* The rules extraction runs under; one it cannot use is passed over. *)
RulesFor(request) ==
  LET Usable(wire) == Cap({wire.lang, wire.construct}) /\ FromTag(wire.lang) # {}
      usable == SelectSeq(request.custom_rules, Usable)
  IN  DefaultRules \o [n \in DOMAIN usable |->
                         [usable[n] EXCEPT !.lang = CHOOSE l \in FromTag(@) : TRUE]]

ErrorCode == [Extraction |-> 1, InvalidRequest |-> 2, Internal |-> 3, InvalidFacts |-> 4]

Response(request, facts, error) ==
  [version |-> ProtocolVersion, kind |-> 2, request_id |-> request.request_id,
   facts |-> facts, error |-> error]

RemoteError(request, code, message) ==
  Response(request, <<>>, <<[code |-> ErrorCode[code], message |-> message]>>)

ProcessRequest(request, extracted) ==
  IF ~ValidRequest(request)
  THEN RemoteError(request, "InvalidRequest", <<"invalid request">>)
  ELSE IF extracted.facts = <<>> THEN RemoteError(request, "Extraction", extracted.message)
  ELSE IF ~ValidStructure(extracted.facts[1])
  THEN RemoteError(request, "InvalidFacts", <<"invalid facts">>)
  ELSE Response(request, <<FactsToWire(extracted.facts[1])>>, <<>>)

(* One reply after each request until the input ends; a frame that cannot  *)
(* be read or written ends the worker as a failure.                        *)
RECURSIVE RunWorker(_, _, _)
RunWorker(input, output, extracted) ==
  LET frame == ReadFrame(input, RequestFrameMax)
      request == Then(frame, LAMBDA f : DecodeFrame("WorkerRequest", f.value, RequestFrameMax))
      reply == Then(request, LAMBDA r :
                 EncodeFrame(WriteMap(WorkerResponse,
                               ProcessRequest(r.value, extracted[r.value.path])),
                             ResponseFrameMax))
  IN  IF reply.error # "" THEN [output |-> output, clean |-> frame.error = "None"]
      ELSE RunWorker(frame.rest, output \o reply.value, extracted)

(***************************************************************************)
(* The parent.                                                             *)
(***************************************************************************)
Delivered(facts) == [kind |-> "Facts", facts |-> <<facts>>, code |-> 0, message |-> <<>>]
Failure(kind) == [kind |-> kind, facts |-> <<>>, code |-> 0, message |-> <<>>]
InvalidFacts(message) == [Failure("InvalidFacts") EXCEPT !.message = message]
Remote(code, message) == [Failure("Remote") EXCEPT !.code = code, !.message = message]

ReceivedFacts(wire, request) ==
  IF ~AcceptsFacts(wire) THEN Failure("Protocol")
  ELSE LET facts == FactsFromWire(wire)
       IN  IF ValidInContext(facts, [file |-> request.path,
                                     lang |-> <<AsStr[RequestLanguage(request)]>>,
                                     source_len |-> Len(request.source)])
           THEN Delivered(facts) ELSE InvalidFacts(<<"invalid facts">>)

ReceivedError(error) ==
  IF Len(error.message) > MaxErrorMessageBytes \/ error.code \notin Range(ErrorCode)
  THEN Failure("Protocol")
  ELSE IF error.code = ErrorCode["InvalidFacts"] THEN InvalidFacts(error.message)
  ELSE Remote(error.code, error.message)

IsAnswer(response, request) ==   \* whichever request it answers
  response.version = ProtocolVersion /\ response.kind = 2

Correlates(response, request) ==
  /\ response.version = ProtocolVersion /\ response.kind = 2
  /\ response.request_id = request.request_id

ValidateResponse(response, request) ==
  IF \/ ~ValidRequest(request)
     \/ ~Correlates(response, request)
     \/ (response.facts = <<>>) = (response.error = <<>>)
  THEN Failure("Protocol")
  ELSE IF response.facts # <<>> THEN ReceivedFacts(response.facts[1], request)
  ELSE ReceivedError(response.error[1])

Received(frame, request) ==
  LET response == DecodeFrame("WorkerResponse", frame, ResponseFrameMax)
  IN  IF response.error # "" THEN Failure("Protocol")
      ELSE ValidateResponse(response.value, request)

(* A pooled worker: one frame off its output, which ends where it died. *)
ReadReply(stdout, request) ==
  LET frame == ReadFrame(stdout, ResponseFrameMax)
  IN  IF frame.error \in {"None", "Truncated"} THEN Failure("Transport")
      ELSE IF frame.error # "" THEN Failure("Protocol")
      ELSE Received(frame.value, request)

Legacy(outcome) ==
  CASE outcome.kind = "Remote" -> Remote(outcome.code, <<>>)
    [] outcome.kind = "InvalidFacts" -> Remote(ErrorCode["Extraction"], <<>>)
    [] outcome.kind \notin {"Remote", "InvalidFacts"} -> outcome

(* A worker of its own for one file: all it wrote, and how it exited. *)
OneShot(worker, request) ==
  IF ~worker.clean THEN Failure("Exit")
  ELSE IF Len(worker.output) > ResponseFrameMax THEN Failure("Protocol")
  ELSE Legacy(Received(worker.output, request))
=============================================================================
