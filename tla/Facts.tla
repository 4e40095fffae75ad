------------------------------- MODULE Facts -------------------------------
(***************************************************************************)
(* The facts extraction leaves behind for one file, and the questions that *)
(* every resolver asks of them (src/graph, src/symbol, resolve/support.rs  *)
(* and the scope walk of resolve/incremental/subgraph.rs).                 *)
(*                                                                         *)
(* Names and path segments are strings, a written path is the sequence of  *)
(* its segments with the anchors ("crate", "super", ...) still in it, and  *)
(* an absent optional value is <<>>, "" or 0.  Byte offsets are numbers;   *)
(* lines, columns, signatures and visibilities, which no resolver reads,   *)
(* are left out.                                                           *)
(***************************************************************************)
EXTENDS Integers, Sequences, FiniteSets, SequencesExt

(* A value computed once and used by name. *)
Given(value, Use(_)) == CHOOSE result \in {Use(v) : v \in {value}} : TRUE

Roles == {"Call", "IsImplementation", "Import", "ModuleRef", "TypeRef",
          "Read", "Write"}

(***************************************************************************)
(* Identities.  A descriptor is a pair <<kind, name>>; a global identity   *)
(* is a language and a path of descriptors, a local one a file and the     *)
(* place of the binding.                                                   *)
(***************************************************************************)
GlobalId(lang, path) == [lang |-> lang, path |-> path, file |-> "", at |-> <<>>]
LocalId(file, scope, name, intro) ==
  [lang |-> "", path |-> <<>>, file |-> file, at |-> <<scope, name, intro>>]
NoId == GlobalId("", <<>>)

DescriptorNames(id) == [i \in DOMAIN id.path |-> id.path[i][2]]

Namespaces(id) ==
  LET spaces == SelectSeq(id.path, LAMBDA d : d[1] = "Namespace")
  IN  [i \in DOMAIN spaces |-> spaces[i][2]]

LeafName(id) == IF id.path = <<>> THEN "" ELSE Last(id.path)[2]

EndsWith(names, segs) == segs # <<>> /\ IsSuffix(segs, names)

NamespacesEndWith(id, segs) == EndsWith(Namespaces(id), segs)

EnclosingPathEndsWith(id, segs) ==
  /\ Len(id.path) > 1
  /\ EndsWith(Front(DescriptorNames(id)), segs)

Anchors == {"", ".", "..", "crate", "self", "super"}

NormalizeFromPath(path) == SelectSeq(path, LAMBDA s : s \notin Anchors)

(***************************************************************************)
(* Definitions and where a reference stands in them.                       *)
(***************************************************************************)
TypeKinds == {"Struct", "Enum", "Trait", "Class", "Interface", "TypeAlias",
              "Table", "View"}

SymbolKinds ==
  TypeKinds \cup {"Function", "Method", "Field", "Variant", "Const", "Static",
                  "Module", "Impl", "Column", "Resource", "Other"}

IsTypeKind(symbol) == symbol.kind \in TypeKinds

(* The entries of a list at the chosen positions, in their order. *)
EntriesAt(list, chosen) ==
  LET kept[n \in 0 .. Len(list)] ==
        IF n = 0 THEN <<>>
        ELSE IF n \in chosen THEN Append(kept[n - 1], list[n]) ELSE kept[n - 1]
  IN  kept[Len(list)]

(* retain_first_symbol_by_id: one record per identity, the first. *)
FirstById(symbols) ==
  EntriesAt(symbols, {i \in DOMAIN symbols :
                        \A j \in 1 .. i - 1 : symbols[j].id # symbols[i].id})

Covers(span, byte) == span[1] <= byte /\ byte < span[2]

SpanLen(span) == IF span[2] > span[1] THEN span[2] - span[1] ELSE 0

(* The first of the smallest spans around the byte; 0 when there is none. *)
EnclosingSymbolIndex(symbols, byte) ==
  LET around == {i \in DOMAIN symbols : Covers(symbols[i].span, byte)}
      Smaller(i, j) == \/ SpanLen(symbols[i].span) < SpanLen(symbols[j].span)
                       \/ /\ SpanLen(symbols[i].span) = SpanLen(symbols[j].span)
                          /\ i <= j
  IN  IF around = {} THEN 0
      ELSE CHOOSE i \in around : \A j \in around : Smaller(i, j)

(***************************************************************************)
(* validate_structure: what a resolver refuses.  Every scope is walked     *)
(* towards its root for as many hops as there are scopes.                  *)
(***************************************************************************)
Climb(scopes, start) ==
  LET walk[hops \in Nat] ==
        IF hops = 0 THEN start
        ELSE LET here == walk[hops - 1]
             IN  IF scopes[here].parent = 0 THEN here ELSE scopes[here].parent
  IN  walk[Len(scopes)]

HasParentCycle(scopes) ==
  \E start \in DOMAIN scopes : scopes[Climb(scopes, start)].parent # 0

ValidStructure(facts) ==
  /\ \A i, j \in DOMAIN facts.symbols :
       facts.symbols[i].id = facts.symbols[j].id => i = j
  /\ \A s \in DOMAIN facts.scopes : facts.scopes[s].parent \in 0 .. Len(facts.scopes)
  /\ ~HasParentCycle(facts.scopes)
  /\ \A r \in Range(facts.references) : r.scope \in 0 .. Len(facts.scopes)
  /\ \A b \in Range(facts.bindings) : b.scope \in DOMAIN facts.scopes

(***************************************************************************)
(* A reference as extraction first writes it down.  Qualifiers and import  *)
(* paths are sequences of segments; "annotated" says that a type reference *)
(* knows the position it stands in.                                        *)
(***************************************************************************)
Ref(name, role, byte) ==
  [name |-> name, role |-> role, byte |-> byte, qualifier |-> <<>>,
   annotated |-> FALSE, cross |-> FALSE, scope |-> 0, from_path |-> <<>>,
   imported_name |-> "", reexport |-> FALSE, self_receiver |-> FALSE]

(***************************************************************************)
(* scope_walk: the binding a name means at a byte, looking outwards from a *)
(* scope for at most as many steps as there are scopes.                    *)
(***************************************************************************)
IsVisible(binding, byte) == binding.kind = "Local" => binding.intro <= byte

NoBinding == [name |-> "", scope |-> 0, intro |-> 0, kind |-> "None",
              from |-> <<>>, def |-> NoId, type |-> ""]

(* On shadowing the latest introduction wins, and the last of equals. *)
WinnerIn(scope, name, byte, bindings) ==
  LET seen == {i \in DOMAIN bindings :
                 /\ bindings[i].scope = scope
                 /\ bindings[i].name = name
                 /\ IsVisible(bindings[i], byte)}
      Later(i, j) == \/ bindings[i].intro > bindings[j].intro
                     \/ (bindings[i].intro = bindings[j].intro /\ i >= j)
  IN  IF seen = {} THEN NoBinding
      ELSE bindings[CHOOSE i \in seen : \A j \in seen : Later(i, j)]

ScopeWalk(name, byte, start, scopes, bindings) ==
  LET place[hop \in Nat] ==
        IF hop = 0 THEN start
        ELSE IF place[hop - 1] \notin DOMAIN scopes THEN 0 ELSE scopes[place[hop - 1]].parent
      Winner(hop) == WinnerIn(place[hop], name, byte, bindings)
      bound == {hop \in 0 .. Len(scopes) - 1 : Winner(hop) # NoBinding}
  IN  IF bound = {} THEN NoBinding ELSE Winner(Min(bound))

(***************************************************************************)
(* Edges of a resolved graph.  The key leaves the confidence out.          *)
(***************************************************************************)
Confidences == <<"Heuristic", "NameOnly", "Scoped", "Exact">>

Rank(confidence) == CHOOSE i \in DOMAIN Confidences : Confidences[i] = confidence

Edge(from, to, role, confidence, provenance, occ) ==
  [from |-> from, to |-> to, role |-> role, confidence |-> confidence,
   provenance |-> provenance, occ |-> occ]

(* edge_tags: a name taken out of an embedded artifact is never precise. *)
EdgeTags(cross, confidence) ==
  IF cross THEN <<"NameOnly", "CrossArtifact">> ELSE <<confidence, "ScopeGraph">>

EdgeKey(edge) ==
  [from |-> edge.from, to |-> edge.to, role |-> edge.role,
   occ |-> edge.occ, provenance |-> edge.provenance]
=============================================================================
