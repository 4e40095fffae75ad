---------------------------- MODULE GlobalIndex ----------------------------
(***************************************************************************)
(* The index over the definitions of all files and the lookups that answer *)
(* pending references (resolve/incremental/stitch.rs).                     *)
(*                                                                         *)
(* A bucket of the source's maps is the set of entries with its key: the   *)
(* source drops a bucket that runs empty, so an empty one is never seen.   *)
(***************************************************************************)
EXTENDS FileSubgraph

NewIndex == [by_name |-> {}, modules |-> {}, types |-> {}, reexports |-> {}]

Instance(key, owner, ordinal, id) ==
  [key |-> key, owner |-> owner, ordinal |-> ordinal, id |-> id]

(* The entries one file stands behind, one per record and not per identity. *)
ModuleEntries(sub) ==
  {Instance(sub.symbols[i].name, sub.owner, i, sub.symbols[i].id) :
     i \in {j \in DOMAIN sub.symbols : sub.symbols[j].kind = "Module"}}

NamedEntries(sub, kinds) ==
  {Instance(LeafName(sub.symbols[i].id), sub.owner, i, sub.symbols[i].id) :
     i \in {j \in DOMAIN sub.symbols :
              /\ sub.symbols[j].kind \in kinds
              /\ LeafName(sub.symbols[j].id) # ""}}

ReExportEntries(sub) ==
  {[path |-> Append(sub.reexports[i].module_path, sub.reexports[i].name),
    owner |-> sub.owner, ordinal |-> i,
    source_path |-> sub.reexports[i].source_path] : i \in DOMAIN sub.reexports}

Ordinary == SymbolKinds \ {"Module"}

InsertSubgraphs(index, subs) ==
  [by_name   |-> index.by_name \cup UNION {NamedEntries(s, Ordinary) : s \in subs},
   modules   |-> index.modules \cup UNION {ModuleEntries(s) : s \in subs},
   types     |-> index.types \cup UNION {NamedEntries(s, TypeKinds) : s \in subs},
   reexports |-> index.reexports \cup UNION {ReExportEntries(s) : s \in subs}]

FromSubgraphs(subs) == InsertSubgraphs(NewIndex, subs)

(* A re-export is removed by its place alone, whatever it pointed at. *)
SamePlace(a, b) == a.path = b.path /\ a.owner = b.owner /\ a.ordinal = b.ordinal

WithoutReexports(entries, subs) ==
  {e \in entries : \A a \in UNION {ReExportEntries(s) : s \in subs} : ~SamePlace(e, a)}

RemoveSubgraphsButTypes(index, subs) ==
  [by_name   |-> index.by_name \ UNION {NamedEntries(s, Ordinary) : s \in subs},
   modules   |-> index.modules \ UNION {ModuleEntries(s) : s \in subs},
   types     |-> index.types,
   reexports |-> WithoutReexports(index.reexports, subs)]

RemoveSubgraphs(index, subs) ==
  [by_name   |-> index.by_name \ UNION {NamedEntries(s, Ordinary) : s \in subs},
   modules   |-> index.modules \ UNION {ModuleEntries(s) : s \in subs},
   types     |-> index.types \ UNION {NamedEntries(s, TypeKinds) : s \in subs},
   reexports |-> WithoutReexports(index.reexports, subs)]

(***************************************************************************)
(* Lookups.  A lookup answers only when one record, not one identity, fits.*)
(***************************************************************************)
UniqueId(instances) ==
  IF Cardinality(instances) = 1 THEN (CHOOSE i \in instances : TRUE).id ELSE NoId

DirectInstances(index, path, type_only) ==
  LET names == IF type_only THEN index.types ELSE index.by_name
  IN  {i \in names : i.key = Last(path) /\ NamespacesEndWith(i.id, Front(path))}

(* A trail is a path and the paths that led to it: a cycle of aliases ends. *)
AliasSearch(index, paths, type_only) ==
  LET follow[trail \in paths \X SUBSET paths] ==
        IF trail[1] = <<>> \/ trail[1] \in trail[2] THEN {}
        ELSE DirectInstances(index, trail[1], type_only) \cup
             UNION {follow[<<e.source_path, trail[2] \cup {trail[1]}>>] :
                      e \in {a \in index.reexports : a.path = trail[1]}}
  IN  follow

ResolvedPathInstances(index, start, type_only) ==
  LET paths == {start} \cup {e.source_path : e \in index.reexports}
  IN  AliasSearch(index, paths, type_only)[<<start, {}>>]

UniqueReexportMatch(index, name, segs, type_only) ==
  UniqueId(ResolvedPathInstances(index, Append(segs, name), type_only))

UniqueIn(entries, name, segs) ==
  UniqueId({i \in entries : i.key = name /\ (segs = <<>> \/ NamespacesEndWith(i.id, segs))})

UniqueQualifiedMatch(index, name, segs) ==
  UniqueId({i \in index.by_name : /\ i.key = name
                                  /\ \/ NamespacesEndWith(i.id, segs)
                                     \/ EnclosingPathEndsWith(i.id, segs)})

Else(first, second) == IF first # NoId THEN first ELSE second

Matched(p, index) ==
  IF p.role = "ModuleRef" THEN UniqueIn(index.modules, p.name, p.segs)
  ELSE Else(UniqueReexportMatch(index, p.name, p.segs, p.role = "TypeRef" /\ p.type_only),
            IF p.role = "TypeRef" /\ p.type_only THEN UniqueIn(index.types, p.name, p.segs)
            ELSE IF p.role = "TypeRef"
            THEN Else(UniqueIn(index.modules, p.name, p.segs),
                      UniqueIn(index.by_name, p.name, p.segs))
            ELSE IF p.qualified THEN UniqueQualifiedMatch(index, p.name, p.segs)
            ELSE UniqueIn(index.by_name, p.name, p.segs))

NoEdge == <<>>

(* At most one edge per pending reference, and none onto its own caller. *)
ResolvePending(p, index) ==
  LET to == Matched(p, index)
      tags == EdgeTags(p.cross, p.confidence)
  IN  IF to \in {NoId, p.from} THEN NoEdge
      ELSE <<Edge(p.from, to, p.role, tags[1], tags[2], p.occ)>>

(***************************************************************************)
(* pending_matches_symbol: could this definition change the answer?        *)
(***************************************************************************)
PendingMatchesSymbol(p, symbol) ==
  LET module == symbol.kind = "Module"
      leaf == LeafName(symbol.id) = p.name
      spaced == p.segs = <<>> \/ NamespacesEndWith(symbol.id, p.segs)
  IN  IF p.role = "ModuleRef" THEN module /\ symbol.name = p.name /\ spaced
      ELSE IF p.role = "TypeRef" /\ p.type_only THEN IsTypeKind(symbol) /\ leaf /\ spaced
      ELSE IF p.role = "TypeRef"
      THEN (IF module THEN symbol.name = p.name ELSE leaf) /\ spaced
      ELSE /\ ~module
           /\ leaf
           /\ IF p.qualified
              THEN \/ NamespacesEndWith(symbol.id, p.segs)
                   \/ EnclosingPathEndsWith(symbol.id, p.segs)
              ELSE spaced

(* domains: the lookup spaces in which the answer to `p` may change. *)
Domains(p) ==
  IF p.role = "ModuleRef" THEN {"Module"}
  ELSE IF p.role = "TypeRef" THEN {"Module", "Ordinary"}
  ELSE IF p.qualified THEN {"Qualified"}
  ELSE {"Ordinary"}
=============================================================================
