---------------------------- MODULE FileSubgraph ----------------------------
(***************************************************************************)
(* Resolution of one file on its own (resolve/incremental/subgraph.rs):    *)
(* what the file binds itself becomes an edge, what other files must       *)
(* answer becomes a pending reference.                                     *)
(***************************************************************************)
EXTENDS Facts

SchemaVersion == 1

Skip == [kind |-> "skip", value |-> <<>>]

IsAnnotation(r) == r.role = "TypeRef" /\ r.annotated

Occurrence(facts, r) == [file |-> facts.file, byte |-> r.byte]

Defer(facts, r, from, name, segs, confidence, qualified, type_only) ==
  [kind |-> "pending",
   value |-> [from |-> from, name |-> name, segs |-> segs, role |-> r.role,
              occ |-> Occurrence(facts, r), confidence |-> confidence,
              qualified |-> qualified, type_only |-> type_only, cross |-> r.cross]]

Link(facts, r, from, to, confidence) ==
  LET tags == EdgeTags(r.cross, confidence)
  IN  [kind |-> "edge",
       value |-> Edge(from, to, r.role, tags[1], tags[2], Occurrence(facts, r))]

(* The namespace of the first symbol that has one. *)
FileNamespace(symbols) ==
  LET spaced == SelectSeq(symbols, LAMBDA s : Namespaces(s.id) # <<>>)
  IN  IF spaced = <<>> THEN <<>> ELSE Namespaces(Head(spaced).id)

(* A written path: looked up among all files unless only anchors are left. *)
Qualified(facts, r, from) ==
  LET segs == NormalizeFromPath(r.qualifier)
      crate_root_type == IsAnnotation(r) /\ r.qualifier \in {<<"crate">>, <<"">>}
  IN  IF segs # <<>> \/ crate_root_type
      THEN Defer(facts, r, from, r.name, segs, "Exact", TRUE, IsAnnotation(r))
      ELSE Skip

(* Nothing in the file binds the name. *)
Unbound(facts, r, from) ==
  LET own == FileNamespace(facts.symbols)
  IN  IF r.role = "TypeRef"
      THEN Defer(facts, r, from, r.name, <<>>, "Scoped", FALSE, r.annotated)
      ELSE IF own # <<>>
      THEN Defer(facts, r, from, r.name, own, "Scoped", FALSE, FALSE)
      ELSE Skip

Bound(facts, r, from, binding) ==
  LET segs == NormalizeFromPath(binding.from)
  IN  IF binding.kind \in {"Local", "Param"}
      THEN IF binding.intro = r.byte THEN Skip
           ELSE Link(facts, r, from,
                     LocalId(facts.file, binding.scope, binding.name, binding.intro),
                     "Exact")
      ELSE IF binding.kind = "Definition"
      THEN IF from = binding.def THEN Skip
           ELSE Link(facts, r, from, binding.def, "Scoped")
      ELSE IF segs # <<>>
      THEN Defer(facts, r, from, binding.name, segs, "Exact", FALSE, FALSE)
      ELSE Skip

(* The arms of the reference loop, in the order of its early exits. *)
Outcome(facts, r) ==
  LET at == EnclosingSymbolIndex(facts.symbols, r.byte)
      from == facts.symbols[at].id
      binding == ScopeWalk(r.name, r.byte, r.scope, facts.scopes, facts.bindings)
  IN  IF at = 0 THEN Skip
      ELSE IF r.role = "ModuleRef" \/ (IsAnnotation(r) /\ r.qualifier = <<>>)
      THEN Defer(facts, r, from, r.name, <<>>, "Scoped", FALSE, IsAnnotation(r))
      ELSE IF r.qualifier # <<>> THEN Qualified(facts, r, from)
      ELSE IF r.scope = 0 THEN Skip
      ELSE IF binding = NoBinding THEN Unbound(facts, r, from)
      ELSE Bound(facts, r, from, binding)

(***************************************************************************)
(* collect_reexports: `pub use` aliases, published by the innermost module *)
(* around them.  A crate root publishes under the empty path.              *)
(***************************************************************************)
PublishingModule(symbols, byte) ==
  LET modules == SelectSeq(symbols, LAMBDA s : s.kind = "Module")
      at == EnclosingSymbolIndex(modules, byte)
  IN  IF at = 0 THEN <<>> ELSE <<Namespaces(modules[at].id)>>

ModulePath(namespaces) ==
  IF namespaces \in {<<"lib">>, <<"main">>} THEN <<>> ELSE namespaces

LeadingSupers(path) ==
  CHOOSE n \in 0 .. Len(path) :
    /\ \A i \in 1 .. n : path[i] = "super"
    /\ n = Len(path) \/ path[n + 1] # "super"

SourcePath(module_path, written) ==
  LET supers == LeadingSupers(written)
      up == Len(module_path) - supers
      base == IF Head(written) = "crate" THEN <<>>
              ELSE SubSeq(module_path, 1, IF up > 0 THEN up ELSE 0)
  IN  base \o NormalizeFromPath(written)

IsReExport(facts, r) ==
  /\ r.role = "Import"
  /\ r.reexport
  /\ r.from_path # <<>>
  /\ PublishingModule(facts.symbols, r.byte) # <<>>

CollectReexports(facts) ==
  LET published == SelectSeq(facts.references, LAMBDA r : IsReExport(facts, r))
      Alias(r) ==
        LET path == ModulePath(PublishingModule(facts.symbols, r.byte)[1])
            leaf == IF r.imported_name = "" THEN r.name ELSE r.imported_name
        IN  [module_path |-> path, name |-> r.name,
             source_path |-> Append(SourcePath(path, r.from_path), leaf)]
  IN  [i \in DOMAIN published |-> Alias(published[i])]

(***************************************************************************)
(* build_subgraph.                                                         *)
(***************************************************************************)
BuildSubgraph(facts) ==
  LET outcomes == [i \in DOMAIN facts.references |->
                     Outcome(facts, facts.references[i])]
      Of(kind) == LET kept == EntriesAt(outcomes, {i \in DOMAIN outcomes :
                                                     outcomes[i].kind = kind})
                  IN  [i \in DOMAIN kept |-> kept[i].value]
  IN  [schema |-> SchemaVersion, owner |-> facts.file, symbols |-> facts.symbols,
       intra |-> Of("edge"), pending |-> Of("pending"),
       reexports |-> CollectReexports(facts)]

(***************************************************************************)
(* validate_current_files: what the facts of one file must satisfy before  *)
(* a refresh resolves them.  A reference's file is the facts' own here.    *)
(***************************************************************************)
InLanguage(facts) ==
  \A s \in Range(facts.symbols) : s.id.lang \in {"", facts.lang}

OwnedSymbols(facts) ==
  /\ InLanguage(facts)
  /\ \A s \in Range(facts.symbols) :
       s.file = facts.file /\ s.id.file \in {"", facts.file}

CurrentFacts(facts) ==
  LET own == {s.id : s \in Range(facts.symbols)}
  IN  /\ ValidStructure(facts)
      /\ OwnedSymbols(facts)
      /\ \A b \in Range(facts.bindings) : b.kind = "Definition" => b.def \in own
      /\ \A e \in Range(facts.exports) : e.symbol \in own

(***************************************************************************)
(* validate_restored_subgraph: what a persisted subgraph must satisfy, or  *)
(* the cache it was read from counts as corrupt.                           *)
(***************************************************************************)
Restorable(file, sub) ==
  LET own == {s.id : s \in Range(sub.symbols)}
  IN  /\ sub.schema = SchemaVersion
      /\ sub.owner = file
      /\ \A s \in Range(sub.symbols) : s.file = file
      /\ \A e \in Range(sub.intra) :
           /\ e.occ.file = file
           /\ e.from \in own
           /\ IF e.to.file # "" THEN e.to.file = file ELSE e.to \in own
      /\ \A p \in Range(sub.pending) : p.occ.file = file /\ p.from \in own
=============================================================================
