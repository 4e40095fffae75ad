----------------------- MODULE IncrementalGraphProofs -----------------------
(***************************************************************************)
(* Patching is exact, for any files, facts and batches: what the store     *)
(* keeps beside the subgraphs is a function of the subgraphs it holds, and *)
(* every answer that no re-export lies on is the one a full resolution     *)
(* would give.                                                             *)
(***************************************************************************)
EXTENDS IncrementalGraph, TLAPS

\* A map that files each subgraph under its owner.
IsFileMap(subs) ==
  /\ DOMAIN subs \subseteq Range(FileOrder)
  /\ subs = [f \in DOMAIN subs |-> subs[f]]
  /\ \A f \in DOMAIN subs : subs[f].owner = f

\* The invariant: subgraphs under their owners and derived state made of them.
Exact ==
  /\ IsFileMap(files)
  /\ IndexIsOfFiles
  /\ PendingIsOfFiles
  /\ DOMAIN resolved = DOMAIN pending

\* Outside the targets of a batch both maps hold the same subgraphs.
AgreeOutside(targets, old, next) ==
  \A f : f \notin targets =>
    /\ f \in DOMAIN old <=> f \in DOMAIN next
    /\ f \in DOMAIN old => next[f] = old[f]

(***************************************************************************)
(* The definition index.                                                   *)
(***************************************************************************)

\* Taking the targets' parts out and putting their new ones in is all it takes.
PatchesParts(targets, old, next, Part) ==
  ((UNION {Part[s] : s \in Range(old)})
     \ (UNION {Part[s] : s \in {old[f] : f \in targets \cap DOMAIN old}}))
    \cup (UNION {Part[s] : s \in {next[f] : f \in targets \cap DOMAIN next}})
  = UNION {Part[s] : s \in Range(next)}

OwnedParts(old, next, Part) ==
  \A s \in Range(old) \cup Range(next) : \A e \in Part[s] : e.owner = s.owner

\* The parts of the subgraphs held, when a part names the owner of its subgraph,
\* can be patched file by file.
LEMMA PatchParts ==
  ASSUME NEW old, NEW next, NEW targets, NEW Part,
         IsFileMap(old), IsFileMap(next), AgreeOutside(targets, old, next),
         OwnedParts(old, next, Part)
  PROVE  PatchesParts(targets, old, next, Part)
<1> DEFINE all == UNION {Part[s] : s \in Range(old)}
           gone == UNION {Part[s] : s \in {old[f] : f \in targets \cap DOMAIN old}}
           come == UNION {Part[s] : s \in {next[f] : f \in targets \cap DOMAIN next}}
           wanted == UNION {Part[s] : s \in Range(next)}
<1> USE DEF IsFileMap, AgreeOutside, Range, OwnedParts, PatchesParts
<1>1. ASSUME NEW e \in (all \ gone) \cup come PROVE e \in wanted
  <2>1. CASE e \in come
    BY <2>1
  <2>2. CASE e \in all /\ e \notin gone
    <3>1. PICK f \in DOMAIN old : e \in Part[old[f]]
      BY <2>2
    <3>2. f \notin targets
      BY <2>2, <3>1
    <3>3. QED
      BY <3>1, <3>2
  <2>3. QED
    BY <1>1, <2>1, <2>2
<1>2. ASSUME NEW e \in wanted PROVE e \in (all \ gone) \cup come
  <2>1. PICK f \in DOMAIN next : e \in Part[next[f]]
    BY <1>2
  <2>2. CASE f \in targets
    BY <2>1, <2>2
  <2>3. CASE f \notin targets
    <3>1. f \in DOMAIN old /\ e \in Part[old[f]] /\ e.owner = f
      BY <2>1, <2>3
    <3>2. \A s \in {old[g] : g \in targets \cap DOMAIN old} : s.owner \in targets
      OBVIOUS
    <3>3. e \notin gone
      BY <2>3, <3>1, <3>2
    <3>4. QED
      BY <3>1, <3>3
  <2>4. QED
    BY <2>2, <2>3
<1>3. QED
  BY <1>1, <1>2

\* An entry of the index names the file that stands behind it.
LEMMA EntriesNameTheirOwner ==
  ASSUME NEW sub, NEW kinds
  PROVE  /\ \A e \in NamedEntries(sub, kinds) : e.owner = sub.owner
         /\ \A e \in ModuleEntries(sub) : e.owner = sub.owner
         /\ \A e \in ReExportEntries(sub) : e.owner = sub.owner
<1>1. ASSUME NEW e \in NamedEntries(sub, kinds) PROVE e.owner = sub.owner
  <2>1. PICK i \in DOMAIN sub.symbols :
               e = Instance(LeafName(sub.symbols[i].id), sub.owner, i, sub.symbols[i].id)
    BY <1>1 DEF NamedEntries
  <2>2. QED
    BY <2>1 DEF Instance
<1>2. ASSUME NEW e \in ModuleEntries(sub) PROVE e.owner = sub.owner
  BY <1>2 DEF ModuleEntries, Instance
<1>3. ASSUME NEW e \in ReExportEntries(sub) PROVE e.owner = sub.owner
  BY <1>3 DEF ReExportEntries
<1>4. QED
  BY <1>1, <1>2, <1>3

LEMMA PatchedIndexIsExact ==
  ASSUME IsFileMap(files), IndexIsOfFiles,
         NEW targets, NEW next, IsFileMap(next), AgreeOutside(targets, files, next)
  PROVE  PatchedIndex(next, targets) = FromSubgraphs(Range(next))
<1> DEFINE replaced == {files[f] : f \in targets \cap DOMAIN files}
           installed == {next[f] : f \in targets \cap DOMAIN next}
           left == RemoveSubgraphs(index, replaced)
           made == FromSubgraphs(Range(next))
<1>1. ASSUME NEW kinds
      PROVE  ((UNION {NamedEntries(s, kinds) : s \in Range(files)}) \ (UNION {NamedEntries(s, kinds) : s \in replaced}))
          \cup (UNION {NamedEntries(s, kinds) : s \in installed})
        = UNION {NamedEntries(s, kinds) : s \in Range(next)}
  <2> DEFINE Part == [s \in Range(files) \cup Range(next) |-> NamedEntries(s, kinds)]
  <2>1. \A s \in Range(files) \cup Range(next) : \A e \in Part[s] : e.owner = s.owner
    BY EntriesNameTheirOwner
  <2>2. ((UNION {Part[s] : s \in Range(files)}) \ (UNION {Part[s] : s \in replaced}))
           \cup (UNION {Part[s] : s \in installed})
        = UNION {Part[s] : s \in Range(next)}
    <3> HIDE DEF Part
    <3>1. OwnedParts(files, next, Part)
      BY <2>1 DEF OwnedParts
    <3>2. PatchesParts(targets, files, next, Part)
      BY <3>1, PatchParts
    <3>3. QED
      BY <3>2 DEF PatchesParts
  <2>3. replaced \subseteq Range(files) /\ installed \subseteq Range(next)
    BY DEF Range
  <2> HIDE DEF replaced, installed
  <2>4. \A s \in Range(files) \cup Range(next) : Part[s] = NamedEntries(s, kinds)
    OBVIOUS
  <2> HIDE DEF Part
  <2>5. /\ (UNION {NamedEntries(s, kinds) : s \in Range(files)}) = UNION {Part[s] : s \in Range(files)}
        /\ (UNION {NamedEntries(s, kinds) : s \in replaced}) = UNION {Part[s] : s \in replaced}
        /\ (UNION {NamedEntries(s, kinds) : s \in installed}) = UNION {Part[s] : s \in installed}
        /\ (UNION {NamedEntries(s, kinds) : s \in Range(next)}) = UNION {Part[s] : s \in Range(next)}
    BY <2>3, <2>4
  <2>6. QED
    BY <2>2, <2>5
<1>2. ((UNION {ModuleEntries(s) : s \in Range(files)}) \ (UNION {ModuleEntries(s) : s \in replaced}))
          \cup (UNION {ModuleEntries(s) : s \in installed})
        = UNION {ModuleEntries(s) : s \in Range(next)}
  <2> DEFINE Part == [s \in Range(files) \cup Range(next) |-> ModuleEntries(s)]
  <2>1. \A s \in Range(files) \cup Range(next) : \A e \in Part[s] : e.owner = s.owner
    BY EntriesNameTheirOwner
  <2>2. ((UNION {Part[s] : s \in Range(files)}) \ (UNION {Part[s] : s \in replaced}))
           \cup (UNION {Part[s] : s \in installed})
        = UNION {Part[s] : s \in Range(next)}
    <3> HIDE DEF Part
    <3>1. OwnedParts(files, next, Part)
      BY <2>1 DEF OwnedParts
    <3>2. PatchesParts(targets, files, next, Part)
      BY <3>1, PatchParts
    <3>3. QED
      BY <3>2 DEF PatchesParts
  <2>3. replaced \subseteq Range(files) /\ installed \subseteq Range(next)
    BY DEF Range
  <2> HIDE DEF replaced, installed
  <2>4. \A s \in Range(files) \cup Range(next) : Part[s] = ModuleEntries(s)
    OBVIOUS
  <2> HIDE DEF Part
  <2>5. /\ (UNION {ModuleEntries(s) : s \in Range(files)}) = UNION {Part[s] : s \in Range(files)}
        /\ (UNION {ModuleEntries(s) : s \in replaced}) = UNION {Part[s] : s \in replaced}
        /\ (UNION {ModuleEntries(s) : s \in installed}) = UNION {Part[s] : s \in installed}
        /\ (UNION {ModuleEntries(s) : s \in Range(next)}) = UNION {Part[s] : s \in Range(next)}
    BY <2>3, <2>4
  <2>6. QED
    BY <2>2, <2>5
<1>3. WithoutReexports(UNION {ReExportEntries(s) : s \in Range(files)}, replaced)
          \cup (UNION {ReExportEntries(s) : s \in installed})
        = UNION {ReExportEntries(s) : s \in Range(next)}
  <2> DEFINE kept == WithoutReexports(UNION {ReExportEntries(s) : s \in Range(files)}, replaced)
  <2>1. ASSUME NEW e \in kept PROVE e \in UNION {ReExportEntries(s) : s \in Range(next)}
    <3>1. PICK f \in DOMAIN files : e \in ReExportEntries(files[f])
      BY <2>1 DEF WithoutReexports, Range
    <3>2. f \notin targets
      BY <2>1, <3>1 DEF WithoutReexports, SamePlace
    <3>3. QED
      BY <3>1, <3>2 DEF Range, AgreeOutside
  <2>2. ASSUME NEW e \in UNION {ReExportEntries(s) : s \in Range(next)}
        PROVE  e \in kept \cup UNION {ReExportEntries(s) : s \in installed}
    <3>1. PICK f \in DOMAIN next : e \in ReExportEntries(next[f])
      BY <2>2 DEF Range
    <3>2. CASE f \in targets
      BY <3>1, <3>2
    <3>3. CASE f \notin targets
      <4>1. f \in DOMAIN files /\ e \in ReExportEntries(files[f]) /\ e.owner = f
        BY <3>1, <3>3, EntriesNameTheirOwner DEF IsFileMap, AgreeOutside
      <4>2. ASSUME NEW a \in UNION {ReExportEntries(s) : s \in replaced}
            PROVE  a.owner \in targets
        <5>1. PICK g \in targets \cap DOMAIN files : a \in ReExportEntries(files[g])
          BY <4>2
        <5>2. a.owner = files[g].owner
          BY <5>1, EntriesNameTheirOwner
        <5>3. QED
          BY <5>2 DEF IsFileMap
      <4>3. \A a \in UNION {ReExportEntries(s) : s \in replaced} : ~SamePlace(e, a)
        BY <3>3, <4>1, <4>2 DEF SamePlace
      <4>4. QED
        BY <4>1, <4>3 DEF WithoutReexports, Range
    <3>4. QED
      BY <3>2, <3>3
  <2>3. UNION {ReExportEntries(s) : s \in installed}
          \subseteq UNION {ReExportEntries(s) : s \in Range(next)}
    BY DEF Range
  <2>4. QED
    BY <2>1, <2>2, <2>3
<1>4. index = [by_name   |-> UNION {NamedEntries(s, Ordinary) : s \in Range(files)},
               modules   |-> UNION {ModuleEntries(s) : s \in Range(files)},
               types     |-> UNION {NamedEntries(s, TypeKinds) : s \in Range(files)},
               reexports |-> UNION {ReExportEntries(s) : s \in Range(files)}]
  BY DEF IndexIsOfFiles, FromSubgraphs, InsertSubgraphs, NewIndex
<1>5. made = [by_name   |-> UNION {NamedEntries(s, Ordinary) : s \in Range(next)},
              modules   |-> UNION {ModuleEntries(s) : s \in Range(next)},
              types     |-> UNION {NamedEntries(s, TypeKinds) : s \in Range(next)},
              reexports |-> UNION {ReExportEntries(s) : s \in Range(next)}]
  BY DEF FromSubgraphs, InsertSubgraphs, NewIndex
<1>6. InsertSubgraphs(left, installed)
      = [by_name   |-> (index.by_name \ UNION {NamedEntries(s, Ordinary) : s \in replaced})
                          \cup UNION {NamedEntries(s, Ordinary) : s \in installed},
         modules   |-> (index.modules \ UNION {ModuleEntries(s) : s \in replaced})
                          \cup UNION {ModuleEntries(s) : s \in installed},
         types     |-> (index.types \ UNION {NamedEntries(s, TypeKinds) : s \in replaced})
                          \cup UNION {NamedEntries(s, TypeKinds) : s \in installed},
         reexports |-> WithoutReexports(index.reexports, replaced)
                          \cup UNION {ReExportEntries(s) : s \in installed}]
  BY DEF InsertSubgraphs, RemoveSubgraphs
<1>7. /\ index.by_name = UNION {NamedEntries(s, Ordinary) : s \in Range(files)}
      /\ index.modules = UNION {ModuleEntries(s) : s \in Range(files)}
      /\ index.types = UNION {NamedEntries(s, TypeKinds) : s \in Range(files)}
      /\ index.reexports = UNION {ReExportEntries(s) : s \in Range(files)}
  BY <1>4
<1>8. PatchedIndex(next, targets) = InsertSubgraphs(left, installed)
  BY DEF PatchedIndex
<1> HIDE DEF left, made, replaced, installed
<1>9. InsertSubgraphs(left, installed) = made
  <2>1. /\ (index.by_name \ UNION {NamedEntries(s, Ordinary) : s \in replaced})
             \cup (UNION {NamedEntries(s, Ordinary) : s \in installed})
           = UNION {NamedEntries(s, Ordinary) : s \in Range(next)}
    BY <1>1, <1>7, ZenonT(40)
  <2>2. (index.modules \ UNION {ModuleEntries(s) : s \in replaced})
             \cup (UNION {ModuleEntries(s) : s \in installed})
           = UNION {ModuleEntries(s) : s \in Range(next)}
    BY <1>2, <1>7, Zenon
  <2>3. (index.types \ UNION {NamedEntries(s, TypeKinds) : s \in replaced})
             \cup (UNION {NamedEntries(s, TypeKinds) : s \in installed})
           = UNION {NamedEntries(s, TypeKinds) : s \in Range(next)}
    BY <1>1, <1>7, ZenonT(40)
  <2>4. WithoutReexports(index.reexports, replaced)
             \cup (UNION {ReExportEntries(s) : s \in installed})
           = UNION {ReExportEntries(s) : s \in Range(next)}
    BY <1>3, <1>7, Zenon
  <2>5. QED
    BY <1>5, <1>6, <2>1, <2>2, <2>3, <2>4, Zenon
<1>10. QED
  BY <1>8, <1>9 DEF made

(***************************************************************************)
(* The pending references and the reverse index.                           *)
(***************************************************************************)

IdsOf(subs) == UNION {PendingIds(f, subs[f]) : f \in DOMAIN subs}
RefsOf(subs) == [id \in IdsOf(subs) |-> subs[id[1]].pending[id[2]]]

LEMMA MadeFromNothing ==
  ASSUME NEW subs
  PROVE  /\ FromNothing(subs).files = subs
         /\ FromNothing(subs).index = FromSubgraphs(Range(subs))
         /\ FromNothing(subs).pending = RefsOf(subs)
         /\ FromNothing(subs).by_domain = ReverseEntries(IdsOf(subs), RefsOf(subs))
         /\ DOMAIN FromNothing(subs).resolved = IdsOf(subs)
BY DEF FromNothing, RefsOf, IdsOf

LEMMA IdMembers ==
  ASSUME NEW subs, NEW id
  PROVE  id \in IdsOf(subs) <=>
           /\ id = <<id[1], id[2]>>
           /\ id[1] \in DOMAIN subs
           /\ id[2] \in DOMAIN subs[id[1]].pending
BY DEF IdsOf, PendingIds

LEMMA ReverseMembers ==
  ASSUME NEW ids, NEW refs, NEW e
  PROVE  e \in ReverseEntries(ids, refs) <=>
           \E id \in ids : \E d \in Domains(refs[id]) : e = <<d, refs[id].name, id>>
BY DEF ReverseEntries

LEMMA PatchedPendingIsExact ==
  ASSUME pending = RefsOf(files),
         NEW targets, NEW next, AgreeOutside(targets, files, next)
  PROVE  PatchedPending(next, targets) = RefsOf(next)
<1> DEFINE kept == {id \in DOMAIN pending : id[1] \notin targets}
           installed == UNION {PendingIds(f, next[f]) : f \in targets \cap DOMAIN next}
<1>1. ASSUME NEW id
      PROVE  id \in installed <=> id \in IdsOf(next) /\ id[1] \in targets
  <2>1. id \in installed <=> \E f \in targets \cap DOMAIN next :
                               \E i \in DOMAIN next[f].pending : id = <<f, i>>
    BY DEF PendingIds
  <2>2. QED
    BY <2>1, IdMembers
<1>2. DOMAIN pending = IdsOf(files)
  BY DEF RefsOf
<1>3. ASSUME NEW id
      PROVE  id \in kept <=> id \in IdsOf(next) /\ id[1] \notin targets
  BY <1>2, IdMembers DEF AgreeOutside
<1>4. kept \cup installed = IdsOf(next)
  BY <1>1, <1>3
<1>5. ASSUME NEW id \in IdsOf(next), id \notin installed
      PROVE  pending[id] = next[id[1]].pending[id[2]]
  <2>1. id \in kept
    BY <1>4, <1>5
  <2>2. id \in IdsOf(files) /\ id[1] \in DOMAIN files /\ id[1] \notin targets
    BY <1>2, <2>1, IdMembers
  <2>3. pending[id] = files[id[1]].pending[id[2]]
    BY <2>2 DEF RefsOf
  <2>4. QED
    BY <2>2, <2>3 DEF AgreeOutside
<1>6. PatchedPending(next, targets)
      = [id \in kept \cup installed |->
           IF id \in installed THEN next[id[1]].pending[id[2]] ELSE pending[id]]
  BY DEF PatchedPending
<1> HIDE DEF kept, installed
<1>7. QED
  BY <1>4, <1>5, <1>6 DEF RefsOf

LEMMA PatchedReverseIsExact ==
  ASSUME pending = RefsOf(files), by_domain = ReverseEntries(IdsOf(files), RefsOf(files)),
         NEW targets, NEW next, AgreeOutside(targets, files, next)
  PROVE  PatchedReverse(next, targets) = ReverseEntries(IdsOf(next), RefsOf(next))
<1> DEFINE gone == {id \in DOMAIN pending : id[1] \in targets}
           come == {id \in DOMAIN RefsOf(next) : id[1] \in targets}
           made == ReverseEntries(IdsOf(next), RefsOf(next))
<1>1. PatchedReverse(next, targets)
      = (by_domain \ ReverseEntries(gone, pending)) \cup ReverseEntries(come, RefsOf(next))
  BY PatchedPendingIsExact DEF PatchedReverse
<1>2. DOMAIN pending = IdsOf(files) /\ DOMAIN RefsOf(next) = IdsOf(next)
  BY DEF RefsOf
<1>3. ASSUME NEW id, id[1] \notin targets
      PROVE  /\ id \in IdsOf(files) <=> id \in IdsOf(next)
             /\ id \in IdsOf(files) => pending[id] = RefsOf(next)[id]
  BY <1>3, IdMembers DEF AgreeOutside, RefsOf
<1> HIDE DEF gone, come, made
<1>4. ASSUME NEW e
      PROVE  e \in by_domain /\ e \notin ReverseEntries(gone, pending)
               <=> \E id \in IdsOf(files) : \E d \in Domains(pending[id]) :
                     e = <<d, pending[id].name, id>> /\ id[1] \notin targets
  <2>1. e \in by_domain <=> \E id \in IdsOf(files) : \E d \in Domains(pending[id]) :
                              e = <<d, pending[id].name, id>>
    BY ReverseMembers
  <2>2. e \in ReverseEntries(gone, pending)
          <=> \E id \in IdsOf(files) : \E d \in Domains(pending[id]) :
                e = <<d, pending[id].name, id>> /\ id[1] \in targets
    BY <1>2, ReverseMembers DEF gone
  <2>3. \A id1, id2, d1, d2, n1, n2 : <<d1, n1, id1>> = <<d2, n2, id2>> => id1 = id2
    OBVIOUS
  <2>4. QED
    BY <2>1, <2>2, <2>3
<1>5. ASSUME NEW e
      PROVE  e \in ReverseEntries(come, RefsOf(next))
               <=> \E id \in IdsOf(next) : \E d \in Domains(RefsOf(next)[id]) :
                     e = <<d, RefsOf(next)[id].name, id>> /\ id[1] \in targets
  BY <1>2, ReverseMembers DEF come
<1>6. ASSUME NEW e
      PROVE  e \in made <=> \E id \in IdsOf(next) : \E d \in Domains(RefsOf(next)[id]) :
                              e = <<d, RefsOf(next)[id].name, id>>
  BY ReverseMembers DEF made
<1>7. ASSUME NEW e PROVE e \in PatchedReverse(next, targets) <=> e \in made
  BY <1>1, <1>3, <1>4, <1>5, <1>6
<1>8. PatchedReverse(next, targets) = made
  BY <1>7 DEF PatchedReverse, made, ReverseEntries
<1>9. QED
  BY <1>8 DEF made

(***************************************************************************)
(* Every step leaves the derived state made of the files.                  *)
(***************************************************************************)

\* The derived state as the lemmas above speak of it.
LEMMA ExactIs ==
  ASSUME IsFileMap(files)
  PROVE  Exact <=> /\ index = FromSubgraphs(Range(files))
                   /\ pending = RefsOf(files)
                   /\ by_domain = ReverseEntries(IdsOf(files), RefsOf(files))
                   /\ DOMAIN resolved = IdsOf(files)
<1>1. PendingIsOfFiles <=> /\ pending = RefsOf(files)
                           /\ by_domain = ReverseEntries(IdsOf(files), RefsOf(files))
  BY MadeFromNothing, Zenon DEF PendingIsOfFiles
<1>2. DOMAIN RefsOf(files) = IdsOf(files)
  BY DEF RefsOf
<1>3. QED
  BY <1>1, <1>2, Zenon DEF Exact, IndexIsOfFiles

LEMMA InitIsExact == Init => Exact
<1> SUFFICES ASSUME Init PROVE Exact
  OBVIOUS
<1>1. IsFileMap(files)
  BY DEF Init, IsFileMap
<1>2. IdsOf(files) = {} /\ Range(files) = {}
  BY DEF Init, IdsOf, Range
<1>3. index = FromSubgraphs(Range(files))
  BY <1>2 DEF Init, FromSubgraphs, InsertSubgraphs, NewIndex
<1>4. pending = RefsOf(files) /\ DOMAIN resolved = IdsOf(files)
  BY <1>2 DEF Init, RefsOf
<1>5. by_domain = ReverseEntries(IdsOf(files), RefsOf(files))
  BY <1>2 DEF Init, ReverseEntries
<1>6. QED
  BY <1>1, <1>3, <1>4, <1>5, ExactIs

LEMMA BuiltUnderItsFile ==
  ASSUME NEW batch \in Batches, Accepted(batch),
         NEW c \in Range(batch), c[1] = "upsert"
  PROVE  Built[c[2]].owner = c[2].file
<1>1. c[2] \in DOMAIN Built
  BY DEF Built, Accepted
<1>2. Built[c[2]] = BuildSubgraph(c[2])
  BY <1>1 DEF Built
<1>3. \A facts : BuildSubgraph(facts).owner = facts.file
  BY Zenon DEF BuildSubgraph
<1>4. QED
  BY <1>2, <1>3

LEMMA BatchAgreesOutside ==
  ASSUME IsFileMap(files), NEW batch \in Batches, Accepted(batch)
  PROVE  /\ IsFileMap(After(batch))
         /\ AgreeOutside(Targets(batch), files, After(batch))
<1> DEFINE upserts == {c \in Range(batch) : c[1] = "upsert"}
           kept == DOMAIN files \ Targets(batch)
           come == {c[2].file : c \in upserts}
           next == After(batch)
<1>1. come \subseteq Targets(batch)
  BY DEF Targets, Target
<1>2. Targets(batch) \subseteq Range(FileOrder)
  BY BatchAssumption
<1>3. next = [f \in kept \cup come |->
                IF f \in kept THEN files[f]
                ELSE Built[(CHOOSE c \in upserts : c[2].file = f)[2]]]
  BY DEF After
<1>4. ASSUME NEW f \in come, f \notin kept PROVE next[f].owner = f
  <2>1. PICK c \in upserts : c[2].file = f
    BY <1>4
  <2>2. (CHOOSE d \in upserts : d[2].file = f) \in upserts
    BY <2>1
  <2>3. (CHOOSE d \in upserts : d[2].file = f)[2].file = f
    BY <2>1
  <2>4. next[f] = Built[(CHOOSE d \in upserts : d[2].file = f)[2]]
    BY <1>3, <1>4
  <2>5. QED
    BY <2>2, <2>3, <2>4, BuiltUnderItsFile
<1> HIDE DEF upserts, come, next
<1>5. DOMAIN next = kept \cup come /\ \A f \in kept : next[f] = files[f]
  BY <1>3
<1>6. next = [f \in DOMAIN next |-> next[f]]
  BY <1>3
<1>7. IsFileMap(next)
  BY <1>1, <1>2, <1>4, <1>5, <1>6 DEF IsFileMap
<1>8. AgreeOutside(Targets(batch), files, next)
  BY <1>1, <1>5 DEF AgreeOutside
<1>9. QED
  BY <1>7, <1>8 DEF next

LEMMA CommitIsExact ==
  ASSUME Exact, NEW targets, NEW next, IsFileMap(next),
         AgreeOutside(targets, files, next), Commit(next, targets)
  PROVE  Exact'
<1> USE DEF Commit
<1>1. /\ index = FromSubgraphs(Range(files))
      /\ pending = RefsOf(files)
      /\ by_domain = ReverseEntries(IdsOf(files), RefsOf(files))
  BY ExactIs DEF Exact
<1>2. files' = next /\ IsFileMap(files)'
  BY DEF IsFileMap
<1>3. index' = FromSubgraphs(Range(files'))
  BY <1>2, PatchedIndexIsExact DEF Exact
<1>4. pending' = RefsOf(files')
  BY <1>1, <1>2, PatchedPendingIsExact
<1>5. by_domain' = ReverseEntries(IdsOf(files'), RefsOf(files'))
  BY <1>1, <1>2, PatchedReverseIsExact
<1>6. DOMAIN resolved' = IdsOf(files')
  <2>1. DOMAIN resolved' = DOMAIN PatchedPending(next, targets)
    BY DEF PatchedResolved
  <2>2. QED
    BY <1>4, <2>1 DEF RefsOf
<1>7. Exact' <=> /\ index' = FromSubgraphs(Range(files'))
                 /\ pending' = RefsOf(files')
                 /\ by_domain' = ReverseEntries(IdsOf(files'), RefsOf(files'))
                 /\ DOMAIN resolved' = IdsOf(files')
  <2>1. FromNothing(files').pending = RefsOf(files')
        /\ FromNothing(files').by_domain = ReverseEntries(IdsOf(files'), RefsOf(files'))
    BY MadeFromNothing
  <2>2. PendingIsOfFiles' <=> /\ pending' = RefsOf(files')
                              /\ by_domain' = ReverseEntries(IdsOf(files'), RefsOf(files'))
    BY <2>1, Zenon DEF PendingIsOfFiles
  <2>3. DOMAIN RefsOf(files') = IdsOf(files')
    BY DEF RefsOf
  <2>4. QED
    BY <1>2, <2>2, <2>3, Zenon DEF Exact, IndexIsOfFiles
<1>8. QED
  BY <1>3, <1>4, <1>5, <1>6, <1>7

LEMMA RestartIsExact ==
  ASSUME Exact, NEW damage \in Damaged, Restart(damage)
  PROVE  Exact'
<1> DEFINE persisted == [f \in DOMAIN files |->
                           IF f \in DOMAIN damage THEN damage[f] ELSE files[f]]
           usable == \A f \in DOMAIN persisted : Restorable(f, persisted[f])
           source == IF usable THEN persisted ELSE files
<1>1. IsFileMap(source)
  <2>1. CASE usable
    <3>1. source = persisted
      BY <2>1
    <3>2. \A f \in DOMAIN files : persisted[f].owner = f
      <4> SUFFICES ASSUME NEW f \in DOMAIN files PROVE persisted[f].owner = f
        OBVIOUS
      <4>1. Restorable(f, persisted[f])
        BY <2>1
      <4> HIDE DEF persisted
      <4>2. QED
        BY <4>1, Zenon DEF Restorable
    <3>3. DOMAIN files \subseteq Range(FileOrder)
      BY DEF Exact, IsFileMap
    <3>4. QED
      BY <3>1, <3>2, <3>3 DEF IsFileMap
  <2>2. CASE ~usable
    BY <2>2 DEF Exact
  <2>3. QED
    BY <2>1, <2>2
<1> HIDE DEF source
<1>2. /\ files' = FromNothing(source).files
      /\ index' = FromNothing(source).index
      /\ pending' = FromNothing(source).pending
      /\ by_domain' = FromNothing(source).by_domain
      /\ resolved' = FromNothing(source).resolved
  BY DEF Restart, source
<1>3. /\ files' = source
      /\ IsFileMap(files)'
      /\ index' = FromSubgraphs(Range(files'))
  BY <1>1, <1>2, MadeFromNothing DEF IsFileMap
<1>4. IndexIsOfFiles' /\ PendingIsOfFiles'
  BY <1>2, <1>3 DEF IndexIsOfFiles, PendingIsOfFiles
<1>5. DOMAIN resolved' = DOMAIN pending'
  BY <1>2, MadeFromNothing DEF RefsOf
<1>6. QED
  BY <1>3, <1>4, <1>5 DEF Exact

LEMMA NextIsExact == Exact /\ [Next]_vars => Exact'
<1> SUFFICES ASSUME Exact, [Next]_vars PROVE Exact'
  OBVIOUS
<1>1. ASSUME UNCHANGED store PROVE Exact'
  BY <1>1 DEF store, Exact, IndexIsOfFiles, PendingIsOfFiles, IsFileMap
<1>2. ASSUME NEW batch \in Batches, NEW order \in SetToSeqs(Targets(batch)),
             ApplyBatch(batch, order)
      PROVE  Exact'
  <2>1. Accepted(batch) /\ Commit(After(batch), Targets(batch))
    BY <1>2 DEF ApplyBatch
  <2>2. QED
    BY <2>1, BatchAgreesOutside, CommitIsExact DEF Exact
<1>3. ASSUME NEW batch \in Batches, RefuseBatch(batch) PROVE Exact'
  BY <1>1, <1>3 DEF RefuseBatch, vars
<1>4. ASSUME NEW damage \in Damaged, Restart(damage) PROVE Exact'
  BY <1>4, RestartIsExact
<1>5. CASE Apply
  BY <1>1, <1>5 DEF Apply
<1>6. CASE Reindex
  BY <1>1, <1>6 DEF Reindex
<1>7. CASE UNCHANGED vars
  BY <1>1, <1>7 DEF vars
<1>8. QED
  BY <1>2, <1>3, <1>4, <1>5, <1>6, <1>7 DEF Next

\* However many files come, change and go, in batches or across restarts, the
\* definition index is the one of the files held now (insert_subgraph and
\* remove_subgraph, stitch.rs).
THEOREM IndexExact == Spec => []IndexIsOfFiles
<1>1. Exact => IndexIsOfFiles
  BY DEF Exact
<1>2. QED
  BY <1>1, InitIsExact, NextIsExact, PTL DEF Spec

\* The pending references and their reverse index are those of the files held now
\* (install and remove_owner, state.rs).
THEOREM PendingExact == Spec => []PendingIsOfFiles
<1>1. Exact => PendingIsOfFiles
  BY DEF Exact
<1>2. QED
  BY <1>1, InitIsExact, NextIsExact, PTL DEF Spec

(***************************************************************************)
(* Types.                                                                  *)
(***************************************************************************)

LEMMA OneAnswerAtMost ==
  ASSUME NEW p, NEW definitions
  PROVE  Len(ResolvePending(p, definitions)) \in {0, 1}
<1>1. \A e : Len(<<e>>) = 1
  OBVIOUS
<1>2. Len(<<>>) = 0
  OBVIOUS
<1>3. QED
  BY <1>1, <1>2 DEF ResolvePending, NoEdge

LEMMA VerdictsAre ==
  ASSUME NEW ix, NEW d
  PROVE  ApplyScopeDelta(ix, d).verdict \in Verdicts
<1>1. DeltaFault(ix, d) \in Verdicts \cup {"None"}
  BY DEF DeltaFault, Verdicts
<1>2. QED
  BY <1>1 DEF ApplyScopeDelta, Verdicts

\* What the invariant says nothing of.
ValuesOK ==
  /\ \A id \in DOMAIN resolved : Len(resolved[id]) \in {0, 1}
  /\ verdict \in Verdicts

LEMMA ExactValuesAreTyped == Exact /\ ValuesOK => TypeOK
<1> SUFFICES ASSUME Exact, ValuesOK PROVE TypeOK
  OBVIOUS
<1>1. DOMAIN pending = IdsOf(files)
  BY ExactIs DEF Exact, RefsOf
<1>2. \A id \in DOMAIN pending : id[1] \in DOMAIN files
  BY <1>1, IdMembers
<1>3. QED
  BY <1>2 DEF Exact, IsFileMap, ValuesOK, TypeOK

LEMMA CommitAnswersOnce ==
  ASSUME Exact, ValuesOK, NEW targets, NEW next, AgreeOutside(targets, files, next),
         Commit(next, targets)
  PROVE  \A id \in DOMAIN resolved' : Len(resolved'[id]) \in {0, 1}
<1>1. PatchedPending(next, targets) = RefsOf(next) /\ DOMAIN resolved = IdsOf(files)
  BY ExactIs, PatchedPendingIsExact DEF Exact
<1>2. ASSUME NEW id \in DOMAIN resolved' PROVE Len(resolved'[id]) \in {0, 1}
  <2>1. id \in IdsOf(next)
    BY <1>1, <1>2 DEF Commit, PatchedResolved, RefsOf
  <2>2. CASE id \in Affected(next, targets) \/ id[1] \in targets
    <3>1. resolved'[id] = ResolvePending(RefsOf(next)[id], PatchedIndex(next, targets))
      BY <1>1, <1>2, <2>2 DEF Commit, PatchedResolved
    <3>2. QED
      BY <3>1, OneAnswerAtMost
  <2>3. CASE ~(id \in Affected(next, targets) \/ id[1] \in targets)
    <3>1. resolved'[id] = resolved[id]
      BY <1>1, <1>2, <2>3 DEF Commit, PatchedResolved
    <3>2. id \in DOMAIN resolved
      BY <1>1, <2>1, <2>3, IdMembers DEF AgreeOutside
    <3>3. QED
      BY <3>1, <3>2 DEF ValuesOK
  <2>4. QED
    BY <2>2, <2>3
<1>3. QED
  BY <1>2

LEMMA NextKeepsValues == Exact /\ ValuesOK /\ [Next]_vars => ValuesOK'
<1> SUFFICES ASSUME Exact, ValuesOK, [Next]_vars PROVE ValuesOK'
  OBVIOUS
<1>1. verdict' \in Verdicts
  BY VerdictsAre
  DEF ValuesOK, Next, vars, ApplyBatch, RefuseBatch, Restart, Apply, Reindex, Verdicts
<1>2. \A id \in DOMAIN resolved' : Len(resolved'[id]) \in {0, 1}
  <2>1. ASSUME UNCHANGED store PROVE \A id \in DOMAIN resolved' : Len(resolved'[id]) \in {0, 1}
    BY <2>1 DEF store, ValuesOK
  <2>2. ASSUME NEW batch \in Batches, NEW order \in SetToSeqs(Targets(batch)),
               ApplyBatch(batch, order)
        PROVE  \A id \in DOMAIN resolved' : Len(resolved'[id]) \in {0, 1}
    <3>1. Accepted(batch) /\ Commit(After(batch), Targets(batch))
      BY <2>2 DEF ApplyBatch
    <3>2. QED
      BY <3>1, BatchAgreesOutside, CommitAnswersOnce DEF Exact
  <2>3. ASSUME NEW damage \in Damaged, Restart(damage)
        PROVE  \A id \in DOMAIN resolved' : Len(resolved'[id]) \in {0, 1}
    <3>1. PICK source : resolved' = FromNothing(source).resolved
      BY <2>3 DEF Restart
    <3>2. \A id \in DOMAIN resolved' :
            resolved'[id] = ResolvePending(RefsOf(source)[id], FromSubgraphs(Range(source)))
      BY <3>1 DEF FromNothing, RefsOf, IdsOf
    <3>3. QED
      BY <3>2, OneAnswerAtMost
  <2>4. QED
    BY <2>1, <2>2, <2>3 DEF Next, vars, RefuseBatch, Apply, Reindex
<1>3. QED
  BY <1>1, <1>2 DEF ValuesOK

\* Every subgraph lies under its owner, every pending reference belongs to a file
\* held and has a stored answer of at most one edge, and a consumer's delta is
\* applied or refused for one of the documented reasons.
THEOREM TypeCorrect == Spec => []TypeOK
<1>1. Init => ValuesOK
  BY DEF Init, ValuesOK, Verdicts
<1>2. QED
  BY <1>1, InitIsExact, NextIsExact, NextKeepsValues, ExactValuesAreTyped, PTL DEF Spec

(***************************************************************************)
(* The search along aliases.                                               *)
(***************************************************************************)

\* One step of the search, given what it finds at the trails that follow.
SearchStep(ix, type_only, found, trail) ==
  IF trail[1] = <<>> \/ trail[1] \in trail[2] THEN {}
  ELSE DirectInstances(ix, trail[1], type_only) \cup
       UNION {found[<<e.source_path, trail[2] \cup {trail[1]}>>] :
                e \in {a \in ix.reexports : a.path = trail[1]}}

\* The search is well defined for any aliases, cycles included: the least of the
\* answers closed under its step is a solution of its equation.
LEMMA AliasSearchUnfolds ==
  ASSUME NEW ix, NEW paths, NEW type_only, \A e \in ix.reexports : e.source_path \in paths
  PROVE  \A trail \in paths \X SUBSET paths :
           AliasSearch(ix, paths, type_only)[trail]
             = SearchStep(ix, type_only, AliasSearch(ix, paths, type_only), trail)
<1> DEFINE Trails == paths \X SUBSET paths
           all == ix.types \cup ix.by_name
           F(f) == [trail \in Trails |-> SearchStep(ix, type_only, f, trail)]
           Closed == {f \in [Trails -> SUBSET all] : \A t \in Trails : F(f)[t] \subseteq f[t]}
           Least == [t \in Trails |-> {x \in all : \A f \in Closed : x \in f[t]}]
<1>1. \A p : DirectInstances(ix, p, type_only) \subseteq all
  BY DEF DirectInstances
<1>2. ASSUME NEW t \in Trails, NEW e \in ix.reexports
      PROVE  <<e.source_path, t[2] \cup {t[1]}>> \in Trails
  BY <1>2
<1>3. ASSUME NEW f \in [Trails -> SUBSET all] PROVE F(f) \in [Trails -> SUBSET all]
  <2>1. ASSUME NEW t \in Trails PROVE F(f)[t] \subseteq all
    <3> DEFINE next(e) == <<e.source_path, t[2] \cup {t[1]}>>
    <3>1. \A e \in ix.reexports : f[next(e)] \subseteq all
      BY <1>2
    <3>2. F(f)[t] = SearchStep(ix, type_only, f, t)
      OBVIOUS
    <3> HIDE DEF Trails, all, F
    <3>3. SearchStep(ix, type_only, f, t) \subseteq all
      BY <1>1, <3>1 DEF SearchStep
    <3> QED BY <3>2, <3>3
  <2> QED BY <2>1
<1>4. ASSUME NEW f, NEW g, \A t \in Trails : f[t] \subseteq g[t]
      PROVE  \A t \in Trails : F(f)[t] \subseteq F(g)[t]
  <2> SUFFICES ASSUME NEW t \in Trails PROVE F(f)[t] \subseteq F(g)[t]
    OBVIOUS
  <2> DEFINE next(e) == <<e.source_path, t[2] \cup {t[1]}>>
  <2>1. \A e \in ix.reexports : f[next(e)] \subseteq g[next(e)]
    BY <1>2, <1>4
  <2>2. F(f)[t] = SearchStep(ix, type_only, f, t) /\ F(g)[t] = SearchStep(ix, type_only, g, t)
    OBVIOUS
  <2> HIDE DEF Trails, F
  <2>3. SearchStep(ix, type_only, f, t) \subseteq SearchStep(ix, type_only, g, t)
    BY <2>1 DEF SearchStep
  <2> QED BY <2>2, <2>3
<1> HIDE DEF Trails, all, F
<1>5. Least \in [Trails -> SUBSET all]
  OBVIOUS
<1>6. \A t \in Trails : F(Least)[t] \subseteq Least[t]
  <2> SUFFICES ASSUME NEW t \in Trails, NEW x \in F(Least)[t] PROVE x \in Least[t]
    OBVIOUS
  <2>1. x \in all
    BY <1>3, <1>5
  <2>2. ASSUME NEW f \in Closed PROVE x \in f[t]
    <3>1. \A u \in Trails : Least[u] \subseteq f[u]
      OBVIOUS
    <3>2. F(Least)[t] \subseteq F(f)[t]
      BY <1>4, <3>1
    <3> QED BY <3>2
  <2> QED BY <2>1, <2>2
<1>7. F(Least) \in Closed
  <2>1. F(Least) \in [Trails -> SUBSET all]
    BY <1>3, <1>5
  <2>2. \A t \in Trails : F(F(Least))[t] \subseteq F(Least)[t]
    <3> HIDE DEF Least
    <3> QED BY <1>4, <1>6
  <2> QED BY <2>1, <2>2
<1>8. \A t \in Trails : Least[t] \subseteq F(Least)[t]
  <2> SUFFICES ASSUME NEW t \in Trails, NEW x \in Least[t] PROVE x \in F(Least)[t]
    OBVIOUS
  <2>1. \A f \in Closed : x \in f[t]
    OBVIOUS
  <2> HIDE DEF Least, Closed
  <2> QED BY <1>7, <2>1
<1>9. Least = F(Least)
  <2>1. \A t \in Trails : Least[t] = F(Least)[t]
    BY <1>6, <1>8
  <2>2. F(Least) \in [Trails -> SUBSET all]
    BY <1>3, <1>5
  <2> HIDE DEF Least
  <2> QED BY <1>5, <2>1, <2>2
<1>10. AliasSearch(ix, paths, type_only) = CHOOSE f : f = F(f)
  BY Zenon DEF AliasSearch, F, Trails, SearchStep
<1>11. \A f : f = (CHOOSE g : g = F(g)) => f = F(f)
  <2> HIDE DEF Least
  <2> QED BY <1>9
<1>12. AliasSearch(ix, paths, type_only) = F(AliasSearch(ix, paths, type_only))
  BY <1>10, <1>11
<1> QED BY <1>12 DEF F, Trails

\* A path that no alias publishes stands for the definitions under it alone.
LEMMA LookupWithoutAlias ==
  ASSUME NEW ix, NEW start, NEW type_only, start # <<>>, \A e \in ix.reexports : e.path # start
  PROVE  ResolvedPathInstances(ix, start, type_only) = DirectInstances(ix, start, type_only)
<1> DEFINE paths == {start} \cup {e.source_path : e \in ix.reexports}
           search == AliasSearch(ix, paths, type_only)
           trail == <<start, {}>>
<1>1. \A e \in ix.reexports : e.source_path \in paths
  OBVIOUS
<1>2. trail \in paths \X SUBSET paths
  OBVIOUS
<1>3. ResolvedPathInstances(ix, start, type_only) = search[trail]
  BY DEF ResolvedPathInstances
<1>4. trail[1] = start /\ trail[2] = {}
  OBVIOUS
<1> HIDE DEF paths, trail
<1>5. search[trail] = SearchStep(ix, type_only, search, trail)
  BY <1>1, <1>2, AliasSearchUnfolds
<1> HIDE DEF search
<1>6. {a \in ix.reexports : a.path = trail[1]} = {}
  BY <1>4
<1>7. SearchStep(ix, type_only, search, trail) = DirectInstances(ix, start, type_only)
  BY <1>4, <1>6 DEF SearchStep
<1> QED BY <1>3, <1>5, <1>7

(***************************************************************************)
(* Selective resolution: what a change cannot reach keeps its answer.      *)
(***************************************************************************)

\* The records that fit a reference, apart from the ones behind an alias.
Fits(p, e) == e.key = p.name /\ (p.segs = <<>> \/ NamespacesEndWith(e.id, p.segs))
FitsQualified(p, e) ==
  e.key = p.name /\ (NamespacesEndWith(e.id, p.segs) \/ EnclosingPathEndsWith(e.id, p.segs))

\* Both indices hold the same records as far as a reference can tell.
SameFor(p, ix, jx) ==
  /\ p.role \in {"ModuleRef", "TypeRef"} /\ (p.role = "TypeRef" => ~p.type_only) =>
       {e \in ix.modules : Fits(p, e)} = {e \in jx.modules : Fits(p, e)}
  /\ p.role = "TypeRef" /\ p.type_only =>
       {e \in ix.types : Fits(p, e)} = {e \in jx.types : Fits(p, e)}
  /\ p.role # "ModuleRef" /\ ~(p.role = "TypeRef" /\ p.type_only) =>
       /\ p.role = "TypeRef" \/ ~p.qualified =>
            {e \in ix.by_name : Fits(p, e)} = {e \in jx.by_name : Fits(p, e)}
       /\ p.role # "TypeRef" /\ p.qualified =>
            {e \in ix.by_name : FitsQualified(p, e)} = {e \in jx.by_name : FitsQualified(p, e)}

LEMMA EndsOfAppend ==
  ASSUME NEW segs \in Seq(STRING), NEW name
  PROVE  /\ Append(segs, name) # <<>>
         /\ Last(Append(segs, name)) = name
         /\ Front(Append(segs, name)) = segs
<1>1. Len(Append(segs, name)) = Len(segs) + 1 /\ Append(segs, name)[Len(segs) + 1] = name
  OBVIOUS
<1>2. Len(segs) \in Nat
  OBVIOUS
<1>3. \A i \in 1 .. Len(segs) : Append(segs, name)[i] = segs[i]
  OBVIOUS
<1>4. SubSeq(Append(segs, name), 1, Len(segs)) = segs
  BY <1>1, <1>2, <1>3
<1>5. Append(segs, name) # <<>> /\ Len(Append(segs, name)) - 1 = Len(segs)
  BY <1>1, <1>2
<1> QED BY <1>1, <1>4, <1>5 DEF Last, Front

\* The lookup under the full path of a reference, when no alias lies on it.
LEMMA DirectLookup ==
  ASSUME NEW ix, NEW p, p.segs \in Seq(STRING), ~ThroughAlias(p, ix)
  PROVE  /\ UniqueReexportMatch(ix, p.name, p.segs, TRUE)
              = UniqueId({e \in ix.types : e.key = p.name /\ NamespacesEndWith(e.id, p.segs)})
         /\ UniqueReexportMatch(ix, p.name, p.segs, FALSE)
              = UniqueId({e \in ix.by_name : e.key = p.name /\ NamespacesEndWith(e.id, p.segs)})
<1> DEFINE start == Append(p.segs, p.name)
<1>1. \A e \in ix.reexports : e.path # start
  BY DEF ThroughAlias
<1>2. start # <<>> /\ Last(start) = p.name /\ Front(start) = p.segs
  BY EndsOfAppend
<1> HIDE DEF start
<1>3. \A type_only \in BOOLEAN :
        ResolvedPathInstances(ix, start, type_only) = DirectInstances(ix, start, type_only)
  BY <1>1, <1>2, LookupWithoutAlias
<1>4. /\ DirectInstances(ix, start, TRUE)
           = {e \in ix.types : e.key = p.name /\ NamespacesEndWith(e.id, p.segs)}
      /\ DirectInstances(ix, start, FALSE)
           = {e \in ix.by_name : e.key = p.name /\ NamespacesEndWith(e.id, p.segs)}
  BY <1>2 DEF DirectInstances
<1>5. \A type_only \in BOOLEAN : UniqueReexportMatch(ix, p.name, p.segs, type_only)
        = UniqueId(ResolvedPathInstances(ix, start, type_only))
  BY DEF UniqueReexportMatch, start
<1> QED BY <1>3, <1>4, <1>5

LEMMA SameAnswer ==
  ASSUME NEW ix, NEW jx, NEW p, p.segs \in Seq(STRING),
         ~ThroughAlias(p, ix), ~ThroughAlias(p, jx), SameFor(p, ix, jx)
  PROVE  ResolvePending(p, ix) = ResolvePending(p, jx)
<1>1. CASE p.role = "ModuleRef"
  <2>1. {e \in ix.modules : Fits(p, e)} = {e \in jx.modules : Fits(p, e)}
    BY <1>1 DEF SameFor
  <2>2. Matched(p, ix) = Matched(p, jx)
    BY <1>1, <2>1 DEF Matched, UniqueIn, Fits
  <2> QED BY <2>2 DEF ResolvePending
<1>2. CASE p.role = "TypeRef" /\ p.type_only
  <2>1. {e \in ix.types : Fits(p, e)} = {e \in jx.types : Fits(p, e)}
    BY <1>2 DEF SameFor
  <2>2. {e \in ix.types : e.key = p.name /\ NamespacesEndWith(e.id, p.segs)}
          = {e \in jx.types : e.key = p.name /\ NamespacesEndWith(e.id, p.segs)}
    BY <2>1 DEF Fits
  <2>3. UniqueReexportMatch(ix, p.name, p.segs, TRUE)
          = UniqueReexportMatch(jx, p.name, p.segs, TRUE)
    <3>1. UniqueReexportMatch(ix, p.name, p.segs, TRUE)
            = UniqueId({e \in ix.types : e.key = p.name /\ NamespacesEndWith(e.id, p.segs)})
      BY DirectLookup
    <3>2. UniqueReexportMatch(jx, p.name, p.segs, TRUE)
            = UniqueId({e \in jx.types : e.key = p.name /\ NamespacesEndWith(e.id, p.segs)})
      BY DirectLookup
    <3> QED BY <2>2, <3>1, <3>2
  <2>4. UniqueIn(ix.types, p.name, p.segs) = UniqueIn(jx.types, p.name, p.segs)
    BY <2>1 DEF UniqueIn, Fits
  <2>5. Matched(p, ix) = Matched(p, jx)
    BY <1>2, <2>3, <2>4 DEF Matched
  <2> QED BY <2>5 DEF ResolvePending
<1>3. CASE p.role = "TypeRef" /\ ~p.type_only
  <2>1. /\ {e \in ix.modules : Fits(p, e)} = {e \in jx.modules : Fits(p, e)}
        /\ {e \in ix.by_name : Fits(p, e)} = {e \in jx.by_name : Fits(p, e)}
    BY <1>3 DEF SameFor
  <2>2. {e \in ix.by_name : e.key = p.name /\ NamespacesEndWith(e.id, p.segs)}
          = {e \in jx.by_name : e.key = p.name /\ NamespacesEndWith(e.id, p.segs)}
    BY <2>1 DEF Fits
  <2>3. UniqueReexportMatch(ix, p.name, p.segs, FALSE)
          = UniqueReexportMatch(jx, p.name, p.segs, FALSE)
    <3>1. UniqueReexportMatch(ix, p.name, p.segs, FALSE)
            = UniqueId({e \in ix.by_name : e.key = p.name /\ NamespacesEndWith(e.id, p.segs)})
      BY DirectLookup
    <3>2. UniqueReexportMatch(jx, p.name, p.segs, FALSE)
            = UniqueId({e \in jx.by_name : e.key = p.name /\ NamespacesEndWith(e.id, p.segs)})
      BY DirectLookup
    <3> QED BY <2>2, <3>1, <3>2
  <2>4. /\ UniqueIn(ix.modules, p.name, p.segs) = UniqueIn(jx.modules, p.name, p.segs)
        /\ UniqueIn(ix.by_name, p.name, p.segs) = UniqueIn(jx.by_name, p.name, p.segs)
    BY <2>1 DEF UniqueIn, Fits
  <2>5. Matched(p, ix) = Matched(p, jx)
    BY <1>3, <2>3, <2>4 DEF Matched
  <2> QED BY <2>5 DEF ResolvePending
<1>4. CASE p.role \notin {"ModuleRef", "TypeRef"} /\ p.qualified
  <2>1. {e \in ix.by_name : FitsQualified(p, e)} = {e \in jx.by_name : FitsQualified(p, e)}
    BY <1>4 DEF SameFor
  <2>2. {e \in ix.by_name : e.key = p.name /\ NamespacesEndWith(e.id, p.segs)}
          = {e \in jx.by_name : e.key = p.name /\ NamespacesEndWith(e.id, p.segs)}
    BY <2>1 DEF FitsQualified
  <2>3. UniqueReexportMatch(ix, p.name, p.segs, FALSE)
          = UniqueReexportMatch(jx, p.name, p.segs, FALSE)
    <3>1. UniqueReexportMatch(ix, p.name, p.segs, FALSE)
            = UniqueId({e \in ix.by_name : e.key = p.name /\ NamespacesEndWith(e.id, p.segs)})
      BY DirectLookup
    <3>2. UniqueReexportMatch(jx, p.name, p.segs, FALSE)
            = UniqueId({e \in jx.by_name : e.key = p.name /\ NamespacesEndWith(e.id, p.segs)})
      BY DirectLookup
    <3> QED BY <2>2, <3>1, <3>2
  <2>4. UniqueQualifiedMatch(ix, p.name, p.segs) = UniqueQualifiedMatch(jx, p.name, p.segs)
    BY <2>1 DEF UniqueQualifiedMatch, FitsQualified
  <2>5. Matched(p, ix) = Matched(p, jx)
    BY <1>4, <2>3, <2>4 DEF Matched
  <2> QED BY <2>5 DEF ResolvePending
<1>5. CASE p.role \notin {"ModuleRef", "TypeRef"} /\ ~p.qualified
  <2>1. {e \in ix.by_name : Fits(p, e)} = {e \in jx.by_name : Fits(p, e)}
    BY <1>5 DEF SameFor
  <2>2. {e \in ix.by_name : e.key = p.name /\ NamespacesEndWith(e.id, p.segs)}
          = {e \in jx.by_name : e.key = p.name /\ NamespacesEndWith(e.id, p.segs)}
    BY <2>1 DEF Fits
  <2>3. UniqueReexportMatch(ix, p.name, p.segs, FALSE)
          = UniqueReexportMatch(jx, p.name, p.segs, FALSE)
    <3>1. UniqueReexportMatch(ix, p.name, p.segs, FALSE)
            = UniqueId({e \in ix.by_name : e.key = p.name /\ NamespacesEndWith(e.id, p.segs)})
      BY DirectLookup
    <3>2. UniqueReexportMatch(jx, p.name, p.segs, FALSE)
            = UniqueId({e \in jx.by_name : e.key = p.name /\ NamespacesEndWith(e.id, p.segs)})
      BY DirectLookup
    <3> QED BY <2>2, <3>1, <3>2
  <2>4. UniqueIn(ix.by_name, p.name, p.segs) = UniqueIn(jx.by_name, p.name, p.segs)
    BY <2>1 DEF UniqueIn, Fits
  <2>5. Matched(p, ix) = Matched(p, jx)
    BY <1>5, <2>3, <2>4 DEF Matched
  <2> QED BY <2>5 DEF ResolvePending
<1> QED BY <1>1, <1>2, <1>3, <1>4, <1>5

\* A definition that could change the answer of a pending reference finds it through
\* the reverse index.
LEMMA MatchedIsAffected ==
  ASSUME by_domain = ReverseEntries(DOMAIN pending, pending), NEW id \in DOMAIN pending,
         NEW symbol, PendingMatchesSymbol(pending[id], symbol)
  PROVE  id \in AffectedBy(symbol)
<1> DEFINE p == pending[id]
           key == IF symbol.kind = "Module" THEN symbol.name ELSE LeafName(symbol.id)
           domains == IF symbol.kind = "Module" THEN {"Module"} ELSE {"Ordinary", "Qualified"}
<1>1. key = p.name /\ \E d \in domains : d \in Domains(p)
  BY DEF PendingMatchesSymbol, Domains, IsTypeKind, TypeKinds
<1>2. PICK d \in domains : d \in Domains(p)
  BY <1>1
<1>3. <<d, key, id>> \in by_domain
  BY <1>1, <1>2, ReverseMembers
<1> QED BY <1>2, <1>3 DEF AffectedBy

\* What the files outside the targets define, and what a target defines and the
\* reference cannot mean, is no reason for another answer.
LEMMA RecordsKept ==
  ASSUME NEW targets, NEW old, NEW next, AgreeOutside(targets, old, next), NEW p,
         \A f \in targets \cap DOMAIN old : \A i \in DOMAIN old[f].symbols :
           ~PendingMatchesSymbol(p, old[f].symbols[i]),
         NEW ix, NEW jx, ix = FromSubgraphs(Range(old)), jx = FromSubgraphs(Range(next))
  PROVE  /\ p.role \in {"ModuleRef", "TypeRef"} /\ (p.role = "TypeRef" => ~p.type_only) =>
              \A e \in ix.modules : Fits(p, e) => e \in jx.modules
         /\ p.role = "TypeRef" /\ p.type_only =>
              \A e \in ix.types : Fits(p, e) => e \in jx.types
         /\ p.role # "ModuleRef" /\ ~(p.role = "TypeRef" /\ p.type_only) =>
              /\ p.role = "TypeRef" \/ ~p.qualified =>
                   \A e \in ix.by_name : Fits(p, e) => e \in jx.by_name
              /\ p.role # "TypeRef" /\ p.qualified =>
                   \A e \in ix.by_name : FitsQualified(p, e) => e \in jx.by_name
<1>1. /\ ix.by_name = UNION {NamedEntries(s, Ordinary) : s \in Range(old)}
      /\ ix.modules = UNION {ModuleEntries(s) : s \in Range(old)}
      /\ ix.types = UNION {NamedEntries(s, TypeKinds) : s \in Range(old)}
      /\ jx.by_name = UNION {NamedEntries(s, Ordinary) : s \in Range(next)}
      /\ jx.modules = UNION {ModuleEntries(s) : s \in Range(next)}
      /\ jx.types = UNION {NamedEntries(s, TypeKinds) : s \in Range(next)}
  BY DEF FromSubgraphs, InsertSubgraphs, NewIndex
<1>2. ASSUME NEW f \in DOMAIN old, f \notin targets PROVE old[f] \in Range(next)
  BY <1>2 DEF AgreeOutside, Range
<1>3. ASSUME NEW e \in ix.modules, Fits(p, e),
             p.role \in {"ModuleRef", "TypeRef"}, p.role = "TypeRef" => ~p.type_only
      PROVE  e \in jx.modules
  <2>1. PICK f \in DOMAIN old : e \in ModuleEntries(old[f])
    <3>1. PICK sub \in Range(old) : e \in ModuleEntries(sub)
      BY <1>1, <1>3
    <3> QED BY <3>1 DEF Range
  <2>2. PICK i \in DOMAIN old[f].symbols :
          /\ old[f].symbols[i].kind = "Module"
          /\ e.key = old[f].symbols[i].name /\ e.id = old[f].symbols[i].id
    BY <2>1 DEF ModuleEntries, Instance
  <2>3. PendingMatchesSymbol(p, old[f].symbols[i])
    BY <1>3, <2>2 DEF PendingMatchesSymbol, Fits
  <2> QED BY <1>1, <1>2, <2>1, <2>3
<1>4. ASSUME NEW kinds, NEW e, NEW f \in DOMAIN old, e \in NamedEntries(old[f], kinds)
      PROVE  \E i \in DOMAIN old[f].symbols :
               /\ old[f].symbols[i].kind \in kinds
               /\ e.key = LeafName(old[f].symbols[i].id) /\ e.id = old[f].symbols[i].id
  <2>1. PICK i \in {j \in DOMAIN old[f].symbols :
                      /\ old[f].symbols[j].kind \in kinds
                      /\ LeafName(old[f].symbols[j].id) # ""} :
          e = Instance(LeafName(old[f].symbols[i].id), old[f].owner, i, old[f].symbols[i].id)
    BY <1>4 DEF NamedEntries
  <2> QED BY <2>1 DEF Instance
<1>5. ASSUME NEW e \in ix.types, Fits(p, e), p.role = "TypeRef", p.type_only
      PROVE  e \in jx.types
  <2>1. PICK f \in DOMAIN old : e \in NamedEntries(old[f], TypeKinds)
    <3>1. PICK sub \in Range(old) : e \in NamedEntries(sub, TypeKinds)
      BY <1>1
    <3> QED BY <3>1 DEF Range
  <2>2. PICK i \in DOMAIN old[f].symbols :
          /\ old[f].symbols[i].kind \in TypeKinds
          /\ e.key = LeafName(old[f].symbols[i].id) /\ e.id = old[f].symbols[i].id
    BY <1>4, <2>1
  <2>3. PendingMatchesSymbol(p, old[f].symbols[i])
    BY <1>5, <2>2 DEF PendingMatchesSymbol, Fits, IsTypeKind
  <2> QED BY <1>1, <1>2, <2>1, <2>3
<1>6. ASSUME NEW e \in ix.by_name, p.role # "ModuleRef", ~(p.role = "TypeRef" /\ p.type_only),
             \/ Fits(p, e) /\ (p.role = "TypeRef" \/ ~p.qualified)
             \/ FitsQualified(p, e) /\ p.role # "TypeRef" /\ p.qualified
      PROVE  e \in jx.by_name
  <2>1. PICK f \in DOMAIN old : e \in NamedEntries(old[f], Ordinary)
    <3>1. PICK sub \in Range(old) : e \in NamedEntries(sub, Ordinary)
      BY <1>1
    <3> QED BY <3>1 DEF Range
  <2>2. PICK i \in DOMAIN old[f].symbols :
          /\ old[f].symbols[i].kind \in Ordinary
          /\ e.key = LeafName(old[f].symbols[i].id) /\ e.id = old[f].symbols[i].id
    BY <1>4, <2>1
  <2>3. old[f].symbols[i].kind # "Module"
    BY <2>2 DEF Ordinary
  <2>4. PendingMatchesSymbol(p, old[f].symbols[i])
    BY <1>6, <2>2, <2>3 DEF PendingMatchesSymbol, Fits, FitsQualified
  <2> QED BY <1>1, <1>2, <2>1, <2>4
<1> QED BY <1>3, <1>5, <1>6

\* A batch that touches no re-export leaves the aliases alone.
LEMMA AliasesKept ==
  ASSUME NEW targets, NEW old, NEW next, AgreeOutside(targets, old, next),
         IsFileMap(old), IsFileMap(next),
         \A f \in targets \cap DOMAIN old :
           IF f \in DOMAIN next THEN old[f].reexports = next[f].reexports
                                ELSE old[f].reexports = <<>>
  PROVE  UNION {ReExportEntries(s) : s \in Range(old)}
           \subseteq UNION {ReExportEntries(s) : s \in Range(next)}
<1> SUFFICES ASSUME NEW f \in DOMAIN old, NEW e \in ReExportEntries(old[f])
             PROVE  \E g \in DOMAIN next : e \in ReExportEntries(next[g])
  BY DEF Range
<1>1. CASE f \notin targets
  BY <1>1 DEF AgreeOutside
<1>2. CASE f \in targets /\ f \in DOMAIN next
  <2>1. old[f].reexports = next[f].reexports /\ old[f].owner = next[f].owner
    BY <1>2 DEF IsFileMap
  <2> QED BY <1>2, <2>1 DEF ReExportEntries
<1>3. CASE f \in targets /\ f \notin DOMAIN next
  <2>1. old[f].reexports = <<>>
    BY <1>3
  <2> QED BY <2>1 DEF ReExportEntries
<1> QED BY <1>1, <1>2, <1>3

\* The qualifiers of all references held are lists of names.
Lists(sub) == \A i \in DOMAIN sub.pending : sub.pending[i].segs \in Seq(STRING)
QualifiersAreLists == \A f \in DOMAIN files : Lists(files[f])

LEMMA GivenSubgraphsAreLists ==
  ASSUME NEW sub \in Range(Built) \cup UNION {Range(damage) : damage \in Damaged}
  PROVE  Lists(sub)
<1>1. \A p \in Range(sub.pending) : p.segs \in Seq(STRING)
  BY QualifierAssumption DEF GivenSubgraphs
<1> QED BY <1>1 DEF Lists, Range

LEMMA BatchKeepsLists ==
  ASSUME QualifiersAreLists, NEW batch \in Batches, Accepted(batch)
  PROVE  \A f \in DOMAIN After(batch) : Lists(After(batch)[f])
<1> DEFINE upserts == {c \in Range(batch) : c[1] = "upsert"}
           kept == DOMAIN files \ Targets(batch)
           chosen(f) == CHOOSE c \in upserts : c[2].file = f
<1>1. After(batch) = [f \in kept \cup {c[2].file : c \in upserts} |->
                        IF f \in kept THEN files[f] ELSE Built[chosen(f)[2]]]
  BY DEF After
<1>2. ASSUME NEW c \in upserts PROVE Lists(Built[c[2]])
  <2>1. c[2] \in DOMAIN Built
    BY <1>2 DEF Built, Accepted
  <2>2. Built[c[2]] \in Range(Built)
    BY <2>1 DEF Range
  <2> QED BY <2>2, GivenSubgraphsAreLists
<1>3. ASSUME NEW f \in {c[2].file : c \in upserts} PROVE chosen(f) \in upserts
  <2>1. PICK c \in upserts : c[2].file = f
    BY <1>3
  <2> QED BY <2>1
<1> HIDE DEF upserts, kept, chosen
<1>4. ASSUME NEW f \in DOMAIN After(batch) PROVE Lists(After(batch)[f])
  <2>1. CASE f \in kept
    BY <1>1, <2>1 DEF kept, QualifiersAreLists
  <2>2. CASE f \notin kept
    <3>1. f \in {c[2].file : c \in upserts} /\ After(batch)[f] = Built[chosen(f)[2]]
      BY <1>1, <1>4, <2>2
    <3> QED BY <1>2, <1>3, <3>1
  <2> QED BY <2>1, <2>2
<1> QED BY <1>4

\* A batch re-resolves every reference whose answer it may have changed.
LEMMA CommitKeepsAnswers ==
  ASSUME Exact, QualifiersAreLists, AnswersAreCurrent,
         NEW targets, NEW next, IsFileMap(next), AgreeOutside(targets, files, next),
         Commit(next, targets)
  PROVE  AnswersAreCurrent'
<1>1. /\ index = FromSubgraphs(Range(files))
      /\ pending = RefsOf(files) /\ DOMAIN pending = IdsOf(files)
      /\ by_domain = ReverseEntries(DOMAIN pending, pending)
      /\ IsFileMap(files)
  BY ExactIs DEF Exact, RefsOf
<1> DEFINE made == FromSubgraphs(Range(next))
           refs == RefsOf(next)
<1>2. /\ index' = made /\ PatchedIndex(next, targets) = made
      /\ pending' = refs /\ PatchedPending(next, targets) = refs
      /\ resolved' = PatchedResolved(next, targets)
  BY <1>1, PatchedIndexIsExact, PatchedPendingIsExact DEF Commit, Exact
<1>3. DOMAIN refs = IdsOf(next)
  BY DEF RefsOf
<1> HIDE DEF refs, made
<1>4. SUFFICES ASSUME NEW id \in DOMAIN refs, ~ThroughAlias(refs[id], made)
               PROVE  resolved'[id] = ResolvePending(refs[id], made)
  BY <1>2 DEF AnswersAreCurrent
<1>5. CASE id \in Affected(next, targets) \/ id[1] \in targets
  BY <1>2, <1>5 DEF PatchedResolved
<1>6. CASE ~(id \in Affected(next, targets) \/ id[1] \in targets)
  <2> DEFINE p == pending[id]
  <2>1. resolved'[id] = resolved[id]
    BY <1>2, <1>6 DEF PatchedResolved
  <2>2. id \in DOMAIN pending /\ refs[id] = p
    <3>1. id \in IdsOf(next) /\ id[1] \in DOMAIN next /\ id[2] \in DOMAIN next[id[1]].pending
          /\ id = <<id[1], id[2]>>
      BY <1>3, IdMembers
    <3>2. id[1] \in DOMAIN files /\ next[id[1]] = files[id[1]]
      BY <1>6, <3>1 DEF AgreeOutside
    <3>3. id \in IdsOf(files)
      BY <3>1, <3>2, IdMembers
    <3> QED BY <1>1, <3>1, <3>2, <3>3 DEF RefsOf, refs
  <2>3. p.segs \in Seq(STRING)
    <3>1. id[1] \in DOMAIN files /\ id[2] \in DOMAIN files[id[1]].pending
      BY <1>1, <2>2, IdMembers
    <3>2. p = files[id[1]].pending[id[2]]
      BY <1>1, <2>2 DEF RefsOf
    <3> QED BY <3>1, <3>2 DEF QualifiersAreLists, Lists
  <2> HIDE DEF p
  <2>4. ~ReexportsChanged(next, targets)
    BY <1>6, <2>2 DEF Affected
  <2>5. ASSUME NEW f \in targets, NEW s \in SymbolsOf(Old(f)) \cup SymbolsOf(New(next, f))
        PROVE  ~PendingMatchesSymbol(p, s)
    <3>1. id \notin AffectedBy(s)
      BY <1>6, <2>4, <2>5 DEF Affected
    <3> QED BY <1>1, <2>2, <3>1, MatchedIsAffected DEF p
  <2>6. ASSUME NEW f \in targets \cap DOMAIN files, NEW i \in DOMAIN files[f].symbols
        PROVE  ~PendingMatchesSymbol(p, files[f].symbols[i])
    <3>1. files[f].symbols[i] \in SymbolsOf(Old(f))
      BY <2>6 DEF SymbolsOf, Old, Range
    <3> QED BY <2>5, <3>1
  <2>7. ASSUME NEW f \in targets \cap DOMAIN next, NEW i \in DOMAIN next[f].symbols
        PROVE  ~PendingMatchesSymbol(p, next[f].symbols[i])
    <3>1. next[f].symbols[i] \in SymbolsOf(New(next, f))
      BY <2>7 DEF SymbolsOf, New, Range
    <3> QED BY <2>5, <3>1
  <2>8. AgreeOutside(targets, next, files)
    BY DEF AgreeOutside
  <2>9. index.reexports = made.reexports
    <3>1. index.reexports = UNION {ReExportEntries(s) : s \in Range(files)}
          /\ made.reexports = UNION {ReExportEntries(s) : s \in Range(next)}
      BY <1>1 DEF made, FromSubgraphs, InsertSubgraphs, NewIndex
    <3>2. \A f \in targets \cap DOMAIN files :
            IF f \in DOMAIN next THEN files[f].reexports = next[f].reexports
                                 ELSE files[f].reexports = <<>>
      BY <2>4 DEF ReexportsChanged
    <3>3. \A f \in targets \cap DOMAIN next :
            IF f \in DOMAIN files THEN next[f].reexports = files[f].reexports
                                  ELSE next[f].reexports = <<>>
      BY <2>4 DEF ReexportsChanged
    <3> QED BY <1>1, <2>8, <3>1, <3>2, <3>3, AliasesKept
  <2>10. ~ThroughAlias(p, index) /\ ~ThroughAlias(p, made)
    BY <1>4, <2>2, <2>9 DEF ThroughAlias
  <2>11. SameFor(p, index, made)
    <3>1. /\ p.role \in {"ModuleRef", "TypeRef"} /\ (p.role = "TypeRef" => ~p.type_only) =>
               \A e : Fits(p, e) => (e \in index.modules <=> e \in made.modules)
          /\ p.role = "TypeRef" /\ p.type_only =>
               \A e : Fits(p, e) => (e \in index.types <=> e \in made.types)
          /\ p.role # "ModuleRef" /\ ~(p.role = "TypeRef" /\ p.type_only) =>
               /\ p.role = "TypeRef" \/ ~p.qualified =>
                    \A e : Fits(p, e) => (e \in index.by_name <=> e \in made.by_name)
               /\ p.role # "TypeRef" /\ p.qualified =>
                    \A e : FitsQualified(p, e) => (e \in index.by_name <=> e \in made.by_name)
      BY <1>1, <2>6, <2>7, <2>8, RecordsKept DEF made
    <3> QED BY <3>1 DEF SameFor
  <2>12. ResolvePending(p, index) = ResolvePending(p, made)
    BY <2>3, <2>10, <2>11, SameAnswer
  <2>13. resolved[id] = ResolvePending(p, index)
    BY <2>2, <2>10 DEF AnswersAreCurrent, p
  <2> QED BY <2>1, <2>2, <2>12, <2>13
<1> QED BY <1>5, <1>6

LEMMA NextKeepsAnswers ==
  Exact /\ QualifiersAreLists /\ AnswersAreCurrent /\ [Next]_vars
    => QualifiersAreLists' /\ AnswersAreCurrent'
<1> SUFFICES ASSUME Exact, QualifiersAreLists, AnswersAreCurrent, [Next]_vars
             PROVE  QualifiersAreLists' /\ AnswersAreCurrent'
  OBVIOUS
<1>1. ASSUME UNCHANGED store PROVE QualifiersAreLists' /\ AnswersAreCurrent'
  BY <1>1 DEF store, QualifiersAreLists, AnswersAreCurrent
<1>2. ASSUME NEW batch \in Batches, NEW order \in SetToSeqs(Targets(batch)),
             ApplyBatch(batch, order)
      PROVE  QualifiersAreLists' /\ AnswersAreCurrent'
  <2>1. Accepted(batch) /\ Commit(After(batch), Targets(batch))
    BY <1>2 DEF ApplyBatch
  <2>2. IsFileMap(After(batch)) /\ AgreeOutside(Targets(batch), files, After(batch))
    BY <2>1, BatchAgreesOutside DEF Exact
  <2>3. AnswersAreCurrent'
    BY <2>1, <2>2, CommitKeepsAnswers
  <2>4. QualifiersAreLists'
    BY <2>1, BatchKeepsLists DEF Commit, QualifiersAreLists
  <2> QED BY <2>3, <2>4
<1>3. ASSUME NEW damage \in Damaged, Restart(damage)
      PROVE  QualifiersAreLists' /\ AnswersAreCurrent'
  <2> DEFINE persisted == [f \in DOMAIN files |->
                             IF f \in DOMAIN damage THEN damage[f] ELSE files[f]]
             usable == \A f \in DOMAIN persisted : Restorable(f, persisted[f])
             source == IF usable THEN persisted ELSE files
  <2>1. /\ files' = FromNothing(source).files
        /\ index' = FromNothing(source).index
        /\ pending' = FromNothing(source).pending
        /\ resolved' = FromNothing(source).resolved
    BY <1>3 DEF Restart
  <2>2. \A f \in DOMAIN damage : Lists(damage[f])
    BY GivenSubgraphsAreLists DEF Range
  <2>3. \A f \in DOMAIN source : Lists(source[f])
    BY <2>2 DEF QualifiersAreLists
  <2> HIDE DEF source
  <2>4. QualifiersAreLists'
    BY <2>1, <2>3, MadeFromNothing DEF QualifiersAreLists
  <2>5. \A id \in DOMAIN pending' : resolved'[id] = ResolvePending(pending'[id], index')
    BY <2>1 DEF FromNothing
  <2> QED BY <2>4, <2>5 DEF AnswersAreCurrent
<1>4. QED
  BY <1>1, <1>2, <1>3 DEF Next, vars, RefuseBatch, Apply, Reindex

\* Selective resolution is enough: whatever batches and restarts led here, a reference
\* that no re-export lies on has the answer that resolving it now would give
\* (affected_by_symbol, state.rs, against resolve_pending, stitch.rs).
THEOREM SelectiveResolutionSuffices == Spec => []AnswersAreCurrent
<1>1. Init => QualifiersAreLists /\ AnswersAreCurrent
  BY DEF Init, QualifiersAreLists, AnswersAreCurrent
<1>2. QED
  BY <1>1, InitIsExact, NextIsExact, NextKeepsAnswers, PTL DEF Spec
=============================================================================
