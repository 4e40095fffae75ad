------------------------------ MODULE Refresh ------------------------------
(***************************************************************************)
(* The decisions of a refresh that depend on nothing but their arguments:  *)
(* which listed files the budgets admit (refresh/prepare/budgets.rs), which*)
(* package owns each (package_assignment/discover.rs), how the scope tier  *)
(* is resolved, from the subgraphs of the prior snapshot and what changed  *)
(* or from all facts (refresh/resolve.rs), and what the tiers are united to*)
(* (resolve/layered.rs).                                                   *)
(*                                                                         *)
(* A directory is the sequence of its segments, the project's root <<>>.   *)
(* The disk maps <<directory, manifest name>> to what reading that manifest*)
(* comes to, "Parsed" or "Failed"; other names are absent.  A snapshot maps*)
(* each file to its facts and its persisted subgraph, an option: missing   *)
(* units are an ordinary cache miss.                                       *)
(*                                                                         *)
(* The inputs of these decisions grow by one element at a time; for the    *)
(* scope tier the input is a project whose tree changes from one refresh   *)
(* to the next and whose persisted units are damaged in between.           *)
(***************************************************************************)
EXTENDS Resolvers

CONSTANTS
  FilePool, UserFile,               \* files of definitions; the file that refers to them
  UsePool, MaxUses,                 \* its references
  FactPool,                         \* <<part, element>> of one file's facts
  ManifestPool, SourceLists,        \* manifests a disk may hold; directories of sources
  CandidatePool, MaxCandidates, LimitPool, \* files listed, and the budgets they meet
  Trees                             \* the trees a project goes through

VARIABLE input    \* [kind, given]

(* Facts are lists (Vec), spans and introductions are bytes (usize). *)
IsMeasured(symbol) == symbol.span[1] \in Nat /\ symbol.span[2] \in Nat

IsTyped(facts) ==
  /\ facts.symbols \in Seq(Range(facts.symbols))
  /\ facts.references \in Seq(Range(facts.references))
  /\ facts.bindings \in Seq(Range(facts.bindings))
  /\ facts.exports \in Seq(Range(facts.exports))
  /\ \A s \in Range(facts.symbols) : IsMeasured(s)
  /\ \A b \in Range(facts.bindings) : b.intro \in Nat

ASSUME FactAssumption ==
  /\ FactPool \in Seq(Range(FactPool))
  /\ \A fact \in Range(FactPool) :
       /\ fact[1] = "symbol" => IsMeasured(fact[2])
       /\ fact[1] = "binding" => fact[2].intro \in Nat

ASSUME FileAssumption ==
  /\ FilePool \in Seq(Range(FilePool)) /\ UsePool \in Seq(Range(UsePool))
  /\ \A facts \in Range(FilePool) \cup {UserFile} : IsTyped(facts)
  /\ UserFile = [part \in DOMAIN UserFile |-> UserFile[part]]
  /\ "references" \in DOMAIN UserFile

ManifestNames == <<"Cargo.toml", "package.json", "go.mod", "pyproject.toml">>

(* Directories are lists of segments; sizes and limits are counts of bytes *)
(* and of files (u64 and usize).                                           *)
ASSUME DiscoveryAssumption ==
  /\ \A path \in ManifestPool :
       /\ path = <<path[1], path[2]>> /\ path[2] \in Range(ManifestNames)
       /\ path[1] \in Seq(Range(path[1]))
  /\ \A sources \in SourceLists :
       /\ sources \in Seq(Range(sources))
       /\ \A dir \in Range(sources) : dir \in Seq(Range(dir))
  /\ \A c \in CandidatePool :
       c = [path |-> c.path, language |-> c.language, size |-> c.size] /\ c.size \in Nat
  /\ MaxCandidates \in Nat
  /\ \A limits \in LimitPool :
       /\ limits.max_file_bytes \in Nat /\ limits.max_files \in Nat
       /\ limits.max_total_bytes \in Nat

(* The facts of a tree are validated ones, under the key of their file     *)
(* (prepare validates before anything is resolved).                        *)
IsAccepted(file, facts) ==
  file # "" /\ facts.file = file /\ IsTyped(facts) /\ CurrentFacts(facts)

ASSUME TreeAssumption ==
  \A tree \in Trees :
    /\ tree = [f \in DOMAIN tree |-> tree[f]]
    /\ \A f \in DOMAIN tree : IsAccepted(f, tree[f])

(***************************************************************************)
(* apply_metadata_budgets.  `seen` is the fold over the listing so far.    *)
(***************************************************************************)
FitsBefore(seen, candidate, limits) == seen.total <= limits.max_total_bytes

Fits(seen, candidate, limits) == seen.total + candidate.size <= limits.max_total_bytes

Refusal(seen, candidate, limits) ==
  IF candidate.language = "" THEN "None"
  ELSE IF candidate.size > limits.max_file_bytes THEN "FileTooLarge"
  ELSE IF Len(seen.retained) >= limits.max_files THEN "FileCountLimit"
  ELSE IF ~Fits(seen, candidate, limits) THEN "TotalBytesLimit"
  ELSE "None"

Admit(seen, candidate, limits) ==
  LET refusal == Refusal(seen, candidate, limits)
      weight == IF candidate.language = "" THEN 0 ELSE candidate.size
  IN  IF refusal # "None"
      THEN [seen EXCEPT !.omitted = @ \cup {<<candidate.path, refusal>>}]
      ELSE [seen EXCEPT !.retained = Append(@, candidate), !.total = @ + weight]

ApplyMetadataBudgets(candidates, limits) ==
  LET seen[n \in 0 .. Len(candidates)] ==
        IF n = 0 THEN [retained |-> <<>>, omitted |-> {}, total |-> 0]
        ELSE Admit(seen[n - 1], candidates[n], limits)
  IN  seen[Len(candidates)]

(***************************************************************************)
(* assign_packages: the directories that may hold a manifest, the manifests*)
(* read there, and the nearest that parses.                                *)
(***************************************************************************)
(* A directory and its ancestors, the nearest first. *)
Ancestry(dir) == [n \in 1 .. Len(dir) + 1 |-> SubSeq(dir, 1, Len(dir) + 1 - n)]

(* The climb ends at the first directory an earlier file has recorded. *)
RecordAncestry(directories, dir) ==
  LET chain == Ancestry(dir)
      new == {n \in DOMAIN chain : \A m \in 1 .. n : chain[m] \notin directories}
  IN  directories \cup {chain[n] : n \in new}

CandidatePaths(sources) ==
  LET directories[n \in 0 .. Len(sources)] ==
        IF n = 0 THEN {} ELSE RecordAncestry(directories[n - 1], sources[n])
  IN  directories[Len(sources)] \X Range(ManifestNames)

ManifestsRead(disk, sources) ==
  [path \in DOMAIN disk \cap CandidatePaths(sources) |-> disk[path]]

(* The manifest that owns a source in `dir`, as an option: of the nearest  *)
(* directory with one that parses, the first in the order of the names.    *)
SelectPackage(dir, manifests) ==
  LET chain == Ancestry(dir)
      Parsed(n) == {m \in DOMAIN ManifestNames :
                      LET path == <<chain[n], ManifestNames[m]>>
                      IN  path \in DOMAIN manifests /\ manifests[path] = "Parsed"}
      holding == {n \in DOMAIN chain : Parsed(n) # {}}
      near == Min(holding)
  IN  IF holding = {} THEN <<>>
      ELSE <<<<chain[near], ManifestNames[Min(Parsed(near))]>>>>

AssignPackages(disk, sources) ==
  [n \in DOMAIN sources |-> SelectPackage(sources[n], ManifestsRead(disk, sources))]

(***************************************************************************)
(* The scope tier: what is restored and the route that is taken.           *)
(***************************************************************************)
ScopeState(snapshot) ==
  LET kept == {f \in DOMAIN snapshot : snapshot[f].subgraph # <<>>}
  IN  [file_paths |-> DOMAIN snapshot,
       subgraphs |-> [f \in kept |-> snapshot[f].subgraph[1]]]

AnyHydrated(prior) == prior.subgraphs # <<>>

AllHydrated(prior) == DOMAIN prior.subgraphs = prior.file_paths

TransitionIsComplete(prior, current, changed, deleted) ==
  /\ changed \subseteq current
  /\ deleted \subseteq prior.file_paths
  /\ deleted \cap (current \cup changed) = {}
  /\ (prior.file_paths \ deleted) \cup changed = current

Outcomes == {"Fresh", "Incremental", "CacheError", "IndexError"}

(* `prior` is an option; `facts` maps the current files to their facts. *)
Route(prior, facts, changed, deleted) ==
  IF \E f \in DOMAIN facts : ~CurrentFacts(facts[f]) THEN "IndexError"
  ELSE IF prior = <<>> THEN "Fresh"
  ELSE IF \/ ~(DOMAIN prior[1].subgraphs \subseteq prior[1].file_paths)
          \/ \E f \in DOMAIN prior[1].subgraphs : ~Restorable(f, prior[1].subgraphs[f])
  THEN "CacheError"
  ELSE IF /\ AllHydrated(prior[1])
          /\ TransitionIsComplete(prior[1], DOMAIN facts, changed, deleted)
  THEN "Incremental"
  ELSE "Fresh"

(* The subgraphs the store holds when it is asked for the current ones. *)
Held(route, prior, facts, changed, deleted) ==
  LET kept == IF route # "Incremental" THEN {}
              ELSE DOMAIN prior[1].subgraphs \ (deleted \cup changed)
      built == IF route # "Incremental" THEN DOMAIN facts ELSE changed
  IN  [f \in kept \cup built |->
         IF f \in built THEN BuildSubgraph(facts[f]) ELSE prior[1].subgraphs[f]]

(* resolve_scope: it ends in an error when a subgraph is not there. *)
ResolveScope(prior, facts, changed, deleted) ==
  Given(Route(prior, facts, changed, deleted), LAMBDA route :
    IF route \in {"CacheError", "IndexError"} THEN [outcome |-> route, held |-> <<>>]
    ELSE Given(Held(route, prior, facts, changed, deleted), LAMBDA held :
           IF DOMAIN facts \subseteq DOMAIN held THEN [outcome |-> route, held |-> held]
           ELSE [outcome |-> "IndexError", held |-> <<>>]))

(***************************************************************************)
(* One refresh (prepare and finish, refresh/prepare/pipeline.rs): facts of *)
(* the extracted files, the prior facts of the others.  `snapshot` is an   *)
(* option: none without a prior, after a failure, and when the prior holds *)
(* no scope graph.                                                         *)
(***************************************************************************)
ScopeStateOf(snapshot) == IF snapshot = <<>> THEN <<>> ELSE <<ScopeState(snapshot[1])>>

FactsAfter(snapshot, tree, extracted) ==
  [f \in DOMAIN tree |-> IF f \in extracted THEN tree[f] ELSE snapshot[1][f].facts]

SnapshotAfter(facts, answer) ==
  IF answer.outcome \notin {"Fresh", "Incremental"} THEN <<>>
  ELSE <<[f \in DOMAIN facts |-> [facts |-> facts[f], subgraph |-> <<answer.held[f]>>]]>>

(***************************************************************************)
(* Inputs.                                                                 *)
(***************************************************************************)
Begin(kind, given) == [kind |-> kind, given |-> given]

RefreshInputs ==
  {Begin("files", [files |-> {}, uses |-> {}]),
   Begin("facts", {}), Begin("package", <<>>), Begin("budget", <<>>),
   Begin("refresh", [snapshot |-> <<>>, tree |-> <<>>, held |-> {},
                     outcome |-> "Fresh", damaged |-> FALSE])}

Give(kind, given) == input.kind = kind /\ input' = Begin(kind, given)

AddFile ==
  /\ input.kind = "files"
  /\ \E n \in DOMAIN FilePool : Give("files", [input.given EXCEPT !.files = @ \cup {n}])

AddUse ==
  /\ input.kind = "files"
  /\ Cardinality(input.given.uses) < MaxUses
  /\ \E n \in DOMAIN UsePool : Give("files", [input.given EXCEPT !.uses = @ \cup {n}])

AddFact ==
  \E n \in DOMAIN FactPool : Give("facts", input.given \cup {n})

AddManifest ==
  \E path \in ManifestPool : \E outcome \in {"Parsed", "Failed"} :
    Give("package", [p \in DOMAIN input.given \cup {path} |->
                       IF p = path THEN outcome ELSE input.given[p]])

AddCandidate ==
  /\ input.kind = "budget"
  /\ Len(input.given) < MaxCandidates
  /\ \E c \in CandidatePool :
       Give("budget", Append(input.given, [c EXCEPT !.path = Len(input.given) + 1]))

IsDamaged(snapshot) ==
  snapshot # <<>> /\ \E f \in DOMAIN snapshot[1] :
                       \E sub \in Range(snapshot[1][f].subgraph) : sub.schema # SchemaVersion

(* A refresh extracts what is new or changed, and perhaps more. *)
RefreshTree ==
  /\ input.kind = "refresh"
  /\ \E tree \in Trees :
       LET snapshot == input.given.snapshot
           had == IF snapshot = <<>> THEN {} ELSE DOMAIN snapshot[1]
           changed == {f \in DOMAIN tree :
                         f \in had => snapshot[1][f].facts # tree[f]}
       IN  \E extra \in SUBSET (DOMAIN tree \ changed) :
             \E facts \in {FactsAfter(snapshot, tree, changed \cup extra)} :
               \E answer \in {ResolveScope(ScopeStateOf(snapshot), facts,
                                           changed \cup extra, had \ DOMAIN tree)} :
                 Give("refresh",
                      [snapshot |-> SnapshotAfter(facts, answer), tree |-> tree,
                       held |-> DOMAIN answer.held, outcome |-> answer.outcome,
                       damaged |-> IsDamaged(snapshot)])

(* A persisted unit is missing, or is that of another schema. *)
DamageUnit ==
  /\ input.kind = "refresh"
  /\ input.given.snapshot # <<>>
  /\ \E f \in DOMAIN input.given.snapshot[1] : \E missing \in BOOLEAN :
       Give("refresh",
            [input.given EXCEPT
               !.snapshot[1][f].subgraph =
                  IF missing \/ @ = <<>> THEN <<>> ELSE <<[@[1] EXCEPT !.schema = 0]>>])

RefreshNext ==
  \/ AddFile \/ AddUse \/ AddFact \/ AddManifest \/ AddCandidate \/ RefreshTree \/ DamageUnit

RefreshSpec == input \in RefreshInputs /\ [][RefreshNext]_input

(***************************************************************************)
(* The tiers over one project.                                             *)
(***************************************************************************)
Project ==
  Append(EntriesAt(FilePool, input.given.files),
         [UserFile EXCEPT !.references = EntriesAt(UsePool, input.given.uses)])

(* The union of the tiers forgets no fact and invents none, answers each   *)
(* fact with one confidence, the greatest, and keeps no edge twice; what   *)
(* the scope tier persists is in it (merge_graphs and                      *)
(* supplement_scoped_graph, layered.rs).                                   *)
MergeKeepsTheBest ==
  input.kind = "files" =>
    \A files \in {Project} : \A layers \in {Layers(files)} :
      \A given \in {FlattenSeq([n \in DOMAIN layers |-> layers[n].edges])} :
        \A dense \in {MergeGraphs(layers).edges} :
          \A scoped \in {SupplementScopedGraph(layers[2], SubSeq(layers, 4, 5)).edges} :
            /\ IsUnion(dense, given)
            /\ \A e \in Range(scoped) : AsGood(e, dense)

(***************************************************************************)
(* Persistence of what was resolved.                                       *)
(***************************************************************************)
FactsOf(keys) ==
  LET Of(part) == LET own == EntriesAt(FactPool, {n \in keys : FactPool[n][1] = part})
                  IN  [n \in DOMAIN own |-> own[n][2]]
  IN  [file |-> "one", lang |-> "rust", symbols |-> Of("symbol"),
       references |-> Of("reference"), scopes |-> Of("scope"),
       bindings |-> Of("binding"), exports |-> Of("export")]

(* Facts that a refresh accepts resolve to a subgraph that the next one    *)
(* restores: no refresh leaves behind a cache it will call corrupt         *)
(* (validate_current_files, cli/src/refresh/resolve.rs, against            *)
(* validate_restored_subgraph, incremental/store.rs).                      *)
PublishedSubgraphsRestore ==
  input.kind = "facts" =>
    LET facts == FactsOf(input.given)
    IN  CurrentFacts(facts) => Restorable(facts.file, BuildSubgraph(facts))

(* Whatever went before, a refresh holds the subgraphs of the current tree *)
(* and no others, each that of the facts beside it; a missing unit costs a *)
(* fresh resolution and never an error, a damaged one is always reported   *)
(* (resolve_scope, cli/src/refresh/resolve.rs).                            *)
RefreshHoldsCurrent ==
  input.kind = "refresh" =>
    LET last == input.given
    IN  /\ last.outcome # "IndexError"
        /\ (last.outcome = "CacheError") = last.damaged
        /\ last.snapshot # <<>> =>
             /\ last.held = DOMAIN last.tree
             /\ DOMAIN last.snapshot[1] = DOMAIN last.tree
             /\ \A f \in DOMAIN last.tree :
                  /\ last.snapshot[1][f].facts = last.tree[f]
                  /\ \A sub \in Range(last.snapshot[1][f].subgraph) :
                       [sub EXCEPT !.schema = SchemaVersion] = BuildSubgraph(last.tree[f])

(* A refresh leaves what the next one can continue from, and continues     *)
(* from what it is left.                                                   *)
RefreshesContinue == PublishedSubgraphsRestore /\ RefreshHoldsCurrent

(***************************************************************************)
(* Discovery.                                                              *)
(***************************************************************************)

(* A source belongs to the nearest manifest that parses, a broken one      *)
(* nearer hides nothing, and the other sources listed before it change     *)
(* nothing (assign_packages_checked and candidate_paths, discover.rs).     *)
PackageIsNearest ==
  input.kind = "package" =>
    LET disk == input.given
        Position(name) == CHOOSE n \in DOMAIN ManifestNames : ManifestNames[n] = name
        Nearer(p, q) == \/ Len(p[1]) > Len(q[1])
                        \/ p[1] = q[1] /\ Position(p[2]) <= Position(q[2])
        Around(dir) == {p \in DOMAIN disk : disk[p] = "Parsed" /\ IsPrefix(p[1], dir)}
    IN  \A sources \in SourceLists :
          LET owners == AssignPackages(disk, sources)
          IN  \A n \in DOMAIN sources :
                IF owners[n] = <<>> THEN Around(sources[n]) = {}
                ELSE /\ owners[n][1] \in Around(sources[n])
                     /\ \A p \in Around(sources[n]) : Nearer(owners[n][1], p)

(* The sources kept are within every budget, and one is left out only when *)
(* it, or what was kept before it, is over a budget: a file left out uses  *)
(* up nothing (apply_metadata_budgets, budgets.rs).                        *)
AdmissionRespectsBudgets ==
  input.kind = "budget" =>
    \A limits \in LimitPool :
      LET listed == input.given
          answer == ApplyMetadataBudgets(listed, limits)
          kept == answer.retained
          IsSource(c) == c.language # ""
          bytes[n \in 0 .. Len(kept)] ==
            IF n = 0 THEN 0
            ELSE bytes[n - 1] + (IF IsSource(kept[n]) THEN kept[n].size ELSE 0)
          Before(c) == Max({0} \cup {n \in DOMAIN kept : kept[n].path < c.path})
          Omitted(c) == \E o \in answer.omitted : o[1] = c.path
      IN  /\ Cardinality({n \in DOMAIN kept : IsSource(kept[n])}) <= limits.max_files
          /\ bytes[Len(kept)] <= limits.max_total_bytes
          /\ \A n \in DOMAIN kept :
               /\ IsSource(kept[n]) => kept[n].size <= limits.max_file_bytes
               /\ \A m \in 1 .. n - 1 : kept[m].path < kept[n].path
          /\ \A c \in Range(listed) :
               /\ Omitted(c) = (c \notin Range(kept))
               /\ Omitted(c) =>
                    /\ IsSource(c)
                    /\ \/ c.size > limits.max_file_bytes
                       \/ Before(c) >= limits.max_files
                       \/ bytes[Before(c)] + c.size > limits.max_total_bytes

(* What a refresh takes in: the sources that the budgets admit, each with  *)
(* the package of its nearest manifest (budgets.rs and discover.rs).       *)
DiscoveryIsExact == PackageIsNearest /\ AdmissionRespectsBudgets
=============================================================================
