----------------------------- MODULE GraphIndex -----------------------------
(***************************************************************************)
(* The query index over one resolved graph and its maintenance by deltas   *)
(* (query/src/index/build.rs and update.rs).                               *)
(*                                                                         *)
(* Sorted bucket vectors are sets of pairs <<key, member>>; every order in *)
(* the source is a total order on identities, so a bucket has one order.   *)
(* `sound` turns FALSE where the source reports an index invariant error:  *)
(* a member inserted twice, or one that is missing when it is removed.     *)
(***************************************************************************)
EXTENDS Facts

Scip(id) == <<id.path, id.at>>

Without(f, key) == [k \in DOMAIN f \ {key} |-> f[k]]
With(f, key, value) == [k \in DOMAIN f \cup {key} |-> IF k = key THEN value ELSE f[k]]

(***************************************************************************)
(* from_scope_graph: duplicates are refused before an index exists.        *)
(***************************************************************************)
BuildRefuses(graph) ==
  \/ \E i, j \in DOMAIN graph.symbols :
       i # j /\ graph.symbols[i].id = graph.symbols[j].id
  \/ \E i, j \in DOMAIN graph.edges :
       i # j /\ EdgeKey(graph.edges[i]) = EdgeKey(graph.edges[j])

Build(graph, snapshot) ==
  LET symbols == Range(graph.symbols)
      edges == Range(graph.edges)
      defined == {s.id : s \in symbols}
      ends == {e.from : e \in edges} \cup {e.to : e \in edges}
      known == defined \cup ends
      Ends(id) == Cardinality({e \in edges : e.from = id})
                    + Cardinality({e \in edges : e.to = id})
  IN  [definitions |-> [id \in defined |-> CHOOSE s \in symbols : s.id = id],
       edges |-> [key \in {EdgeKey(e) : e \in edges} |->
                    CHOOSE e \in edges : EdgeKey(e) = key],
       known |-> known,
       refcounts |-> [id \in ends |-> Ends(id)],
       by_name |-> {<<s.name, s.id>> : s \in symbols},
       by_scip |-> {<<Scip(s.id), s.id>> : s \in symbols},
       by_file |-> {<<s.file, s.id>> : s \in symbols},
       ids_by_scip |-> {<<Scip(id), id>> : id \in known},
       outgoing |-> {<<e.from, EdgeKey(e)>> : e \in edges},
       incoming |-> {<<e.to, EdgeKey(e)>> : e \in edges},
       snapshot |-> snapshot, sound |-> TRUE]

(***************************************************************************)
(* The bookkeeping of one definition or edge.                              *)
(***************************************************************************)
EnsureKnown(ix, id) ==
  IF id \in ix.known THEN ix
  ELSE [ix EXCEPT !.known = @ \cup {id},
                  !.ids_by_scip = @ \cup {<<Scip(id), id>>},
                  !.sound = @ /\ <<Scip(id), id>> \notin ix.ids_by_scip]

RemoveKnownIfUndefined(ix, id) ==
  IF id \in DOMAIN ix.definitions THEN ix
  ELSE [ix EXCEPT !.known = @ \ {id},
                  !.ids_by_scip = @ \ {<<Scip(id), id>>},
                  !.sound = @ /\ id \in ix.known]

RemoveKnownIfUnreferenced(ix, id) ==
  IF id \in DOMAIN ix.definitions \/ id \in DOMAIN ix.refcounts THEN ix
  ELSE [ix EXCEPT !.known = @ \ {id},
                  !.ids_by_scip = @ \ {<<Scip(id), id>>},
                  !.sound = @ /\ id \in ix.known
                              /\ <<Scip(id), id>> \in ix.ids_by_scip]

RemoveSymbol(ix, id) ==
  LET name == <<ix.definitions[id].name, id>>
      scip == <<Scip(id), id>>
      file == <<ix.definitions[id].file, id>>
  IN  RemoveKnownIfUnreferenced(
        [ix EXCEPT !.definitions = Without(@, id),
                   !.by_name = @ \ {name}, !.by_scip = @ \ {scip},
                   !.by_file = @ \ {file},
                   !.sound = @ /\ name \in ix.by_name /\ scip \in ix.by_scip
                               /\ file \in ix.by_file], id)

UpsertSymbol(ix, symbol) ==
  LET name == <<symbol.name, symbol.id>>
      scip == <<Scip(symbol.id), symbol.id>>
      file == <<symbol.file, symbol.id>>
      bare == EnsureKnown(IF symbol.id \in DOMAIN ix.definitions
                          THEN RemoveSymbol(ix, symbol.id) ELSE ix, symbol.id)
  IN  [bare EXCEPT !.definitions = With(@, symbol.id, symbol),
                   !.by_name = @ \cup {name}, !.by_scip = @ \cup {scip},
                   !.by_file = @ \cup {file},
                   !.sound = @ /\ name \notin bare.by_name
                               /\ scip \notin bare.by_scip
                               /\ file \notin bare.by_file]

AddEndpoint(ix, id) ==
  LET count == IF id \in DOMAIN ix.refcounts THEN ix.refcounts[id] ELSE 0
  IN  EnsureKnown([ix EXCEPT !.refcounts = With(@, id, count + 1)], id)

RemoveEndpoint(ix, id) ==
  IF id \notin DOMAIN ix.refcounts THEN [ix EXCEPT !.sound = FALSE]
  ELSE IF ix.refcounts[id] > 1 THEN [ix EXCEPT !.refcounts[id] = @ - 1]
  ELSE RemoveKnownIfUnreferenced([ix EXCEPT !.refcounts = Without(@, id)], id)

UpsertEdge(ix, edge) ==
  LET key == EdgeKey(edge)
      ended == AddEndpoint(AddEndpoint(ix, edge.from), edge.to)
  IN  IF key \in DOMAIN ix.edges THEN [ix EXCEPT !.edges[key] = edge]
      ELSE [ended EXCEPT !.edges = With(@, key, edge),
                         !.outgoing = @ \cup {<<edge.from, key>>},
                         !.incoming = @ \cup {<<edge.to, key>>},
                         !.sound = @ /\ <<edge.from, key>> \notin ended.outgoing
                                     /\ <<edge.to, key>> \notin ended.incoming]

RemoveEdgeFromCaller(ix, key) ==
  LET out == <<key.from, key>>
      in == <<key.to, key>>
  IN  RemoveEndpoint([ix EXCEPT !.edges = Without(@, key),
                                !.outgoing = @ \ {out}, !.incoming = @ \ {in}], key.from)

RemoveEdge(ix, key) ==
  LET out == <<key.from, key>>
      in == <<key.to, key>>
      cut == [ix EXCEPT !.edges = Without(@, key),
                        !.outgoing = @ \ {out}, !.incoming = @ \ {in},
                        !.sound = @ /\ out \in ix.outgoing /\ in \in ix.incoming]
  IN  RemoveEndpoint(RemoveEndpoint(cut, key.from), key.to)

(***************************************************************************)
(* apply_scope_delta: checked as a whole, applied to a copy, swapped in.   *)
(***************************************************************************)
Distinct(seq) == \A i, j \in DOMAIN seq : seq[i] = seq[j] => i = j

DeltaFault(ix, delta) ==
  LET upserted == [i \in DOMAIN delta.upserted_symbols |-> delta.upserted_symbols[i].id]
      keys == [i \in DOMAIN delta.upserted_edges |-> EdgeKey(delta.upserted_edges[i])]
  IN  IF delta.base # ix.snapshot THEN "SnapshotMismatch"
      ELSE IF delta.snapshot = ix.snapshot THEN "DoesNotAdvance"
      ELSE IF ~Distinct(delta.removed_symbols) THEN "DuplicateRemovedSymbol"
      ELSE IF ~(Range(delta.removed_symbols) \subseteq DOMAIN ix.definitions)
      THEN "MissingRemovedSymbol"
      ELSE IF ~Distinct(upserted) THEN "DuplicateUpsertedSymbol"
      ELSE IF ~Distinct(delta.removed_edges) THEN "DuplicateRemovedEdge"
      ELSE IF ~(Range(delta.removed_edges) \subseteq DOMAIN ix.edges)
      THEN "MissingRemovedEdge"
      ELSE IF ~Distinct(keys) THEN "DuplicateUpsertedEdge"
      ELSE "None"

Replacement(ix, delta) ==
  LET fewer == FoldLeft(RemoveEdge, FoldLeft(RemoveSymbol, ix, delta.removed_symbols),
                        delta.removed_edges)
      more == FoldLeft(UpsertEdge, FoldLeft(UpsertSymbol, fewer, delta.upserted_symbols),
                       delta.upserted_edges)
  IN  [more EXCEPT !.snapshot = delta.snapshot]

(* A replacement that hit an index invariant error is dropped as well. *)
ApplyScopeDelta(ix, delta) ==
  LET fault == DeltaFault(ix, delta)
      replacement == Replacement(ix, delta)
  IN  IF fault # "None" THEN [verdict |-> fault, index |-> ix]
      ELSE IF ~replacement.sound THEN [verdict |-> "IndexInvariant", index |-> ix]
      ELSE [verdict |-> "Applied", index |-> replacement]
=============================================================================
