--------------------------- MODULE AlgorithmProofs ---------------------------
(***************************************************************************)
(* The pure algorithms, for inputs of any size: the union of the tiers     *)
(* (resolve/layered.rs) and what a refresh restores, resolves and persists *)
(* (cli/src/refresh/resolve.rs).                                           *)
(***************************************************************************)
EXTENDS Refresh, GraphIndexProofs

(***************************************************************************)
(* The union of the tiers.                                                 *)
(***************************************************************************)

LEMMA RankIsPlace ==
  ASSUME NEW c \in Range(Confidences)
  PROVE  Rank(c) \in 1 .. 4 /\ Confidences[Rank(c)] = c
<1>1. DOMAIN Confidences = 1 .. 4
  BY DEF Confidences
<1>2. PICK i \in DOMAIN Confidences : Confidences[i] = c
  BY DEF Range
<1>3. Rank(c) \in DOMAIN Confidences /\ Confidences[Rank(c)] = c
  BY <1>2 DEF Rank
<1>4. QED
  BY <1>1, <1>3

\* Among the edges for one fact there is one of the greatest confidence.
LEMMA BestIsGiven ==
  ASSUME NEW V, NEW edges \in Seq(V), \A e \in V : e.confidence \in Range(Confidences),
         NEW i \in DOMAIN edges
  PROVE  \E j \in DOMAIN edges : /\ BestForFact(edges, edges[j])
                                 /\ ResolutionKey(edges[j]) = ResolutionKey(edges[i])
                                 /\ Rank(edges[j].confidence) >= Rank(edges[i].confidence)
<1> DEFINE alike == {j \in DOMAIN edges : ResolutionKey(edges[j]) = ResolutionKey(edges[i])}
           ranks == {Rank(edges[j].confidence) : j \in alike}
<1>1. \A j \in DOMAIN edges : Rank(edges[j].confidence) \in 1 .. 4
  BY RankIsPlace
<1>2. ranks \in SUBSET (1 .. 4) /\ i \in alike
  BY <1>1
<1>3. Max(ranks) \in ranks /\ \A r \in ranks : r <= Max(ranks)
  <2>1. Rank(edges[i].confidence) \in ranks
    BY <1>2
  <2> HIDE DEF ranks
  <2>2. ranks # {} /\ 4 \in Nat
    BY <2>1
  <2>3. QED
    BY <1>2, <2>2, LargestOf
<1>4. PICK j \in alike : Rank(edges[j].confidence) = Max(ranks)
  BY <1>3
<1>5. \A k \in alike : Rank(edges[k].confidence) <= Rank(edges[j].confidence)
  BY <1>3, <1>4
<1>6. BestForFact(edges, edges[j])
  <2> SUFFICES ASSUME NEW other \in Range(edges),
                      ResolutionKey(other) = ResolutionKey(edges[j])
               PROVE  Rank(other.confidence) <= Rank(edges[j].confidence)
    BY DEF BestForFact
  <2>1. PICK k \in DOMAIN edges : edges[k] = other
    BY DEF Range
  <2>2. k \in alike
    BY <2>1
  <2>3. QED
    BY <1>5, <2>1, <2>2
<1>7. Rank(edges[j].confidence) >= Rank(edges[i].confidence)
  BY <1>1, <1>2, <1>5
<1>8. QED
  BY <1>6, <1>7

LEMMA SameEdgeSameFact ==
  ASSUME NEW d, NEW e, EdgeKey(d) = EdgeKey(e)
  PROVE  ResolutionKey(d) = ResolutionKey(e)
<1>1. /\ EdgeKey(d).from = d.from /\ EdgeKey(d).to = d.to
      /\ EdgeKey(d).role = d.role /\ EdgeKey(d).occ = d.occ
      /\ EdgeKey(e).from = e.from /\ EdgeKey(e).to = e.to
      /\ EdgeKey(e).role = e.role /\ EdgeKey(e).occ = e.occ
  BY DEF EdgeKey
<1>2. QED
  BY <1>1 DEF ResolutionKey

\* However many tiers there are, in whatever order and with whatever edges: their union
\* forgets no fact, invents none, gives each the greatest confidence any tier has for it,
\* and keeps no edge twice (merge_graphs, layered.rs).
THEOREM UnionKeepsTheBest ==
  ASSUME NEW V, \A e \in V : e.confidence \in Range(Confidences),
         NEW graphs, DOMAIN graphs = 1 .. Len(graphs), Len(graphs) \in Nat,
         \A i \in DOMAIN graphs : graphs[i].edges \in Seq(V)
  PROVE  IsUnion(MergeGraphs(graphs).edges, FlattenSeq([i \in DOMAIN graphs |-> graphs[i].edges]))
<1> DEFINE parts == [i \in DOMAIN graphs |-> graphs[i].edges]
           edges == FlattenSeq(parts)
           best == {i \in DOMAIN edges : BestForFact(edges, edges[i])}
           first == {i \in best : \A j \in best : j < i => EdgeKey(edges[j]) # EdgeKey(edges[i])}
           merged == EntriesAt(edges, first)
<1>1. parts \in Seq(Seq(V))
  OBVIOUS
<1>2. edges \in Seq(V)
  BY <1>1, RangeOfFlattened
<1>3. MergeGraphs(graphs).edges = merged
  BY DEF MergeGraphs
<1> HIDE DEF parts, edges
<1>4. first \in SUBSET (DOMAIN edges) /\ DOMAIN edges \subseteq Nat
  BY <1>2
<1> HIDE DEF first
<1>5. /\ Range(merged) = {edges[i] : i \in first}
      /\ \A p, q \in DOMAIN merged : p < q =>
           \E i, j \in first : i < j /\ merged[p] = edges[i] /\ merged[q] = edges[j]
  BY <1>2, <1>4, EntriesChosen
<1>6. merged \in Seq(V) /\ DOMAIN merged \subseteq Nat
  BY <1>2, <1>4, EntriesChosen
<1> HIDE DEF merged
<1>7. ASSUME NEW e \in Range(edges) PROVE AsGood(e, merged)
  <2>1. PICK i \in DOMAIN edges : edges[i] = e
    BY DEF Range
  <2>2. PICK j \in DOMAIN edges :
          /\ BestForFact(edges, edges[j])
          /\ ResolutionKey(edges[j]) = ResolutionKey(edges[i])
          /\ Rank(edges[j].confidence) >= Rank(edges[i].confidence)
    BY <1>2, BestIsGiven
  <2> DEFINE twins == {k \in best : EdgeKey(edges[k]) = EdgeKey(edges[j])}
  <2>3. twins \in SUBSET Nat /\ j \in twins
    BY <1>4, <2>2
  <2>4. PICK k \in twins : \A m \in twins : k <= m
    BY <2>3, LeastNumber
  <2>5. k \in first
    BY <1>4, <2>4 DEF first
  <2>6. ResolutionKey(edges[k]) = ResolutionKey(edges[j])
    BY <2>4, SameEdgeSameFact
  <2>7. Rank(edges[j].confidence) <= Rank(edges[k].confidence)
    <3>1. BestForFact(edges, edges[k]) /\ edges[j] \in Range(edges)
      BY <2>4 DEF Range
    <3>2. QED
      BY <2>6, <3>1 DEF BestForFact
  <2>8. edges[k] \in Range(merged)
    BY <1>5, <2>5
  <2>9. /\ Rank(edges[i].confidence) \in Nat /\ Rank(edges[j].confidence) \in Nat
        /\ Rank(edges[k].confidence) \in Nat
    <3>1. \A m \in DOMAIN edges : Rank(edges[m].confidence) \in Nat
      BY <1>2, RankIsPlace
    <3>2. k \in DOMAIN edges
      BY <1>4, <2>5
    <3>3. QED
      BY <2>1, <2>2, <3>1, <3>2
  <2>10. Rank(edges[k].confidence) >= Rank(edges[i].confidence)
    BY <2>2, <2>7, <2>9
  <2>11. QED
    BY <2>1, <2>2, <2>6, <2>8, <2>10 DEF AsGood
<1>8. Range(merged) \subseteq Range(edges)
  BY <1>4, <1>5 DEF Range
<1>9. ASSUME NEW p \in DOMAIN merged, NEW q \in DOMAIN merged,
             ResolutionKey(merged[p]) = ResolutionKey(merged[q])
      PROVE  /\ merged[p].confidence = merged[q].confidence
             /\ EdgeKey(merged[p]) = EdgeKey(merged[q]) => p = q
  <2>1. PICK i \in first, j \in first : merged[p] = edges[i] /\ merged[q] = edges[j]
    <3>1. merged[p] \in Range(merged) /\ merged[q] \in Range(merged)
      BY DEF Range
    <3>2. QED
      BY <1>5, <3>1
  <2>2. merged[p].confidence = merged[q].confidence
    <3>1. /\ BestForFact(edges, edges[i]) /\ BestForFact(edges, edges[j])
          /\ edges[i] \in Range(edges) /\ edges[j] \in Range(edges)
          /\ edges[i] \in V /\ edges[j] \in V
      BY <1>2, <1>4 DEF first, Range
    <3>2. Rank(edges[i].confidence) <= Rank(edges[j].confidence)
      BY <1>9, <2>1, <3>1 DEF BestForFact
    <3>3. Rank(edges[j].confidence) <= Rank(edges[i].confidence)
      BY <1>9, <2>1, <3>1 DEF BestForFact
    <3>4. /\ Rank(edges[i].confidence) \in 1 .. 4 /\ Rank(edges[j].confidence) \in 1 .. 4
          /\ Confidences[Rank(edges[i].confidence)] = edges[i].confidence
          /\ Confidences[Rank(edges[j].confidence)] = edges[j].confidence
      BY <3>1, RankIsPlace
    <3>5. Rank(edges[i].confidence) = Rank(edges[j].confidence)
      BY <3>2, <3>3, <3>4
    <3>6. QED
      BY <2>1, <3>4, <3>5
  <2>3. ASSUME NEW a \in DOMAIN merged, NEW b \in DOMAIN merged, a < b
        PROVE  EdgeKey(merged[a]) # EdgeKey(merged[b])
    <3>1. PICK x \in first, y \in first :
            x < y /\ merged[a] = edges[x] /\ merged[b] = edges[y]
      BY <1>5, <2>3
    <3>2. QED
      BY <3>1 DEF first
  <2>4. EdgeKey(merged[p]) = EdgeKey(merged[q]) => p = q
    BY <1>6, <2>3
  <2>5. QED
    BY <2>2, <2>4
<1>10. IsUnion(merged, edges)
  BY <1>7, <1>8, <1>9 DEF IsUnion
<1>11. QED
  BY <1>3, <1>10 DEF edges, parts

(***************************************************************************)
(* What resolving one file on its own yields.                              *)
(***************************************************************************)

\* The enclosing symbol is one of the list, or there is none.
LEMMA EnclosingIsPlace ==
  ASSUME NEW V, NEW symbols \in Seq(V), \A s \in Range(symbols) : IsMeasured(s), NEW byte
  PROVE  EnclosingSymbolIndex(symbols, byte) \in 0 .. Len(symbols)
<1> DEFINE around == {i \in DOMAIN symbols : Covers(symbols[i].span, byte)}
           Size(i) == SpanLen(symbols[i].span)
           Smaller(i, j) == Size(i) < Size(j) \/ (Size(i) = Size(j) /\ i <= j)
           sizes == {Size(i) : i \in around}
<1>1. around \subseteq 1 .. Len(symbols)
  OBVIOUS
<1>2. CASE around = {}
  BY <1>2 DEF EnclosingSymbolIndex
<1>3. CASE around # {}
  <2>1. \A i \in around : Size(i) \in Nat
    BY DEF IsMeasured, Range, SpanLen
  <2>2. PICK k \in around : TRUE
    BY <1>3
  <2>3. sizes \in SUBSET Nat /\ Size(k) \in sizes
    BY <2>1, <2>2
  <2>4. PICK least \in sizes : \A size \in sizes : least <= size
    <3> HIDE DEF sizes
    <3>1. QED
      BY <2>3, LeastNumber
  <2> DEFINE tied == {i \in around : Size(i) = least}
  <2>5. PICK first \in tied : \A i \in tied : first <= i
    <3>1. tied \in SUBSET Nat /\ tied # {}
      BY <1>1, <2>4
    <3> HIDE DEF tied
    <3>2. QED
      BY <3>1, LeastNumber
  <2>6. \A j \in around : Size(j) \in sizes /\ least \in Nat
    BY <2>3, <2>4
  <2>7. \A j \in around : Smaller(first, j)
    <3> SUFFICES ASSUME NEW j \in around PROVE Smaller(first, j)
      OBVIOUS
    <3>1. Size(first) = least /\ least <= Size(j) /\ Size(j) \in Nat /\ least \in Nat
      BY <2>1, <2>4, <2>5, <2>6
    <3>2. Size(j) = least => first <= j
      BY <2>5
    <3> HIDE DEF Size
    <3>3. QED
      BY <3>1, <3>2
  <2>8. first \in around
    BY <2>5
  <2>9. EnclosingSymbolIndex(symbols, byte)
          = CHOOSE i \in around : \A j \in around : Smaller(i, j)
    BY <1>3 DEF EnclosingSymbolIndex
  <2> HIDE DEF around, Smaller
  <2>10. (CHOOSE i \in around : \A j \in around : Smaller(i, j)) \in around
    BY <2>7, <2>8
  <2>11. QED
    BY <1>1, <2>9, <2>10
<1>4. QED
  BY <1>2, <1>3

\* The binding that wins in a scope is one of the file's.
LEMMA WinnerIsBinding ==
  ASSUME NEW V, NEW bindings \in Seq(V), \A b \in Range(bindings) : b.intro \in Nat,
         NEW scope, NEW name, NEW byte
  PROVE  WinnerIn(scope, name, byte, bindings) \in Range(bindings) \cup {NoBinding}
<1> DEFINE seen == {i \in DOMAIN bindings : /\ bindings[i].scope = scope
                                            /\ bindings[i].name = name
                                            /\ IsVisible(bindings[i], byte)}
           Later(i, j) == \/ bindings[i].intro > bindings[j].intro
                          \/ (bindings[i].intro = bindings[j].intro /\ i >= j)
           Wins(i, m) == i \in seen /\ i <= m /\ \A j \in seen : j <= m => Later(i, j)
           T == {m \in 0 .. Len(bindings) :
                   (\E i \in seen : i <= m) => \E i \in seen : Wins(i, m)}
<1>1. seen \subseteq 1 .. Len(bindings) /\ Len(bindings) \in Nat
  OBVIOUS
<1>2. \A i \in seen : bindings[i].intro \in Nat
  BY DEF Range
<1> HIDE DEF seen
<1>3. 0 \in T
  BY <1>1
<1>4. ASSUME NEW m \in 1 .. Len(bindings), m - 1 \in T PROVE m \in T
  <2>1. CASE m \notin seen
    <3>1. \A i \in seen : i <= m <=> i <= m - 1
      BY <1>1, <2>1
    <3>2. QED
      BY <1>4, <3>1
  <2>2. CASE m \in seen /\ ~ \E i \in seen : i <= m - 1
    <3>1. \A i \in seen : i <= m => i = m
      BY <1>1, <2>2
    <3>2. Wins(m, m)
      BY <1>2, <2>2, <3>1
    <3>3. QED
      BY <2>2, <3>2
  <2>3. CASE m \in seen /\ \E i \in seen : i <= m - 1
    <3>1. PICK i \in seen : Wins(i, m - 1)
      BY <1>4, <2>3
    <3>2. \A j \in seen : j <= m => j = m \/ j <= m - 1
      BY <1>1
    <3>3. i \in Nat /\ bindings[i].intro \in Nat /\ bindings[m].intro \in Nat
      BY <1>1, <1>2, <2>3
    <3>4. CASE bindings[i].intro > bindings[m].intro
      <4>1. Wins(i, m)
        BY <3>1, <3>2, <3>3, <3>4
      <4>2. QED
        BY <4>1
    <3>5. CASE bindings[i].intro <= bindings[m].intro
      <4>1. ASSUME NEW j \in seen, j <= m - 1 PROVE Later(m, j)
        <5>1. Later(i, j) /\ bindings[j].intro \in Nat /\ j \in Nat
          BY <1>1, <1>2, <3>1, <4>1
        <5>2. QED
          BY <3>3, <3>5, <4>1, <5>1
      <4>2. Wins(m, m)
        BY <2>3, <3>2, <3>3, <4>1
      <4>3. QED
        BY <2>3, <4>2
    <3>6. \/ bindings[i].intro > bindings[m].intro
          \/ bindings[i].intro <= bindings[m].intro
      BY <3>3
    <3>7. QED
      BY <3>4, <3>5, <3>6, Zenon
  <2>4. QED
    BY <2>1, <2>2, <2>3
<1>5. Len(bindings) \in T
  <2> HIDE DEF T
  <2>1. QED
    BY <1>1, <1>3, <1>4, InductionUpTo
<1> DEFINE winner == CHOOSE k \in seen : \A j \in seen : Later(k, j)
<1>6. WinnerIn(scope, name, byte, bindings)
        = IF seen = {} THEN NoBinding ELSE bindings[winner]
  BY DEF WinnerIn, seen
<1>7. CASE seen # {}
  <2>1. \E i \in seen : \A j \in seen : Later(i, j)
    <3>1. \A i \in seen : i <= Len(bindings)
      BY <1>1
    <3> HIDE DEF Later
    <3>2. PICK i \in seen : Wins(i, Len(bindings))
      BY <1>5, <1>7, <3>1
    <3>3. QED
      BY <3>1, <3>2
  <2> HIDE DEF Later
  <2>2. winner \in seen
    BY <2>1
  <2> HIDE DEF winner
  <2>3. bindings[winner] \in Range(bindings)
    BY <1>1, <2>2 DEF Range
  <2>4. QED
    BY <1>6, <1>7, <2>3
<1> HIDE DEF winner
<1>8. QED
  BY <1>6, <1>7

\* The walk outwards comes to a binding of the file or to none.
LEMMA WalkIsBinding ==
  ASSUME NEW V, NEW bindings \in Seq(V), \A b \in Range(bindings) : b.intro \in Nat,
         NEW scopes, NEW start, NEW name, NEW byte
  PROVE  ScopeWalk(name, byte, start, scopes, bindings) \in Range(bindings) \cup {NoBinding}
<1>1. \A scope : WinnerIn(scope, name, byte, bindings) \in Range(bindings) \cup {NoBinding}
  BY WinnerIsBinding
<1>2. QED
  BY <1>1 DEF ScopeWalk

\* What a reference comes to names the file it stands in, one of its symbols as the
\* source and, as the target of an edge, a local of that file or one of its symbols.
IsOwn(facts, outcome) ==
  LET own == {s.id : s \in Range(facts.symbols)}
      value == outcome.value
  IN  /\ outcome.kind \in {"edge", "pending"} => value.occ.file = facts.file /\ value.from \in own
      /\ outcome.kind = "edge" =>
           IF value.to.file # "" THEN value.to.file = facts.file ELSE value.to \in own

LEMMA SkippedIsOwn == ASSUME NEW facts PROVE IsOwn(facts, Skip)
BY DEF IsOwn, Skip

LEMMA DeferredIsOwn ==
  ASSUME NEW facts, NEW r, NEW from \in {s.id : s \in Range(facts.symbols)},
         NEW name, NEW segs, NEW confidence, NEW qualified, NEW type_only
  PROVE  IsOwn(facts, Defer(facts, r, from, name, segs, confidence, qualified, type_only))
<1> DEFINE outcome == Defer(facts, r, from, name, segs, confidence, qualified, type_only)
<1>1. /\ outcome.kind = "pending"
      /\ outcome.value.occ = Occurrence(facts, r)
      /\ outcome.value.from = from
  BY DEF Defer
<1>2. Occurrence(facts, r).file = facts.file
  BY DEF Occurrence
<1> HIDE DEF outcome
<1>3. IsOwn(facts, outcome)
  BY <1>1, <1>2 DEF IsOwn
<1>4. QED
  BY <1>3 DEF outcome

LEMMA LinkedIsOwn ==
  ASSUME NEW facts, NEW r, NEW from \in {s.id : s \in Range(facts.symbols)}, NEW confidence,
         NEW to, IF to.file # "" THEN to.file = facts.file
                 ELSE to \in {s.id : s \in Range(facts.symbols)}
  PROVE  IsOwn(facts, Link(facts, r, from, to, confidence))
<1> DEFINE outcome == Link(facts, r, from, to, confidence)
<1>1. /\ outcome.kind = "edge"
      /\ outcome.value.occ = Occurrence(facts, r)
      /\ outcome.value.from = from
      /\ outcome.value.to = to
  BY DEF Link, Edge
<1>2. Occurrence(facts, r).file = facts.file
  BY DEF Occurrence
<1> HIDE DEF outcome
<1>3. IsOwn(facts, outcome)
  BY <1>1, <1>2 DEF IsOwn
<1>4. QED
  BY <1>3 DEF outcome

LEMMA ListOver ==
  ASSUME NEW V, NEW list \in Seq(V), NEW other, other = [i \in DOMAIN list |-> other[i]]
  PROVE  other \in Seq(Range(other))
BY DEF Range

LEMMA EntryInRange ==
  ASSUME NEW V, NEW list \in Seq(V), NEW place \in 0 .. Len(list), place # 0
  PROVE  list[place] \in Range(list)
BY DEF Range

LEMMA OutcomeIsOwn ==
  ASSUME NEW facts, facts.file # "", IsTyped(facts), CurrentFacts(facts),
         NEW r \in Range(facts.references)
  PROVE  IsOwn(facts, Outcome(facts, r))
<1> DEFINE own == {s.id : s \in Range(facts.symbols)}
           at == EnclosingSymbolIndex(facts.symbols, r.byte)
           from == facts.symbols[at].id
           binding == ScopeWalk(r.name, r.byte, r.scope, facts.scopes, facts.bindings)
<1>1. at \in 0 .. Len(facts.symbols)
  BY EnclosingIsPlace DEF IsTyped
<1>2. binding \in Range(facts.bindings) \cup {NoBinding}
  BY WalkIsBinding DEF IsTyped
<1>3. binding # NoBinding /\ binding.kind = "Definition" => binding.def \in own
  <2>1. \A b \in Range(facts.bindings) : b.kind = "Definition" => b.def \in own
    BY DEF CurrentFacts
  <2> HIDE DEF binding, own
  <2>2. QED
    BY <1>2, <2>1
<1>4. \A id \in own : id.file \in {"", facts.file}
  BY DEF CurrentFacts, OwnedSymbols
<1>5. Outcome(facts, r) =
        IF at = 0 THEN Skip
        ELSE IF r.role = "ModuleRef" \/ (IsAnnotation(r) /\ r.qualifier = <<>>)
        THEN Defer(facts, r, from, r.name, <<>>, "Scoped", FALSE, IsAnnotation(r))
        ELSE IF r.qualifier # <<>> THEN Qualified(facts, r, from)
        ELSE IF r.scope = 0 THEN Skip
        ELSE IF binding = NoBinding THEN Unbound(facts, r, from)
        ELSE Bound(facts, r, from, binding)
  BY DEF Outcome
<1> HIDE DEF binding, at
<1>6. CASE at = 0
  BY <1>5, <1>6, SkippedIsOwn
<1>7. CASE at # 0
  <2>1. from \in own
    <3>1. facts.symbols \in Seq(Range(facts.symbols))
      BY DEF IsTyped
    <3>2. facts.symbols[at] \in Range(facts.symbols)
      BY <1>1, <1>7, <3>1, EntryInRange
    <3>3. QED
      BY <3>2
  <2> HIDE DEF from
  <2>2. IsOwn(facts, Qualified(facts, r, from))
    BY <2>1, SkippedIsOwn, DeferredIsOwn DEF Qualified
  <2>3. IsOwn(facts, Unbound(facts, r, from))
    BY <2>1, SkippedIsOwn, DeferredIsOwn DEF Unbound
  <2>4. ASSUME binding # NoBinding PROVE IsOwn(facts, Bound(facts, r, from, binding))
    <3> DEFINE here == LocalId(facts.file, binding.scope, binding.name, binding.intro)
    <3>1. here.file = facts.file
      BY DEF LocalId
    <3>2. \A confidence : IsOwn(facts, Link(facts, r, from, here, confidence))
      <4> HIDE DEF here
      <4>1. QED
        BY <2>1, <3>1, LinkedIsOwn
    <3>3. binding.kind = "Definition" =>
            \A confidence : IsOwn(facts, Link(facts, r, from, binding.def, confidence))
      BY <1>3, <1>4, <2>1, <2>4, LinkedIsOwn
    <3>4. \A name, segs, confidence, qualified, type_only :
            IsOwn(facts, Defer(facts, r, from, name, segs, confidence, qualified, type_only))
      BY <2>1, DeferredIsOwn
    <3>5. QED
      BY <3>2, <3>3, <3>4, SkippedIsOwn DEF Bound
  <2>5. IsOwn(facts, Defer(facts, r, from, r.name, <<>>, "Scoped", FALSE, IsAnnotation(r)))
    BY <2>1, DeferredIsOwn
  <2>6. QED
    BY <1>5, <1>7, <2>2, <2>3, <2>4, <2>5, SkippedIsOwn
<1>8. QED
  BY <1>6, <1>7

\* A subgraph of such outcomes is one that a refresh restores.
LEMMA OwnIsRestorable ==
  ASSUME NEW facts, NEW sub,
         sub.schema = SchemaVersion, sub.owner = facts.file, sub.symbols = facts.symbols,
         \A s \in Range(facts.symbols) : s.file = facts.file,
         \A e \in Range(sub.intra) :
           \E outcome : IsOwn(facts, outcome) /\ outcome.kind = "edge" /\ outcome.value = e,
         \A p \in Range(sub.pending) :
           \E outcome : IsOwn(facts, outcome) /\ outcome.kind = "pending" /\ outcome.value = p
  PROVE  Restorable(facts.file, sub)
<1> DEFINE own == {s.id : s \in Range(facts.symbols)}
<1>1. ASSUME NEW e \in Range(sub.intra)
      PROVE  /\ e.occ.file = facts.file /\ e.from \in own
             /\ IF e.to.file # "" THEN e.to.file = facts.file ELSE e.to \in own
  <2>1. PICK outcome : IsOwn(facts, outcome) /\ outcome.kind = "edge" /\ outcome.value = e
    OBVIOUS
  <2>2. QED
    BY <2>1 DEF IsOwn
<1>2. ASSUME NEW p \in Range(sub.pending) PROVE p.occ.file = facts.file /\ p.from \in own
  <2>1. PICK outcome : IsOwn(facts, outcome) /\ outcome.kind = "pending" /\ outcome.value = p
    OBVIOUS
  <2>2. QED
    BY <2>1 DEF IsOwn
<1>3. QED
  BY <1>1, <1>2 DEF Restorable

\* What a refresh resolves, the next one restores.
LEMMA BuiltIsRestorable ==
  ASSUME NEW file, NEW facts, IsAccepted(file, facts)
  PROVE  Restorable(file, BuildSubgraph(facts))
<1> DEFINE references == facts.references
           outcomes == [i \in DOMAIN references |-> Outcome(facts, references[i])]
           At(kind) == {i \in DOMAIN outcomes : outcomes[i].kind = kind}
           Kept(kind) == EntriesAt(outcomes, At(kind))
           Of(kind) == [p \in DOMAIN Kept(kind) |-> Kept(kind)[p].value]
           sub == BuildSubgraph(facts)
           Comes(kind, value) ==
             \E outcome : IsOwn(facts, outcome) /\ outcome.kind = kind /\ outcome.value = value
<1>1. references \in Seq(Range(references))
  BY DEF IsAccepted, IsTyped
<1>2. /\ sub.schema = SchemaVersion /\ sub.owner = facts.file /\ sub.symbols = facts.symbols
      /\ sub.intra = Of("edge") /\ sub.pending = Of("pending")
  BY DEF BuildSubgraph
<1>3. \A s \in Range(facts.symbols) : s.file = facts.file
  BY DEF IsAccepted, CurrentFacts, OwnedSymbols
<1>4. \A r \in Range(references) : IsOwn(facts, Outcome(facts, r))
  BY OutcomeIsOwn DEF IsAccepted
<1> HIDE DEF references, sub
<1>5. \A i \in DOMAIN references : references[i] \in Range(references)
  BY DEF Range
<1>6. \A i \in DOMAIN outcomes : IsOwn(facts, outcomes[i])
  BY <1>4, <1>5
<1>7. PICK V : outcomes \in Seq(V)
  <2>1. outcomes = [i \in DOMAIN references |-> outcomes[i]]
    OBVIOUS
  <2> HIDE DEF outcomes
  <2>2. QED
    BY <1>1, <2>1, ListOver
<1> HIDE DEF outcomes, Of
<1>8. ASSUME NEW kind, NEW value \in Range(Of(kind)) PROVE Comes(kind, value)
  <2> DEFINE at == At(kind)
             kept == Kept(kind)
             values == Of(kind)
  <2>1. at \in SUBSET (DOMAIN outcomes) /\ \A i \in at : outcomes[i].kind = kind
    OBVIOUS
  <2>2. /\ value \in Range(values) /\ values = [p \in DOMAIN kept |-> kept[p].value]
        /\ kept = EntriesAt(outcomes, at)
    BY <1>8 DEF Of
  <2> HIDE DEF kept, at, values
  <2>3. PICK p \in DOMAIN kept : kept[p].value = value
    BY <2>2 DEF Range
  <2>4. Range(EntriesAt(outcomes, at)) = {outcomes[i] : i \in at}
    BY <1>7, <2>1, EntriesChosen
  <2>5. kept[p] \in Range(kept)
    BY <2>3 DEF Range
  <2>6. PICK i \in at : outcomes[i] = kept[p]
    BY <2>2, <2>4, <2>5
  <2>7. IsOwn(facts, outcomes[i]) /\ outcomes[i].kind = kind /\ outcomes[i].value = value
    BY <1>6, <2>1, <2>3, <2>6
  <2>8. QED
    BY <2>7
<1>9. /\ \A e \in Range(sub.intra) : Comes("edge", e)
      /\ \A p \in Range(sub.pending) : Comes("pending", p)
  <2> HIDE DEF Comes
  <2>1. QED
    BY <1>2, <1>8
<1>10. Restorable(facts.file, sub)
  BY <1>2, <1>3, <1>9, OwnIsRestorable
<1>11. facts.file = file
  BY DEF IsAccepted
<1>12. QED
  BY <1>10, <1>11 DEF sub

LEMMA ChosenFactsAreTyped ==
  ASSUME NEW keys \in SUBSET (DOMAIN FactPool)
  PROVE  FactsOf(keys).file = "one" /\ IsTyped(FactsOf(keys))
<1> DEFINE At(part) == {n \in keys : FactPool[n][1] = part}
           Own(part) == EntriesAt(FactPool, At(part))
           Of(part) == [n \in DOMAIN Own(part) |-> Own(part)[n][2]]
           facts == FactsOf(keys)
<1>1. /\ facts.file = "one" /\ facts.symbols = Of("symbol")
      /\ facts.references = Of("reference") /\ facts.bindings = Of("binding")
      /\ facts.exports = Of("export")
  BY DEF FactsOf
<1> HIDE DEF facts
<1>2. PICK V : FactPool \in Seq(V)
  BY FactAssumption
<1>3. ASSUME NEW part
      PROVE  /\ Of(part) \in Seq(Range(Of(part)))
             /\ \A value \in Range(Of(part)) :
                  \E fact \in Range(FactPool) : fact[1] = part /\ fact[2] = value
  <2> DEFINE at == At(part)
             own == Own(part)
             values == Of(part)
  <2>1. at \in SUBSET (DOMAIN FactPool) /\ \A n \in at : FactPool[n][1] = part
    OBVIOUS
  <2>2. own = EntriesAt(FactPool, at) /\ values = [n \in DOMAIN own |-> own[n][2]]
    OBVIOUS
  <2> HIDE DEF own, at
  <2>3. /\ EntriesAt(FactPool, at) \in Seq(V)
        /\ Range(EntriesAt(FactPool, at)) = {FactPool[n] : n \in at}
    BY <1>2, <2>1, EntriesChosen
  <2>4. values = [n \in DOMAIN own |-> values[n]] /\ \A n \in DOMAIN own : values[n] = own[n][2]
    BY <2>2
  <2>5. values \in Seq(Range(values))
    <3>1. own \in Seq(V)
      BY <2>2, <2>3
    <3> HIDE DEF values
    <3>2. QED
      BY <2>4, <3>1, ListOver
  <2> HIDE DEF values
  <2>6. ASSUME NEW value \in Range(values)
        PROVE  \E fact \in Range(FactPool) : fact[1] = part /\ fact[2] = value
    <3>1. DOMAIN values = DOMAIN own
      BY <2>4
    <3>2. PICK n \in DOMAIN own : values[n] = value
      BY <3>1 DEF Range
    <3>3. own[n] \in Range(own)
      BY <3>2 DEF Range
    <3>4. PICK m \in at : FactPool[m] = own[n]
      BY <2>2, <2>3, <3>3
    <3>5. FactPool[m] \in Range(FactPool)
      BY <2>1 DEF Range
    <3>6. FactPool[m][1] = part /\ FactPool[m][2] = value
      BY <2>1, <2>4, <3>2, <3>4
    <3>7. QED
      BY <3>5, <3>6
  <2>7. QED
    BY <2>5, <2>6 DEF values
<1> HIDE DEF Of
<1>4. \A s \in Range(Of("symbol")) : IsMeasured(s)
  BY <1>3, FactAssumption
<1>5. \A b \in Range(Of("binding")) : b.intro \in Nat
  BY <1>3, FactAssumption
<1>6. IsTyped(facts)
  BY <1>1, <1>3, <1>4, <1>5 DEF IsTyped
<1>7. QED
  BY <1>1, <1>6 DEF facts

(***************************************************************************)
(* One refresh after the other.                                            *)
(***************************************************************************)
Built(tree) == [f \in DOMAIN tree |-> BuildSubgraph(tree[f])]

\* A persisted unit is missing, is what was resolved, or is that of another schema.
Units(facts) ==
  {<<>>, <<BuildSubgraph(facts)>>, <<[BuildSubgraph(facts) EXCEPT !.schema = 0]>>}

IsSnapshot(tree, snapshot) ==
  /\ tree \in Trees
  /\ snapshot = <<snapshot[1]>>
  /\ snapshot[1] = [f \in DOMAIN tree |-> [facts |-> tree[f],
                                           subgraph |-> snapshot[1][f].subgraph]]
  /\ \A f \in DOMAIN tree : snapshot[1][f].subgraph \in Units(tree[f])

\* What a chain of refreshes keeps true between two of them.
ChainInv ==
  /\ input.kind = "facts" => input.given \in SUBSET (DOMAIN FactPool)
  /\ input.kind = "refresh" =>
       LET last == input.given
       IN  /\ last = [snapshot |-> last.snapshot, tree |-> last.tree, held |-> last.held,
                      outcome |-> last.outcome, damaged |-> last.damaged]
           /\ last.outcome \in {"Fresh", "Incremental", "CacheError"}
           /\ (last.outcome = "CacheError") = last.damaged
           /\ last.snapshot # <<>> =>
                last.held = DOMAIN last.tree /\ IsSnapshot(last.tree, last.snapshot)

LEMMA UnitRestores ==
  ASSUME NEW file, NEW facts, IsAccepted(file, facts), NEW unit \in Units(facts), unit # <<>>
  PROVE  /\ unit = <<unit[1]>>
         /\ [unit[1] EXCEPT !.schema = SchemaVersion] = BuildSubgraph(facts)
         /\ Restorable(file, unit[1]) <=> unit[1].schema = SchemaVersion
         /\ unit[1].schema = SchemaVersion => unit[1] = BuildSubgraph(facts)
<1> DEFINE sub == BuildSubgraph(facts)
<1>1. \E symbols, intra, pending, reexports :
         sub = [schema |-> SchemaVersion, owner |-> facts.file, symbols |-> symbols,
                intra |-> intra, pending |-> pending, reexports |-> reexports]
  BY Zenon DEF BuildSubgraph
<1>2. Restorable(file, sub)
  BY BuiltIsRestorable
<1> HIDE DEF sub
<1>3. sub = [sub EXCEPT !.schema = SchemaVersion] /\ sub.schema = SchemaVersion
  BY <1>1
<1>4. /\ [sub EXCEPT !.schema = 0].schema # SchemaVersion
      /\ [[sub EXCEPT !.schema = 0] EXCEPT !.schema = SchemaVersion] = sub
  <2> DEFINE other == [sub EXCEPT !.schema = 0]
  <2>1. /\ other.schema = 0
        /\ [other EXCEPT !.schema = SchemaVersion] = [sub EXCEPT !.schema = SchemaVersion]
    BY <1>1
  <2>2. QED
    BY <1>3, <2>1 DEF SchemaVersion
<1>5. \A other : Restorable(file, other) => other.schema = SchemaVersion
  BY DEF Restorable
<1>6. unit = <<sub>> \/ unit = <<[sub EXCEPT !.schema = 0]>>
  BY DEF Units, sub
<1>7. /\ unit = <<unit[1]>>
      /\ [unit[1] EXCEPT !.schema = SchemaVersion] = sub
      /\ Restorable(file, unit[1]) <=> unit[1].schema = SchemaVersion
      /\ unit[1].schema = SchemaVersion => unit[1] = sub
  BY <1>2, <1>3, <1>4, <1>5, <1>6
<1>8. QED
  BY <1>7 DEF sub

LEMMA ResolvedFresh ==
  ASSUME NEW tree \in Trees, NEW changed, NEW deleted
  PROVE  ResolveScope(<<>>, tree, changed, deleted) = [outcome |-> "Fresh", held |-> Built(tree)]
<1>1. \A f \in DOMAIN tree : CurrentFacts(tree[f])
  BY TreeAssumption DEF IsAccepted
<1>2. Route(<<>>, tree, changed, deleted) = "Fresh"
  BY <1>1 DEF Route
<1>3. Held("Fresh", <<>>, tree, changed, deleted) = Built(tree)
  BY DEF Held, Built
<1>4. DOMAIN tree \subseteq DOMAIN Built(tree)
  BY DEF Built
<1>5. QED
  BY <1>2, <1>3, <1>4 DEF ResolveScope, Given

LEMMA SnapshotUnits ==
  ASSUME NEW old, NEW snapshot, IsSnapshot(old, snapshot)
  PROVE  /\ snapshot # <<>> /\ DOMAIN snapshot[1] = DOMAIN old
         /\ \A f \in DOMAIN old :
              /\ snapshot[1][f].facts = old[f] /\ IsAccepted(f, old[f])
              /\ snapshot[1][f].subgraph \in Units(old[f])
         /\ IsDamaged(snapshot) <=>
              \E f \in DOMAIN old : /\ snapshot[1][f].subgraph # <<>>
                                    /\ snapshot[1][f].subgraph[1].schema # SchemaVersion
<1> DEFINE units == snapshot[1]
<1>1. /\ old \in Trees /\ snapshot = <<units>>
      /\ units = [f \in DOMAIN old |-> [facts |-> old[f], subgraph |-> units[f].subgraph]]
      /\ \A f \in DOMAIN old : units[f].subgraph \in Units(old[f])
  BY DEF IsSnapshot
<1> HIDE DEF units
<1>2. snapshot # <<>> /\ DOMAIN units = DOMAIN old /\ \A f \in DOMAIN old : units[f].facts = old[f]
  BY <1>1
<1>3. \A f \in DOMAIN old : IsAccepted(f, old[f])
  BY <1>1, TreeAssumption
<1>4. ASSUME NEW f \in DOMAIN old
      PROVE  (\E sub \in Range(units[f].subgraph) : sub.schema # SchemaVersion)
               <=> units[f].subgraph # <<>> /\ units[f].subgraph[1].schema # SchemaVersion
  <2> DEFINE unit == units[f].subgraph
  <2>1. unit \in Units(old[f])
    BY <1>1
  <2>2. unit = <<>> \/ unit = <<unit[1]>>
    BY <1>3, <2>1, UnitRestores
  <2> HIDE DEF unit
  <2>3. Range(unit) = IF unit = <<>> THEN {} ELSE {unit[1]}
    <3>1. CASE unit = <<>>
      BY <3>1 DEF Range
    <3>2. CASE unit # <<>>
      <4>1. DOMAIN unit = {1}
        BY <2>2, <3>2
      <4>2. QED
        BY <3>2, <4>1 DEF Range
    <3>3. QED
      BY <3>1, <3>2
  <2>4. (\E sub \in Range(unit) : sub.schema # SchemaVersion)
          <=> unit # <<>> /\ unit[1].schema # SchemaVersion
    BY <2>3
  <2>5. QED
    BY <2>4 DEF unit
<1>5. IsDamaged(snapshot) <=> \E f \in DOMAIN old : \E sub \in Range(units[f].subgraph) :
                                 sub.schema # SchemaVersion
  BY <1>2 DEF IsDamaged, units
<1>6. QED
  BY <1>1, <1>2, <1>3, <1>4, <1>5 DEF units

LEMMA ResolvedAgain ==
  ASSUME NEW old, NEW snapshot, IsSnapshot(old, snapshot), NEW tree \in Trees,
         NEW changed \in SUBSET (DOMAIN tree),
         \A f \in DOMAIN tree \ changed : f \in DOMAIN old /\ old[f] = tree[f],
         NEW answer,
         answer = ResolveScope(ScopeStateOf(snapshot), tree, changed, DOMAIN old \ DOMAIN tree)
  PROVE  IF IsDamaged(snapshot) THEN answer = [outcome |-> "CacheError", held |-> <<>>]
         ELSE answer.outcome \in {"Fresh", "Incremental"} /\ answer.held = Built(tree)
<1> DEFINE units == snapshot[1]
           deleted == DOMAIN old \ DOMAIN tree
           prior == ScopeState(units)
           kept == {f \in DOMAIN old : units[f].subgraph # <<>>}
           route == Route(<<prior>>, tree, changed, deleted)
           held == Held(route, <<prior>>, tree, changed, deleted)
<1>1. ScopeStateOf(snapshot) = <<prior>>
  BY SnapshotUnits DEF ScopeStateOf
<1>2. /\ prior.file_paths = DOMAIN old
      /\ prior.subgraphs = [f \in kept |-> units[f].subgraph[1]]
  BY SnapshotUnits DEF ScopeState
<1>3. \A f \in DOMAIN old : /\ units[f].facts = old[f] /\ IsAccepted(f, old[f])
                            /\ units[f].subgraph \in Units(old[f])
  BY SnapshotUnits
<1>4. IsDamaged(snapshot) <=> \E f \in kept : units[f].subgraph[1].schema # SchemaVersion
  BY SnapshotUnits
<1> HIDE DEF units, prior, deleted
<1>5. \A f \in DOMAIN tree : CurrentFacts(tree[f])
  BY TreeAssumption DEF IsAccepted
<1>6. DOMAIN prior.subgraphs = kept /\ kept \subseteq prior.file_paths
  BY <1>2
<1>7. \A f \in kept : /\ Restorable(f, prior.subgraphs[f])
                           <=> units[f].subgraph[1].schema = SchemaVersion
                      /\ units[f].subgraph[1].schema = SchemaVersion
                           => prior.subgraphs[f] = BuildSubgraph(old[f])
  <2>1. \A f \in kept : prior.subgraphs[f] = units[f].subgraph[1]
    BY <1>2
  <2>2. \A f \in kept : /\ Restorable(f, units[f].subgraph[1])
                             <=> units[f].subgraph[1].schema = SchemaVersion
                        /\ units[f].subgraph[1].schema = SchemaVersion
                             => units[f].subgraph[1] = BuildSubgraph(old[f])
    BY <1>3, UnitRestores
  <2>3. QED
    BY <2>1, <2>2
<1>8. answer =
        IF route \in {"CacheError", "IndexError"} THEN [outcome |-> route, held |-> <<>>]
        ELSE IF DOMAIN tree \subseteq DOMAIN held THEN [outcome |-> route, held |-> held]
        ELSE [outcome |-> "IndexError", held |-> <<>>]
  <2>1. ResolveScope(<<prior>>, tree, changed, deleted) =
          CHOOSE result \in {
            IF r \in {"CacheError", "IndexError"} THEN [outcome |-> r, held |-> <<>>]
            ELSE CHOOSE inner \in {
                   IF DOMAIN tree \subseteq DOMAIN h THEN [outcome |-> r, held |-> h]
                   ELSE [outcome |-> "IndexError", held |-> <<>>]
                     : h \in {Held(r, <<prior>>, tree, changed, deleted)}} : TRUE
              : r \in {route}} : TRUE
    BY Zenon DEF ResolveScope, Given
  <2>2. answer = ResolveScope(<<prior>>, tree, changed, deleted)
    BY <1>1 DEF deleted
  <2> HIDE DEF route
  <2>3. QED
    BY <2>1, <2>2
<1>9. <<prior>> # <<>> /\ <<prior>>[1] = prior
  OBVIOUS
<1>10. CASE IsDamaged(snapshot)
  <2>1. route = "CacheError"
    BY <1>4, <1>5, <1>6, <1>7, <1>9, <1>10 DEF Route
  <2>2. QED
    BY <1>8, <1>10, <2>1
<1>11. CASE ~IsDamaged(snapshot)
  <2>1. \A f \in kept : Restorable(f, prior.subgraphs[f])
    BY <1>4, <1>7, <1>11
  <2>2. route = IF /\ AllHydrated(prior)
                   /\ TransitionIsComplete(prior, DOMAIN tree, changed, deleted)
                THEN "Incremental" ELSE "Fresh"
    BY <1>5, <1>6, <1>9, <2>1 DEF Route
  <2>3. held = Built(tree)
    <3>1. CASE route = "Fresh"
      <4>1. held = [f \in {} \cup DOMAIN tree |->
                      IF f \in DOMAIN tree THEN BuildSubgraph(tree[f]) ELSE prior.subgraphs[f]]
        BY <1>9, <3>1 DEF Held
      <4>2. {} \cup DOMAIN tree = DOMAIN tree
        OBVIOUS
      <4> HIDE DEF held
      <4>3. QED
        BY <4>1, <4>2 DEF Built
    <3>2. CASE route = "Incremental"
      <4>1. kept = DOMAIN old /\ (DOMAIN old \ deleted) \cup changed = DOMAIN tree
        BY <1>2, <1>6, <2>2, <3>2 DEF AllHydrated, TransitionIsComplete
      <4>2. held = [f \in (kept \ (deleted \cup changed)) \cup changed |->
                      IF f \in changed THEN BuildSubgraph(tree[f]) ELSE prior.subgraphs[f]]
        BY <1>6, <1>9, <3>2 DEF Held
      <4>3. (kept \ (deleted \cup changed)) \cup changed = DOMAIN tree
        BY <4>1
      <4>4. \A f \in DOMAIN tree \ changed : prior.subgraphs[f] = BuildSubgraph(tree[f])
        BY <1>4, <1>7, <1>11, <4>1
      <4> HIDE DEF held, kept
      <4>5. held = [f \in DOMAIN tree |->
                      IF f \in changed THEN BuildSubgraph(tree[f]) ELSE prior.subgraphs[f]]
        BY <4>2, <4>3
      <4>6. QED
        BY <4>4, <4>5 DEF Built
    <3>3. QED
      BY <2>2, <3>1, <3>2
  <2>4. DOMAIN tree \subseteq DOMAIN Built(tree)
    BY DEF Built
  <2>5. answer = [outcome |-> route, held |-> Built(tree)] /\ route \in {"Fresh", "Incremental"}
    <3> HIDE DEF held, route
    <3>1. QED
      BY <1>8, <2>2, <2>3, <2>4
  <2>6. QED
    BY <1>11, <2>5
<1>12. QED
  BY <1>10, <1>11

LEMMA ChainImpliesContinues == ChainInv => RefreshesContinue
<1> SUFFICES ASSUME ChainInv PROVE RefreshesContinue
  OBVIOUS
<1>1. PublishedSubgraphsRestore
  <2> SUFFICES ASSUME input.kind = "facts", CurrentFacts(FactsOf(input.given))
               PROVE  Restorable(FactsOf(input.given).file, BuildSubgraph(FactsOf(input.given)))
    BY DEF PublishedSubgraphsRestore
  <2>1. input.given \in SUBSET (DOMAIN FactPool)
    BY DEF ChainInv
  <2>2. FactsOf(input.given).file = "one" /\ IsTyped(FactsOf(input.given))
    BY <2>1, ChosenFactsAreTyped
  <2>3. IsAccepted("one", FactsOf(input.given))
    BY <2>2 DEF IsAccepted
  <2>4. QED
    BY <2>2, <2>3, BuiltIsRestorable
<1>2. RefreshHoldsCurrent
  <2> SUFFICES ASSUME input.kind = "refresh" PROVE RefreshHoldsCurrent
    BY DEF RefreshHoldsCurrent
  <2> DEFINE last == input.given
  <2>1. /\ last.outcome \in {"Fresh", "Incremental", "CacheError"}
        /\ (last.outcome = "CacheError") = last.damaged
        /\ last.snapshot # <<>> =>
             last.held = DOMAIN last.tree /\ IsSnapshot(last.tree, last.snapshot)
    BY DEF ChainInv
  <2> HIDE DEF last
  <2>2. ASSUME last.snapshot # <<>>
        PROVE  /\ DOMAIN last.snapshot[1] = DOMAIN last.tree
               /\ \A f \in DOMAIN last.tree :
                    /\ last.snapshot[1][f].facts = last.tree[f]
                    /\ \A sub \in Range(last.snapshot[1][f].subgraph) :
                         [sub EXCEPT !.schema = SchemaVersion] = BuildSubgraph(last.tree[f])
    <3>1. IsSnapshot(last.tree, last.snapshot)
      BY <2>1, <2>2
    <3>2. /\ DOMAIN last.snapshot[1] = DOMAIN last.tree
          /\ \A f \in DOMAIN last.tree :
               /\ last.snapshot[1][f].facts = last.tree[f] /\ IsAccepted(f, last.tree[f])
               /\ last.snapshot[1][f].subgraph \in Units(last.tree[f])
      BY <3>1, SnapshotUnits
    <3>3. ASSUME NEW f \in DOMAIN last.tree,
                 NEW sub \in Range(last.snapshot[1][f].subgraph)
          PROVE  [sub EXCEPT !.schema = SchemaVersion] = BuildSubgraph(last.tree[f])
      <4> DEFINE unit == last.snapshot[1][f].subgraph
      <4>1. unit \in Units(last.tree[f]) /\ IsAccepted(f, last.tree[f])
        BY <3>2
      <4> HIDE DEF unit
      <4>2. PICK i \in DOMAIN unit : unit[i] = sub
        BY DEF unit, Range
      <4>3. unit # <<>>
        BY <4>2
      <4>4. /\ unit = <<unit[1]>>
            /\ [unit[1] EXCEPT !.schema = SchemaVersion] = BuildSubgraph(last.tree[f])
        BY <4>1, <4>3, UnitRestores
      <4>5. i = 1
        BY <4>2, <4>4
      <4>6. QED
        BY <4>2, <4>4, <4>5
    <3>4. QED
      BY <3>2, <3>3
  <2>3. QED
    BY <2>1, <2>2 DEF RefreshHoldsCurrent, last
<1>3. QED
  BY <1>1, <1>2 DEF RefreshesContinue

LEMMA ChainStarts == input \in RefreshInputs => ChainInv
<1> SUFFICES ASSUME input \in RefreshInputs PROVE ChainInv
  OBVIOUS
<1> DEFINE start == [snapshot |-> <<>>, tree |-> <<>>, held |-> {}, outcome |-> "Fresh",
                     damaged |-> FALSE]
<1>1. \/ input = Begin("facts", {})
      \/ \E kind \in {"files", "package", "budget"} : \E given : input = Begin(kind, given)
      \/ input = Begin("refresh", start)
  BY DEF RefreshInputs
<1>2. \A kind, given : Begin(kind, given).kind = kind /\ Begin(kind, given).given = given
  BY DEF Begin
<1>3. /\ start = [snapshot |-> start.snapshot, tree |-> start.tree, held |-> start.held,
                  outcome |-> start.outcome, damaged |-> start.damaged]
      /\ start.outcome = "Fresh" /\ start.damaged = FALSE /\ start.snapshot = <<>>
  OBVIOUS
<1> HIDE DEF start
<1>4. CASE input = Begin("facts", {})
  BY <1>2, <1>4 DEF ChainInv
<1>5. CASE input = Begin("refresh", start)
  <2>1. input.kind = "refresh" /\ input.given = start
    BY <1>2, <1>5
  <2>2. QED
    BY <1>3, <2>1 DEF ChainInv
<1>6. CASE \E kind \in {"files", "package", "budget"} : \E given : input = Begin(kind, given)
  <2>1. input.kind \in {"files", "package", "budget"}
    BY <1>2, <1>6
  <2>2. QED
    BY <2>1 DEF ChainInv
<1>7. QED
  BY <1>1, <1>4, <1>5, <1>6

LEMMA ChainRefreshes == ChainInv /\ RefreshTree => ChainInv'
<1> SUFFICES ASSUME ChainInv, RefreshTree PROVE ChainInv'
  OBVIOUS
<1> DEFINE snapshot == input.given.snapshot
           had == IF snapshot = <<>> THEN {} ELSE DOMAIN snapshot[1]
           New(tree) == {f \in DOMAIN tree : f \in had => snapshot[1][f].facts # tree[f]}
<1>1. input.kind = "refresh"
  BY DEF RefreshTree
<1> DEFINE Refreshed(tree, extra) ==
             \E facts \in {FactsAfter(snapshot, tree, New(tree) \cup extra)} :
               \E answer \in {ResolveScope(ScopeStateOf(snapshot), facts,
                                           New(tree) \cup extra, had \ DOMAIN tree)} :
                 Give("refresh", [snapshot |-> SnapshotAfter(facts, answer), tree |-> tree,
                                  held |-> DOMAIN answer.held, outcome |-> answer.outcome,
                                  damaged |-> IsDamaged(snapshot)])
<1>2. \E tree \in Trees : \E extra \in SUBSET (DOMAIN tree \ New(tree)) : Refreshed(tree, extra)
  BY Zenon DEF RefreshTree
<1> HIDE DEF Refreshed
<1>2a. PICK tree \in Trees : \E extra \in SUBSET (DOMAIN tree \ New(tree)) : Refreshed(tree, extra)
  BY <1>2
<1>2b. PICK extra \in SUBSET (DOMAIN tree \ New(tree)) : Refreshed(tree, extra)
  BY <1>2a
<1> DEFINE extracted == New(tree) \cup extra
           facts == FactsAfter(snapshot, tree, extracted)
           answer == ResolveScope(ScopeStateOf(snapshot), facts, extracted, had \ DOMAIN tree)
           last == input'.given
<1>3. snapshot = <<>> \/ IsSnapshot(input.given.tree, snapshot)
  BY <1>1 DEF ChainInv
<1> DEFINE old == input.given.tree
<1>4. snapshot # <<>> => /\ had = DOMAIN old
                         /\ \A f \in DOMAIN old : snapshot[1][f].facts = old[f]
  BY <1>3, SnapshotUnits
<1>5. input' = Begin("refresh", [snapshot |-> SnapshotAfter(facts, answer), tree |-> tree,
                                 held |-> DOMAIN answer.held, outcome |-> answer.outcome,
                                 damaged |-> IsDamaged(snapshot)])
  BY <1>2b DEF Give, Refreshed
<1> HIDE DEF snapshot, old, answer
<1>6. extracted \in SUBSET (DOMAIN tree)
  OBVIOUS
<1>7. \A f \in DOMAIN tree \ extracted : f \in had /\ snapshot[1][f].facts = tree[f]
  OBVIOUS
<1>8. tree = [f \in DOMAIN tree |-> tree[f]]
  BY TreeAssumption
<1> HIDE DEF had, extracted
<1>9. facts = tree
  BY <1>7, <1>8 DEF FactsAfter
<1> HIDE DEF facts
<1>10. IF IsDamaged(snapshot) THEN answer = [outcome |-> "CacheError", held |-> <<>>]
       ELSE answer.outcome \in {"Fresh", "Incremental"} /\ answer.held = Built(tree)
  <2>1. CASE snapshot = <<>>
    <3>1. ~IsDamaged(snapshot) /\ ScopeStateOf(snapshot) = <<>>
      BY <2>1 DEF IsDamaged, ScopeStateOf
    <3>2. answer = ResolveScope(<<>>, tree, extracted, had \ DOMAIN tree)
      BY <1>9, <3>1 DEF answer
    <3>3. answer = [outcome |-> "Fresh", held |-> Built(tree)]
      BY <3>2, ResolvedFresh
    <3>4. QED
      BY <3>1, <3>3
  <2>2. CASE snapshot # <<>>
    <3>1. IsSnapshot(old, snapshot)
      BY <1>3, <2>2 DEF old
    <3>2. answer = ResolveScope(ScopeStateOf(snapshot), tree, extracted, DOMAIN old \ DOMAIN tree)
      BY <1>4, <1>9, <2>2 DEF answer
    <3>3. \A f \in DOMAIN tree \ extracted : f \in DOMAIN old /\ old[f] = tree[f]
      BY <1>4, <1>7, <2>2
    <3>4. QED
      BY <1>6, <3>1, <3>2, <3>3, ResolvedAgain
  <2>3. QED
    BY <2>1, <2>2
<1>11. IsDamaged(snapshot) \in BOOLEAN
  BY DEF IsDamaged
<1>12. /\ input'.kind = "refresh"
       /\ last = [snapshot |-> last.snapshot, tree |-> last.tree, held |-> last.held,
                  outcome |-> last.outcome, damaged |-> last.damaged]
       /\ last.snapshot = SnapshotAfter(tree, answer) /\ last.tree = tree
       /\ last.held = DOMAIN answer.held /\ last.outcome = answer.outcome
       /\ last.damaged = IsDamaged(snapshot)
  BY <1>5, <1>9 DEF Begin
<1> HIDE DEF last
<1>13. /\ last.outcome \in {"Fresh", "Incremental", "CacheError"}
       /\ (last.outcome = "CacheError") = last.damaged
  BY <1>10, <1>11, <1>12
<1>14. ASSUME last.snapshot # <<>>
       PROVE  last.held = DOMAIN last.tree /\ IsSnapshot(last.tree, last.snapshot)
  <2>1. answer.outcome \in {"Fresh", "Incremental"}
    BY <1>12, <1>14 DEF SnapshotAfter
  <2>2. answer.held = Built(tree)
    BY <1>10, <2>1
  <2> DEFINE units == [f \in DOMAIN tree |-> [facts |-> tree[f], subgraph |-> <<Built(tree)[f]>>]]
  <2>3. last.snapshot = <<units>>
    BY <1>12, <2>1, <2>2 DEF SnapshotAfter
  <2>4. \A f \in DOMAIN tree : units[f].subgraph \in Units(tree[f])
    BY DEF Built, Units
  <2>5. /\ <<units>>[1] = units
        /\ units = [f \in DOMAIN tree |-> [facts |-> tree[f], subgraph |-> units[f].subgraph]]
    OBVIOUS
  <2> HIDE DEF units
  <2>6. IsSnapshot(tree, <<units>>)
    BY <2>4, <2>5 DEF IsSnapshot
  <2>7. DOMAIN Built(tree) = DOMAIN tree
    BY DEF Built
  <2>8. QED
    BY <1>12, <2>2, <2>3, <2>6, <2>7
<1>15. QED
  BY <1>12, <1>13, <1>14 DEF ChainInv, last

LEMMA ChainDamages == ChainInv /\ DamageUnit => ChainInv'
<1> SUFFICES ASSUME ChainInv, DamageUnit PROVE ChainInv'
  OBVIOUS
<1> DEFINE last == input.given
           old == last.tree
           units == last.snapshot[1]
           After(f, missing) ==
             [last EXCEPT !.snapshot[1][f].subgraph =
                IF missing \/ @ = <<>> THEN <<>> ELSE <<[@[1] EXCEPT !.schema = 0]>>]
<1>1. input.kind = "refresh" /\ last.snapshot # <<>>
  BY DEF DamageUnit
<1>2. PICK f \in DOMAIN units : \E missing \in BOOLEAN : Give("refresh", After(f, missing))
  BY DEF DamageUnit
<1>3. PICK missing \in BOOLEAN : Give("refresh", After(f, missing))
  BY <1>2
<1>4. /\ last = [snapshot |-> last.snapshot, tree |-> last.tree, held |-> last.held,
                 outcome |-> last.outcome, damaged |-> last.damaged]
      /\ last.outcome \in {"Fresh", "Incremental", "CacheError"}
      /\ (last.outcome = "CacheError") = last.damaged
      /\ last.held = DOMAIN old /\ IsSnapshot(old, last.snapshot)
  BY <1>1 DEF ChainInv
<1>5. input' = Begin("refresh", After(f, missing))
  BY <1>3 DEF Give
<1> DEFINE unit == units[f].subgraph
           worse == IF missing \/ unit = <<>> THEN <<>> ELSE <<[unit[1] EXCEPT !.schema = 0]>>
           spoilt == [g \in DOMAIN old |->
                        [facts |-> old[g], subgraph |-> IF g = f THEN worse ELSE units[g].subgraph]]
<1>6. /\ old \in Trees /\ last.snapshot = <<units>>
      /\ units = [g \in DOMAIN old |-> [facts |-> old[g], subgraph |-> units[g].subgraph]]
      /\ \A g \in DOMAIN old : units[g].subgraph \in Units(old[g])
  BY <1>4 DEF IsSnapshot
<1>7. f \in DOMAIN old /\ IsAccepted(f, old[f])
  BY <1>6, TreeAssumption
<1> HIDE DEF last
<1>8. After(f, missing) = [last EXCEPT !.snapshot = <<spoilt>>]
  <2>1. [units EXCEPT ![f].subgraph = worse] = spoilt
    <3> HIDE DEF worse, units, old
    <3>1. QED
      BY <1>6, <1>7
  <2>2. [last.snapshot EXCEPT ![1] = spoilt] = <<spoilt>>
    <3> HIDE DEF spoilt, units
    <3>1. QED
      BY <1>6
  <2>3. After(f, missing) = [last EXCEPT !.snapshot = [last.snapshot EXCEPT ![1] =
                               [units EXCEPT ![f].subgraph = worse]]]
    OBVIOUS
  <2> HIDE DEF spoilt, worse, After
  <2>4. QED
    BY <2>1, <2>2, <2>3
<1>9. worse \in Units(old[f])
  <2>1. unit \in Units(old[f])
    BY <1>6, <1>7
  <2> HIDE DEF unit, old
  <2>2. unit # <<>> => [unit[1] EXCEPT !.schema = 0] = [BuildSubgraph(old[f]) EXCEPT !.schema = 0]
    BY <1>7, <2>1, UnitRestores DEF Units
  <2>3. QED
    BY <2>2 DEF Units
<1>10. IsSnapshot(old, <<spoilt>>)
  <2> HIDE DEF worse, units, old
  <2>1. \A g \in DOMAIN old : spoilt[g].subgraph \in Units(old[g])
    BY <1>6, <1>9
  <2>2. /\ <<spoilt>>[1] = spoilt
        /\ spoilt = [g \in DOMAIN old |-> [facts |-> old[g], subgraph |-> spoilt[g].subgraph]]
    OBVIOUS
  <2> HIDE DEF spoilt
  <2>3. QED
    BY <1>6, <2>1, <2>2 DEF IsSnapshot
<1>11. /\ input'.kind = "refresh"
       /\ input'.given = [snapshot |-> <<spoilt>>, tree |-> old, held |-> last.held,
                          outcome |-> last.outcome, damaged |-> last.damaged]
  <2> HIDE DEF spoilt, After
  <2>1. QED
    BY <1>4, <1>5, <1>8 DEF Begin
<1> HIDE DEF spoilt, old
<1>12. QED
  BY <1>4, <1>10, <1>11 DEF ChainInv

(***************************************************************************)
(* For any facts, any trees a project goes through, any of its units       *)
(* missing or damaged in between: a refresh leaves what the next one can   *)
(* continue from, and continues from what it is left (resolve_scope,       *)
(* cli/src/refresh/resolve.rs).                                            *)
(***************************************************************************)
THEOREM RefreshesAlwaysContinue == RefreshSpec => []RefreshesContinue
<1>1. input \in RefreshInputs => ChainInv
  BY ChainStarts
<1>2. ChainInv /\ [RefreshNext]_input => ChainInv'
  <2> SUFFICES ASSUME ChainInv, [RefreshNext]_input PROVE ChainInv'
    OBVIOUS
  <2>1. CASE AddFact
    <3>1. PICK n \in DOMAIN FactPool : Give("facts", input.given \cup {n})
      BY <2>1 DEF AddFact
    <3>2. input.given \in SUBSET (DOMAIN FactPool)
      BY <3>1 DEF Give, ChainInv
    <3>3. input'.kind = "facts" /\ input'.given = input.given \cup {n}
      BY <3>1 DEF Give, Begin
    <3>4. QED
      BY <3>2, <3>3 DEF ChainInv
  <2>2. CASE AddFile \/ AddUse \/ AddManifest \/ AddCandidate
    <3>1. \E kind \in {"files", "package", "budget"} : \E given : input' = Begin(kind, given)
      BY <2>2, Zenon DEF AddFile, AddUse, AddManifest, AddCandidate, Give
    <3>2. input'.kind \in {"files", "package", "budget"}
      BY <3>1 DEF Begin
    <3>3. QED
      BY <3>2 DEF ChainInv
  <2>3. CASE RefreshTree
    BY <2>3, ChainRefreshes
  <2>4. CASE DamageUnit
    BY <2>4, ChainDamages
  <2>5. CASE UNCHANGED input
    BY <2>5 DEF ChainInv
  <2>6. QED
    BY <2>1, <2>2, <2>3, <2>4, <2>5 DEF RefreshNext
<1>3. ChainInv => RefreshesContinue
  BY ChainImpliesContinues
<1>4. QED
  BY <1>1, <1>2, <1>3, PTL DEF RefreshSpec

(***************************************************************************)
(* The edges of the tiers.                                                 *)
(***************************************************************************)

\* A list of edges, or of pending references, with confidences that have a rank.
IsGraded(edges) ==
  edges \in Seq(Range(edges)) /\ \A e \in Range(edges) : e.confidence \in Range(Confidences)

LEMMA GradedIn ==
  ASSUME NEW V, NEW edges \in Seq(V), \A e \in Range(edges) : e.confidence \in Range(Confidences)
  PROVE  IsGraded(edges)
BY DEF IsGraded, Range

LEMMA NoneIsGraded == IsGraded(<<>>)
BY DEF IsGraded, Range

LEMMA FlattenedIsGraded ==
  ASSUME NEW n \in Nat, NEW lists, lists = [i \in 1 .. n |-> lists[i]],
         \A i \in 1 .. n : IsGraded(lists[i])
  PROVE  /\ IsGraded(FlattenSeq(lists))
         /\ Range(FlattenSeq(lists)) = UNION {Range(lists[i]) : i \in 1 .. n}
<1> DEFINE V == UNION {Range(lists[i]) : i \in 1 .. n}
<1>1. ASSUME NEW i \in 1 .. n PROVE lists[i] \in Seq(V)
  <2>1. lists[i] \in Seq(Range(lists[i])) /\ Range(lists[i]) \subseteq V
    BY DEF IsGraded
  <2> HIDE DEF V
  <2>2. QED
    BY <2>1
<1>2. \A e \in V : e.confidence \in Range(Confidences)
  BY DEF IsGraded
<1> HIDE DEF V
<1>3. lists \in Seq(Seq(V)) /\ DOMAIN lists = 1 .. n
  BY <1>1
<1>4. /\ FlattenSeq(lists) \in Seq(V)
      /\ Range(FlattenSeq(lists)) = UNION {Range(lists[i]) : i \in DOMAIN lists}
  BY <1>3, RangeOfFlattened
<1>5. Range(FlattenSeq(lists)) = V
  BY <1>3, <1>4 DEF V
<1>6. IsGraded(FlattenSeq(lists))
  BY <1>2, <1>4, <1>5, GradedIn
<1>7. QED
  BY <1>5, <1>6 DEF V

\* The edges of a tier: those of each reference of each file.
AreRows(files, rows) ==
  /\ rows = [i \in DOMAIN files |-> [j \in DOMAIN files[i].references |-> rows[i][j]]]
  /\ \A i \in DOMAIN files : \A j \in DOMAIN files[i].references : IsGraded(rows[i][j])

AllRows(files, rows) == FlattenSeq([i \in DOMAIN files |-> FlattenSeq(rows[i])])

LEMMA TierIsGraded ==
  ASSUME NEW V, NEW files \in Seq(V), \A facts \in V : IsTyped(facts),
         NEW rows, AreRows(files, rows)
  PROVE  IsGraded(AllRows(files, rows))
<1> USE DEF AreRows
<1> DEFINE lists == [i \in DOMAIN files |-> FlattenSeq(rows[i])]
<1>1. Len(files) \in Nat /\ DOMAIN files = 1 .. Len(files)
  OBVIOUS
<1>2. ASSUME NEW i \in DOMAIN files PROVE IsGraded(FlattenSeq(rows[i]))
  <2> DEFINE n == Len(files[i].references)
             row == rows[i]
  <2>1. files[i].references \in Seq(Range(files[i].references))
    BY DEF IsTyped
  <2>2. n \in Nat /\ DOMAIN files[i].references = 1 .. n
    BY <2>1
  <2>3. row = [j \in 1 .. n |-> row[j]] /\ \A j \in 1 .. n : IsGraded(row[j])
    BY <2>2
  <2> HIDE DEF n, row
  <2>4. IsGraded(FlattenSeq(row))
    BY <2>2, <2>3, FlattenedIsGraded
  <2>5. QED
    BY <2>4 DEF row
<1>3. lists = [i \in 1 .. Len(files) |-> lists[i]] /\ \A i \in 1 .. Len(files) : IsGraded(lists[i])
  BY <1>1, <1>2
<1> HIDE DEF lists
<1>4. IsGraded(FlattenSeq(lists))
  BY <1>1, <1>3, FlattenedIsGraded
<1>5. QED
  BY <1>4 DEF lists, AllRows

LEMMA TableIsGraded ==
  ASSUME NEW V, NEW list \in Seq(V), NEW edges, edges = [i \in DOMAIN list |-> edges[i]],
         \A i \in DOMAIN list : edges[i].confidence \in Range(Confidences)
  PROVE  IsGraded(edges)
<1>1. edges \in Seq(Range(edges))
  BY ListOver
<1>2. \A e \in Range(edges) : e.confidence \in Range(Confidences)
  BY DEF Range
<1>3. QED
  BY <1>1, <1>2 DEF IsGraded

LEMMA OneIsGraded ==
  ASSUME NEW edge, edge.confidence \in Range(Confidences)
  PROVE  IsGraded(<<edge>>)
<1>1. Range(<<edge>>) = {edge}
  BY DEF Range
<1>2. QED
  BY <1>1 DEF IsGraded

LEMMA TheConfidences ==
  {"Heuristic", "NameOnly", "Scoped", "Exact"} = Range(Confidences)
<1>1. DOMAIN Confidences = 1 .. 4
  BY DEF Confidences
<1>2. /\ Confidences[1] = "Heuristic" /\ Confidences[2] = "NameOnly"
      /\ Confidences[3] = "Scoped" /\ Confidences[4] = "Exact"
  BY DEF Confidences
<1>3. QED
  BY <1>1, <1>2 DEF Range

LEMMA EdgeHasConfidence ==
  ASSUME NEW from, NEW to, NEW role, NEW confidence, NEW provenance, NEW occ
  PROVE  Edge(from, to, role, confidence, provenance, occ).confidence = confidence
BY DEF Edge

\* The definitions of all files, in a list.
LEMMA AllSymbolsList ==
  ASSUME NEW V, NEW files \in Seq(V), \A facts \in V : IsTyped(facts)
  PROVE  \E S : AllSymbols(files) \in Seq(S)
<1> DEFINE S == UNION {Range(files[i].symbols) : i \in DOMAIN files}
           lists == [i \in DOMAIN files |-> files[i].symbols]
<1>1. ASSUME NEW i \in DOMAIN files PROVE files[i].symbols \in Seq(S)
  <2>1. /\ files[i].symbols \in Seq(Range(files[i].symbols))
        /\ Range(files[i].symbols) \subseteq S
    BY DEF IsTyped
  <2> HIDE DEF S
  <2>2. QED
    BY <2>1
<1> HIDE DEF S
<1>2. lists \in Seq(Seq(S))
  BY <1>1
<1>3. FlattenSeq(lists) \in Seq(S)
  BY <1>2, RangeOfFlattened
<1>4. QED
  BY <1>3 DEF AllSymbols

LEMMA WellFormedList ==
  ASSUME NEW facts, IsTyped(facts)
  PROVE  WellFormedExports(facts) \in Seq(Range(facts.exports))
<1> DEFINE list == facts.exports
           Once(id) ==
             /\ Cardinality({i \in DOMAIN facts.symbols : facts.symbols[i].id = id}) = 1
             /\ Cardinality({i \in DOMAIN facts.exports : facts.exports[i].symbol = id}) = 1
           chosen == {i \in DOMAIN list : Once(list[i].symbol)}
<1>1. list \in Seq(Range(list))
  BY DEF IsTyped
<1>2. WellFormedExports(facts) = EntriesAt(list, chosen)
  BY DEF WellFormedExports
<1>3. chosen \in SUBSET (DOMAIN list)
  OBVIOUS
<1> HIDE DEF chosen
<1>4. QED
  BY <1>1, <1>2, <1>3, EntriesChosen

LEMMA AllExportsList ==
  ASSUME NEW V, NEW files \in Seq(V), \A facts \in V : IsTyped(facts)
  PROVE  \E S : FlattenSeq([i \in DOMAIN files |-> WellFormedExports(files[i])]) \in Seq(S)
<1> DEFINE S == UNION {Range(files[i].exports) : i \in DOMAIN files}
           lists == [i \in DOMAIN files |-> WellFormedExports(files[i])]
<1>1. ASSUME NEW i \in DOMAIN files PROVE WellFormedExports(files[i]) \in Seq(S)
  <2>1. /\ WellFormedExports(files[i]) \in Seq(Range(files[i].exports))
        /\ Range(files[i].exports) \subseteq S
    BY WellFormedList
  <2> HIDE DEF S
  <2>2. QED
    BY <2>1
<1> HIDE DEF S
<1>2. lists \in Seq(Seq(S))
  BY <1>1
<1>3. FlattenSeq(lists) \in Seq(S)
  BY <1>2, RangeOfFlattened
<1>4. QED
  BY <1>3

LEMMA ConformanceIsGraded ==
  ASSUME NEW files, NEW facts, NEW r
  PROVE  IsGraded(ConformanceEdges(files, facts, r))
<1>1. \/ ConformanceEdges(files, facts, r) = <<>>
      \/ \E from, to, occ : ConformanceEdges(files, facts, r)
                              = <<Edge(from, to, r.role, "Scoped", "Conformance", occ)>>
  BY Zenon DEF ConformanceEdges
<1>2. "Scoped" \in Range(Confidences)
  BY TheConfidences
<1>3. QED
  BY <1>1, <1>2, NoneIsGraded, OneIsGraded, EdgeHasConfidence

LEMMA LocalTypedIsGraded ==
  ASSUME NEW files, NEW facts, NEW r
  PROVE  IsGraded(LocalTypedEdges(files, facts, r))
<1>1. \/ LocalTypedEdges(files, facts, r) = <<>>
      \/ \E from, to, occ : LocalTypedEdges(files, facts, r)
                              = <<Edge(from, to, r.role, "Scoped", "LocalType", occ)>>
  BY Zenon DEF LocalTypedEdges
<1>2. "Scoped" \in Range(Confidences)
  BY TheConfidences
<1>3. QED
  BY <1>1, <1>2, NoneIsGraded, OneIsGraded, EdgeHasConfidence

LEMMA ExternalIsGraded ==
  ASSUME NEW files, NEW facts, NEW r
  PROVE  IsGraded(ExternalEdges(files, facts, r))
<1>1. \/ ExternalEdges(files, facts, r) = <<>>
      \/ \E from, to, occ : ExternalEdges(files, facts, r)
                              = <<Edge(from, to, "Call", "NameOnly", "External", occ)>>
  BY Zenon DEF ExternalEdges
<1>2. "NameOnly" \in Range(Confidences)
  BY TheConfidences
<1>3. QED
  BY <1>1, <1>2, NoneIsGraded, OneIsGraded, EdgeHasConfidence

LEMMA BridgeIsGraded ==
  ASSUME NEW V, NEW files \in Seq(V), \A given \in V : IsTyped(given), NEW facts, NEW r
  PROVE  IsGraded(BridgeEdges(files, facts, r))
<1> DEFINE exports == FlattenSeq([i \in DOMAIN files |-> WellFormedExports(files[i])])
           chosen == {i \in DOMAIN exports :
                        exports[i].name = r.name /\ facts.lang \in Consumers(exports[i].abi)}
           crossing == EntriesAt(exports, chosen)
           from == CallerIn(AllSymbols(files), facts, r.byte)
           confidence == IF Len(crossing) = 1 THEN "Scoped" ELSE "NameOnly"
           edges == [i \in DOMAIN crossing |->
                       Edge(from[1].id, crossing[i].symbol, "Call", confidence, "FfiBridge",
                            Occurrence(facts, r))]
<1>1. BridgeEdges(files, facts, r) = IF r.role # "Call" \/ from = <<>> THEN <<>> ELSE edges
  BY Zenon DEF BridgeEdges
<1>2. PICK S : exports \in Seq(S)
  BY AllExportsList
<1>3. chosen \in SUBSET (DOMAIN exports)
  OBVIOUS
<1> HIDE DEF exports, chosen
<1>4. crossing \in Seq(S)
  BY <1>2, <1>3, EntriesChosen
<1>5. confidence \in Range(Confidences)
  BY TheConfidences
<1> HIDE DEF crossing, confidence, from
<1>6. edges = [i \in DOMAIN crossing |-> edges[i]]
      /\ \A i \in DOMAIN crossing : edges[i].confidence = confidence
  BY EdgeHasConfidence
<1> HIDE DEF edges
<1>7. IsGraded(edges)
  BY <1>4, <1>5, <1>6, TableIsGraded
<1>8. QED
  BY <1>1, <1>7, NoneIsGraded

LEMMA FoldedIsGraded ==
  ASSUME NEW V, NEW files \in Seq(V), \A given \in V : IsTyped(given), NEW facts, NEW r
  PROVE  IsGraded(FoldedEdges(files, facts, r))
<1> DEFINE from == CallerIn(AllSymbols(files), facts, r.byte)
           symbols == AllSymbols(files)
           alike == {i \in DOMAIN symbols :
                       /\ LeafName(symbols[i].id) # ""
                       /\ Lowercase[LeafName(symbols[i].id)] = Lowercase[r.name]}
           folded == EntriesAt(symbols, alike)
           others == {i \in DOMAIN folded :
                        <<folded[i]>> # from /\ LeafName(folded[i].id) # r.name}
           targets == EntriesAt(folded, others)
           edges == [i \in DOMAIN targets |->
                       Edge(from[1].id, targets[i].id, r.role, "Heuristic", "NormalizedName",
                            Occurrence(facts, r))]
<1>1. FoldedEdges(files, facts, r)
        = IF from = <<>> \/ Len(folded) > MaxNameFanout THEN <<>> ELSE edges
  BY Zenon DEF FoldedEdges, LinkAll
<1>2. PICK S : symbols \in Seq(S)
  BY AllSymbolsList
<1>3. alike \in SUBSET (DOMAIN symbols) /\ others \in SUBSET (DOMAIN folded)
  OBVIOUS
<1> HIDE DEF symbols, alike, others
<1>4. folded \in Seq(S)
  BY <1>2, <1>3, EntriesChosen
<1> HIDE DEF folded
<1>5. targets \in Seq(S)
  BY <1>3, <1>4, EntriesChosen
<1>6. "Heuristic" \in Range(Confidences)
  BY TheConfidences
<1> HIDE DEF targets, from
<1>7. edges = [i \in DOMAIN targets |-> edges[i]]
      /\ \A i \in DOMAIN targets : edges[i].confidence = "Heuristic"
  BY EdgeHasConfidence
<1> HIDE DEF edges
<1>8. IsGraded(edges)
  BY <1>5, <1>6, <1>7, TableIsGraded
<1>9. QED
  BY <1>1, <1>8, NoneIsGraded

LEMMA NamedIsGraded ==
  ASSUME NEW S, NEW symbols \in Seq(S), NEW facts, NEW r
  PROVE  IsGraded(NameEdges(symbols, facts, r))
<1> DEFINE subject == ExplicitSubject(symbols, facts, r)
           from == IF subject # <<>> THEN subject ELSE CallerIn(symbols, facts, r.byte)
           answering == {i \in DOMAIN symbols :
                           /\ Answers(r, symbols[i])
                           /\ <<symbols[i]>> # from
                           /\ IsAnnotation(r) => IsTypeKind(symbols[i])}
           targets == EntriesAt(symbols, answering)
           importing == {i \in DOMAIN targets :
                           /\ r.role = "Import"
                           /\ NamespacesEndWith(targets[i].id, NormalizeFromPath(r.from_path))}
           imported == EntriesAt(targets, importing)
           bound == IF Len(imported) = 1 THEN imported ELSE <<>>
           Certain(s) == IF bound # <<>> THEN <<s>> = bound ELSE Len(targets) = 1
           Link1(s, confidence, provenance) ==
             Edge(from[1].id, s.id, r.role, confidence, provenance, Occurrence(facts, r))
           few == [i \in DOMAIN bound |-> Link1(bound[i], "Scoped", "SymbolTable")]
           embedded == [i \in DOMAIN targets |->
                          Link1(targets[i], "NameOnly", "CrossArtifact")]
           all == [i \in DOMAIN targets |->
                     Link1(targets[i], IF Certain(targets[i]) THEN "Scoped" ELSE "NameOnly",
                           "SymbolTable")]
<1>1. NameEdges(symbols, facts, r)
        = IF from = <<>> THEN <<>>
          ELSE IF Len(targets) > MaxNameFanout THEN few
          ELSE IF r.cross THEN embedded ELSE all
  BY Zenon DEF NameEdges, LinkAll
<1>2. answering \in SUBSET (DOMAIN symbols) /\ importing \in SUBSET (DOMAIN targets)
  OBVIOUS
<1> HIDE DEF answering, importing
<1>3. targets \in Seq(S)
  BY <1>2, EntriesChosen
<1> HIDE DEF targets
<1>4. imported \in Seq(S)
  BY <1>2, <1>3, EntriesChosen
<1> HIDE DEF imported
<1>5. bound \in Seq(S)
  BY <1>4
<1>6. {"Scoped", "NameOnly"} \subseteq Range(Confidences)
  BY TheConfidences
<1> HIDE DEF bound, from
<1>7. IsGraded(few)
  <2>1. few = [i \in DOMAIN bound |-> few[i]]
        /\ \A i \in DOMAIN bound : few[i].confidence = "Scoped"
    BY EdgeHasConfidence
  <2> HIDE DEF few
  <2>2. QED
    BY <1>5, <1>6, <2>1, TableIsGraded
<1>8. IsGraded(embedded)
  <2>1. embedded = [i \in DOMAIN targets |-> embedded[i]]
        /\ \A i \in DOMAIN targets : embedded[i].confidence = "NameOnly"
    BY EdgeHasConfidence
  <2> HIDE DEF embedded
  <2>2. QED
    BY <1>3, <1>6, <2>1, TableIsGraded
<1>9. IsGraded(all)
  <2>1. all = [i \in DOMAIN targets |-> all[i]]
        /\ \A i \in DOMAIN targets : all[i].confidence \in {"Scoped", "NameOnly"}
    BY EdgeHasConfidence
  <2> HIDE DEF all
  <2>2. QED
    BY <1>3, <1>6, <2>1, TableIsGraded
<1> HIDE DEF few, embedded, all
<1>10. QED
  BY <1>1, <1>7, <1>8, <1>9, NoneIsGraded

(***************************************************************************)
(* The scope tier.                                                         *)
(***************************************************************************)

\* Whatever a reference comes to in its own file, it has a confidence of the list.
HasConfidence(outcome) ==
  outcome.kind \in {"edge", "pending"} => outcome.value.confidence \in Range(Confidences)

LEMMA SkippedHasConfidence == HasConfidence(Skip)
BY DEF HasConfidence, Skip

LEMMA DeferredHasConfidence ==
  ASSUME NEW facts, NEW r, NEW from, NEW name, NEW segs, NEW confidence \in Range(Confidences),
         NEW qualified, NEW type_only
  PROVE  HasConfidence(Defer(facts, r, from, name, segs, confidence, qualified, type_only))
BY DEF HasConfidence, Defer

LEMMA LinkedHasConfidence ==
  ASSUME NEW facts, NEW r, NEW from, NEW to, NEW confidence \in Range(Confidences)
  PROVE  HasConfidence(Link(facts, r, from, to, confidence))
<1>1. Link(facts, r, from, to, confidence).value.confidence
        = EdgeTags(r.cross, confidence)[1]
  BY DEF Link, Edge
<1>2. EdgeTags(r.cross, confidence)[1] \in {"NameOnly", confidence}
  BY DEF EdgeTags
<1>3. QED
  BY <1>1, <1>2, TheConfidences DEF HasConfidence

LEMMA OutcomeHasConfidence ==
  ASSUME NEW facts, NEW r
  PROVE  HasConfidence(Outcome(facts, r))
<1>1. "Exact" \in Range(Confidences) /\ "Scoped" \in Range(Confidences)
  BY TheConfidences
<1>2. ASSUME NEW from PROVE HasConfidence(Qualified(facts, r, from))
  BY Zenon, <1>1, SkippedHasConfidence, DeferredHasConfidence DEF Qualified
<1>3. ASSUME NEW from PROVE HasConfidence(Unbound(facts, r, from))
  BY Zenon, <1>1, SkippedHasConfidence, DeferredHasConfidence DEF Unbound
<1>4. ASSUME NEW from, NEW binding PROVE HasConfidence(Bound(facts, r, from, binding))
  BY Zenon, <1>1, SkippedHasConfidence, DeferredHasConfidence, LinkedHasConfidence DEF Bound
<1>5. ASSUME NEW from
      PROVE  HasConfidence(Defer(facts, r, from, r.name, <<>>, "Scoped", FALSE, IsAnnotation(r)))
  BY Zenon, <1>1, DeferredHasConfidence
<1>6. QED
  BY Zenon, <1>2, <1>3, <1>4, <1>5, SkippedHasConfidence DEF Outcome

LEMMA SubgraphIsGraded ==
  ASSUME NEW facts, IsTyped(facts)
  PROVE  IsGraded(BuildSubgraph(facts).intra) /\ IsGraded(BuildSubgraph(facts).pending)
<1> DEFINE references == facts.references
           outcomes == [i \in DOMAIN references |-> Outcome(facts, references[i])]
           At(kind) == {i \in DOMAIN outcomes : outcomes[i].kind = kind}
           Kept(kind) == EntriesAt(outcomes, At(kind))
           Of(kind) == [p \in DOMAIN Kept(kind) |-> Kept(kind)[p].value]
           O == Range(outcomes)
<1>1. /\ BuildSubgraph(facts).intra = Of("edge")
      /\ BuildSubgraph(facts).pending = Of("pending")
  BY DEF BuildSubgraph
<1>2. references \in Seq(Range(references))
  BY DEF IsTyped
<1>3. /\ outcomes = [i \in DOMAIN references |-> outcomes[i]]
      /\ \A i \in DOMAIN outcomes : HasConfidence(outcomes[i])
  BY OutcomeHasConfidence
<1> HIDE DEF outcomes, references
<1>4. outcomes \in Seq(O)
  BY <1>2, <1>3, ListOver
<1>5. ASSUME NEW kind \in {"edge", "pending"} PROVE IsGraded(Of(kind))
  <2> DEFINE at == At(kind)
             kept == Kept(kind)
             values == Of(kind)
  <2>1. at \in SUBSET (DOMAIN outcomes) /\ \A i \in at : outcomes[i].kind = kind
    OBVIOUS
  <2>2. values = [p \in DOMAIN kept |-> values[p]] /\ \A p \in DOMAIN kept : values[p] = kept[p].value
    OBVIOUS
  <2>3. kept = EntriesAt(outcomes, at)
    OBVIOUS
  <2> HIDE DEF at, kept, values
  <2>4. kept \in Seq(O) /\ Range(kept) = {outcomes[i] : i \in at}
    BY <1>4, <2>1, <2>3, EntriesChosen
  <2>5. ASSUME NEW p \in DOMAIN kept PROVE values[p].confidence \in Range(Confidences)
    <3>1. kept[p] \in Range(kept)
      BY DEF Range
    <3>2. PICK i \in at : outcomes[i] = kept[p]
      BY <2>4, <3>1
    <3>3. HasConfidence(kept[p]) /\ kept[p].kind = kind
      BY <1>3, <2>1, <3>2
    <3>4. QED
      BY <2>2, <3>3 DEF HasConfidence
  <2>6. IsGraded(values)
    BY <2>2, <2>4, <2>5, TableIsGraded
  <2>7. QED
    BY <2>6 DEF values
<1> HIDE DEF Of
<1>6. QED
  BY <1>1, <1>5

LEMMA ResolvedIsGraded ==
  ASSUME NEW p, p.confidence \in Range(Confidences), NEW index
  PROVE  IsGraded(ResolvePending(p, index))
<1> DEFINE to == Matched(p, index)
           tags == EdgeTags(p.cross, p.confidence)
<1>1. ResolvePending(p, index)
        = IF to \in {NoId, p.from} THEN <<>>
          ELSE <<Edge(p.from, to, p.role, tags[1], tags[2], p.occ)>>
  BY Zenon DEF ResolvePending, NoEdge
<1>2. tags[1] \in Range(Confidences)
  BY TheConfidences DEF EdgeTags
<1> HIDE DEF tags, to
<1>3. QED
  BY <1>1, <1>2, NoneIsGraded, OneIsGraded, EdgeHasConfidence

LEMMA JoinedIsGraded ==
  ASSUME NEW a, NEW b, IsGraded(a), IsGraded(b)
  PROVE  IsGraded(a \o b)
<1> DEFINE V == Range(a) \cup Range(b)
<1>1. a \in Seq(Range(a)) /\ b \in Seq(Range(b))
  BY DEF IsGraded
<1>2. Range(a) \subseteq V /\ Range(b) \subseteq V
  OBVIOUS
<1>3. \A e \in V : e.confidence \in Range(Confidences)
  BY DEF IsGraded
<1> HIDE DEF V
<1>4. a \in Seq(V) /\ b \in Seq(V)
  BY <1>1, <1>2
<1>5. a \o b \in Seq(V)
  BY <1>4
<1>6. Range(a \o b) \subseteq V
  BY <1>5 DEF Range
<1>7. QED
  BY <1>3, <1>5, <1>6, GradedIn

LEMMA ScopeIsGraded ==
  ASSUME NEW V, NEW files \in Seq(V), \A facts \in V : IsTyped(facts)
  PROVE  IsGraded(ScopeGraph(files).edges)
<1> DEFINE n == Len(files)
           subs == [i \in DOMAIN files |-> BuildSubgraph(files[i])]
           index == FromSubgraphs(Range(subs))
           own == [i \in DOMAIN subs |-> subs[i].intra]
           parts == [i \in DOMAIN subs |-> subs[i].pending]
           waiting == FlattenSeq(parts)
           answers == [i \in DOMAIN waiting |-> ResolvePending(waiting[i], index)]
<1>1. ScopeGraph(files).edges = FlattenSeq(own) \o FlattenSeq(answers)
  BY Zenon DEF ScopeGraph, Given
<1>2. n \in Nat /\ DOMAIN files = 1 .. n /\ DOMAIN subs = 1 .. n
  OBVIOUS
<1>3. \A i \in 1 .. n : IsGraded(subs[i].intra) /\ IsGraded(subs[i].pending)
  BY <1>2, SubgraphIsGraded
<1> HIDE DEF n, subs, index
<1>4. IsGraded(FlattenSeq(own))
  <2>1. own = [i \in 1 .. n |-> own[i]] /\ \A i \in 1 .. n : IsGraded(own[i])
    BY <1>2, <1>3
  <2> HIDE DEF own
  <2>2. QED
    BY <1>2, <2>1, FlattenedIsGraded
<1>5. IsGraded(waiting)
  <2>1. parts = [i \in 1 .. n |-> parts[i]] /\ \A i \in 1 .. n : IsGraded(parts[i])
    BY <1>2, <1>3
  <2> HIDE DEF parts
  <2>2. QED
    BY <1>2, <2>1, FlattenedIsGraded
<1> HIDE DEF waiting
<1>6. Len(waiting) \in Nat /\ DOMAIN waiting = 1 .. Len(waiting)
  BY <1>5 DEF IsGraded
<1>7. ASSUME NEW i \in 1 .. Len(waiting) PROVE IsGraded(answers[i])
  <2>1. waiting[i].confidence \in Range(Confidences)
    BY <1>5, <1>6 DEF IsGraded, Range
  <2>2. QED
    BY <1>6, <2>1, ResolvedIsGraded
<1>8. answers = [i \in 1 .. Len(waiting) |-> answers[i]]
  BY <1>6
<1> HIDE DEF answers, own
<1>9. IsGraded(FlattenSeq(answers))
  BY <1>6, <1>7, <1>8, FlattenedIsGraded
<1>10. QED
  BY <1>1, <1>4, <1>9, JoinedIsGraded

LEMMA ConformanceTier ==
  ASSUME NEW V, NEW files \in Seq(V), \A facts \in V : IsTyped(facts)
  PROVE  IsGraded(TierOf(files, ConformanceEdges).edges)
<1> DEFINE rows == [i \in DOMAIN files |->
                      [j \in DOMAIN files[i].references |->
                         ConformanceEdges(files, files[i], files[i].references[j])]]
<1>1. TierOf(files, ConformanceEdges).edges = AllRows(files, rows)
  <2>1. \A i \in DOMAIN files :
          rows[i] = [j \in DOMAIN files[i].references |->
                       ConformanceEdges(files, files[i], files[i].references[j])]
    OBVIOUS
  <2> HIDE DEF rows
  <2>2. QED
    BY <2>1 DEF TierOf, Graph, AllRows
<1>2. AreRows(files, rows)
  BY ConformanceIsGraded DEF AreRows
<1> HIDE DEF rows
<1>3. QED
  BY <1>1, <1>2, TierIsGraded

LEMMA LocalTypedTier ==
  ASSUME NEW V, NEW files \in Seq(V), \A facts \in V : IsTyped(facts)
  PROVE  IsGraded(TierOf(files, LocalTypedEdges).edges)
<1> DEFINE rows == [i \in DOMAIN files |->
                      [j \in DOMAIN files[i].references |->
                         LocalTypedEdges(files, files[i], files[i].references[j])]]
<1>1. TierOf(files, LocalTypedEdges).edges = AllRows(files, rows)
  <2>1. \A i \in DOMAIN files :
          rows[i] = [j \in DOMAIN files[i].references |->
                       LocalTypedEdges(files, files[i], files[i].references[j])]
    OBVIOUS
  <2> HIDE DEF rows
  <2>2. QED
    BY <2>1 DEF TierOf, Graph, AllRows
<1>2. AreRows(files, rows)
  BY LocalTypedIsGraded DEF AreRows
<1> HIDE DEF rows
<1>3. QED
  BY <1>1, <1>2, TierIsGraded

LEMMA BridgeTier ==
  ASSUME NEW V, NEW files \in Seq(V), \A facts \in V : IsTyped(facts)
  PROVE  IsGraded(TierOf(files, BridgeEdges).edges)
<1> DEFINE rows == [i \in DOMAIN files |->
                      [j \in DOMAIN files[i].references |->
                         BridgeEdges(files, files[i], files[i].references[j])]]
<1>1. TierOf(files, BridgeEdges).edges = AllRows(files, rows)
  <2>1. \A i \in DOMAIN files :
          rows[i] = [j \in DOMAIN files[i].references |->
                       BridgeEdges(files, files[i], files[i].references[j])]
    OBVIOUS
  <2> HIDE DEF rows
  <2>2. QED
    BY <2>1 DEF TierOf, Graph, AllRows
<1>2. AreRows(files, rows)
  BY BridgeIsGraded DEF AreRows
<1> HIDE DEF rows
<1>3. QED
  BY <1>1, <1>2, TierIsGraded

LEMMA ExternalTier ==
  ASSUME NEW V, NEW files \in Seq(V), \A facts \in V : IsTyped(facts)
  PROVE  IsGraded(TierOf(files, ExternalEdges).edges)
<1> DEFINE rows == [i \in DOMAIN files |->
                      [j \in DOMAIN files[i].references |->
                         ExternalEdges(files, files[i], files[i].references[j])]]
<1>1. TierOf(files, ExternalEdges).edges = AllRows(files, rows)
  <2>1. \A i \in DOMAIN files :
          rows[i] = [j \in DOMAIN files[i].references |->
                       ExternalEdges(files, files[i], files[i].references[j])]
    OBVIOUS
  <2> HIDE DEF rows
  <2>2. QED
    BY <2>1 DEF TierOf, Graph, AllRows
<1>2. AreRows(files, rows)
  BY ExternalIsGraded DEF AreRows
<1> HIDE DEF rows
<1>3. QED
  BY <1>1, <1>2, TierIsGraded

LEMMA FoldedTier ==
  ASSUME NEW V, NEW files \in Seq(V), \A facts \in V : IsTyped(facts)
  PROVE  IsGraded(TierOf(files, FoldedEdges).edges)
<1> DEFINE rows == [i \in DOMAIN files |->
                      [j \in DOMAIN files[i].references |->
                         FoldedEdges(files, files[i], files[i].references[j])]]
<1>1. TierOf(files, FoldedEdges).edges = AllRows(files, rows)
  <2>1. \A i \in DOMAIN files :
          rows[i] = [j \in DOMAIN files[i].references |->
                       FoldedEdges(files, files[i], files[i].references[j])]
    OBVIOUS
  <2> HIDE DEF rows
  <2>2. QED
    BY <2>1 DEF TierOf, Graph, AllRows
<1>2. AreRows(files, rows)
  BY FoldedIsGraded DEF AreRows
<1> HIDE DEF rows
<1>3. QED
  BY <1>1, <1>2, TierIsGraded

LEMMA NameTier ==
  ASSUME NEW V, NEW files \in Seq(V), \A facts \in V : IsTyped(facts)
  PROVE  IsGraded(SymbolTable(files).edges)
<1> DEFINE symbols == FirstById(AllSymbols(files))
           rows == [i \in DOMAIN files |->
                      [j \in DOMAIN files[i].references |->
                         NameEdges(symbols, files[i], files[i].references[j])]]
<1>1. SymbolTable(files).edges = AllRows(files, rows)
  <2>1. \A i \in DOMAIN files :
          rows[i] = [j \in DOMAIN files[i].references |->
                       NameEdges(symbols, files[i], files[i].references[j])]
    OBVIOUS
  <2> HIDE DEF rows
  <2>2. QED
    BY <2>1 DEF SymbolTable, Graph, AllRows
<1>2. PICK S : AllSymbols(files) \in Seq(S)
  BY AllSymbolsList
<1>3. symbols \in Seq(S)
  BY <1>2, EntriesChosen DEF FirstById
<1> HIDE DEF symbols
<1>4. AreRows(files, rows)
  BY <1>3, NamedIsGraded DEF AreRows
<1> HIDE DEF rows
<1>5. QED
  BY <1>1, <1>4, TierIsGraded

\* The seven tiers are put together by threes and twos.
IsPairAfter(u, s, n, t) ==
  /\ Len(u) = n + 2 /\ DOMAIN u = 1 .. n + 2
  /\ \A i \in 1 .. n : u[i] = s[i]
  /\ u[n + 1] = t[1] /\ u[n + 2] = t[2]

LEMMA PairAfter ==
  ASSUME NEW V, NEW s \in Seq(V), NEW t \in Seq(V), NEW u, u = s \o t
  PROVE  u \in Seq(V) /\ (Len(t) = 2 => IsPairAfter(u, s, Len(s), t))
<1>1. s \o t \in Seq(V) /\ Len(s \o t) = Len(s) + Len(t)
  OBVIOUS
<1>2. ASSUME NEW i \in 1 .. Len(s) + Len(t)
      PROVE  (s \o t)[i] = IF i <= Len(s) THEN s[i] ELSE t[i - Len(s)]
  OBVIOUS
<1> DEFINE n == Len(s)
           m == Len(t)
<1>3. /\ u \in Seq(V) /\ Len(u) = n + m
      /\ \A i \in 1 .. n + m : u[i] = IF i <= n THEN s[i] ELSE t[i - n]
  BY <1>1, <1>2
<1>4. n \in Nat /\ m \in Nat
  OBVIOUS
<1> HIDE DEF n, m
<1>5. ASSUME m = 2 PROVE IsPairAfter(u, s, n, t)
  <2>1. Len(u) = n + 2 /\ DOMAIN u = 1 .. n + 2
    BY <1>3, <1>4, <1>5
  <2>2. \A i \in 1 .. n : u[i] = s[i]
    BY <1>3, <1>4, <1>5
  <2>3. u[n + 1] = t[1]
    BY <1>3, <1>4, <1>5
  <2>4. u[n + 2] = t[2]
    BY <1>3, <1>4, <1>5
  <2>5. QED
    BY <2>1, <2>2, <2>3, <2>4 DEF IsPairAfter
<1>6. QED
  BY <1>3, <1>5 DEF n, m

LEMMA ListedOne ==
  ASSUME NEW V, NEW x \in V
  PROVE  <<x>> \in Seq(V) /\ Len(<<x>>) = 1 /\ <<x>>[1] = x
OBVIOUS

LEMMA ListedPair ==
  ASSUME NEW V, NEW x \in V, NEW y \in V
  PROVE  <<x, y>> \in Seq(V) /\ Len(<<x, y>>) = 2 /\ <<x, y>>[1] = x /\ <<x, y>>[2] = y
OBVIOUS

LEMMA ListedTriple ==
  ASSUME NEW V, NEW x \in V, NEW y \in V, NEW z \in V
  PROVE  /\ <<x, y, z>> \in Seq(V) /\ Len(<<x, y, z>>) = 3
         /\ <<x, y, z>>[1] = x /\ <<x, y, z>>[2] = y /\ <<x, y, z>>[3] = z
OBVIOUS

IsPairOf(u, s, n) == Len(u) = 2 /\ u[1] = s[n] /\ u[2] = s[n + 1]

LEMMA TakenPair ==
  ASSUME NEW V, NEW s \in Seq(V), Len(s) = 7
  PROVE  SubSeq(s, 4, 5) \in Seq(V) /\ IsPairOf(SubSeq(s, 4, 5), s, 4)
BY DEF IsPairOf

LEMMA LayersAreGraded ==
  ASSUME NEW V, NEW files \in Seq(V), \A facts \in V : IsTyped(facts),
         NEW layers, layers = Layers(files)
  PROVE  /\ Len(layers) = 7 /\ DOMAIN layers = 1 .. 7
         /\ \A n \in 1 .. 7 : IsGraded(layers[n].edges)
         /\ LET scoped == <<layers[2]>> \o SubSeq(layers, 4, 5)
            IN  /\ Len(scoped) = 3 /\ DOMAIN scoped = 1 .. 3
                /\ scoped[1] = layers[2] /\ scoped[2] = layers[4] /\ scoped[3] = layers[5]
<1> DEFINE a == SymbolTable(files)
           b == ScopeGraph(files)
           c == TierOf(files, BridgeEdges)
           d == TierOf(files, ConformanceEdges)
           e == TierOf(files, LocalTypedEdges)
           f == TierOf(files, ExternalEdges)
           g == TierOf(files, FoldedEdges)
<1>1. layers = <<a, b, c>> \o <<d, e>> \o <<f, g>>
  BY Zenon DEF Layers, Supplements
<1>2. /\ IsGraded(a.edges) /\ IsGraded(b.edges) /\ IsGraded(c.edges) /\ IsGraded(d.edges)
      /\ IsGraded(e.edges) /\ IsGraded(f.edges) /\ IsGraded(g.edges)
  BY NameTier, ScopeIsGraded, BridgeTier, ConformanceTier, LocalTypedTier, ExternalTier,
     FoldedTier
<1> HIDE DEF a, b, c, d, e, f, g
<1> DEFINE S == {a, b, c, d, e, f, g}
           first == <<a, b, c>>
           second == <<d, e>>
           third == <<f, g>>
           joined == first \o second
<1>3. /\ first \in Seq(S) /\ Len(first) = 3
      /\ first[1] = a /\ first[2] = b /\ first[3] = c
      /\ second \in Seq(S) /\ Len(second) = 2 /\ second[1] = d /\ second[2] = e
      /\ third \in Seq(S) /\ Len(third) = 2 /\ third[1] = f /\ third[2] = g
  <2>1. /\ a \in S /\ b \in S /\ c \in S /\ d \in S
        /\ e \in S /\ f \in S /\ g \in S
    OBVIOUS
  <2> HIDE DEF S
  <2>2. QED
    BY <2>1, ListedPair, ListedTriple
<1>4. layers = joined \o third
  BY <1>1
<1> HIDE DEF S, first, second, third
<1>5. joined \in Seq(S) /\ IsPairAfter(joined, first, 3, second)
  BY <1>3, PairAfter
<1> HIDE DEF joined
<1>6. /\ Len(joined) = 5
      /\ joined[1] = a /\ joined[2] = b /\ joined[3] = c /\ joined[4] = d /\ joined[5] = e
  BY <1>3, <1>5 DEF IsPairAfter
<1>7. layers \in Seq(S) /\ IsPairAfter(layers, joined, 5, third)
  BY <1>3, <1>4, <1>5, <1>6, PairAfter
<1>8. /\ Len(layers) = 7 /\ DOMAIN layers = 1 .. 7
      /\ layers[1] = a /\ layers[2] = b /\ layers[3] = c /\ layers[4] = d
      /\ layers[5] = e /\ layers[6] = f /\ layers[7] = g
  BY <1>3, <1>6, <1>7 DEF IsPairAfter
<1>9. \A n \in 1 .. 7 : IsGraded(layers[n].edges)
  BY <1>2, <1>8
<1> DEFINE pair == SubSeq(layers, 4, 5)
           head == <<layers[2]>>
           scoped == head \o pair
<1>10. pair \in Seq(S) /\ IsPairOf(pair, layers, 4)
  BY <1>7, <1>8, TakenPair
<1> HIDE DEF pair
<1>11. head \in Seq(S) /\ Len(head) = 1 /\ head[1] = layers[2]
  <2>1. layers[2] = b /\ b \in S
    BY <1>8 DEF S
  <2>2. QED
    BY <2>1, ListedOne
<1> HIDE DEF head
<1>12. IsPairAfter(scoped, head, 1, pair)
  BY <1>10, <1>11, PairAfter DEF IsPairOf
<1> HIDE DEF scoped
<1>13. /\ Len(scoped) = 3 /\ DOMAIN scoped = 1 .. 3
       /\ scoped[1] = layers[2] /\ scoped[2] = layers[4] /\ scoped[3] = layers[5]
  BY <1>10, <1>11, <1>12 DEF IsPairAfter, IsPairOf
<1>14. QED
  BY <1>8, <1>9, <1>13 DEF scoped, head, pair

\* The union of graded graphs keeps the best of their edges.
EdgesIn(graphs) == FlattenSeq([i \in DOMAIN graphs |-> graphs[i].edges])

LEMMA GradedUnion ==
  ASSUME NEW n \in Nat, NEW graphs, Len(graphs) = n, DOMAIN graphs = 1 .. n,
         \A i \in 1 .. n : IsGraded(graphs[i].edges)
  PROVE  /\ IsUnion(MergeGraphs(graphs).edges, EdgesIn(graphs))
         /\ Range(EdgesIn(graphs)) = UNION {Range(graphs[i].edges) : i \in 1 .. n}
<1> DEFINE V == UNION {Range(graphs[i].edges) : i \in 1 .. n}
           lists == [i \in DOMAIN graphs |-> graphs[i].edges]
<1>1. ASSUME NEW i \in DOMAIN graphs PROVE graphs[i].edges \in Seq(V)
  <2>1. /\ graphs[i].edges \in Seq(Range(graphs[i].edges))
        /\ Range(graphs[i].edges) \subseteq V
    BY DEF IsGraded
  <2> HIDE DEF V
  <2>2. QED
    BY <2>1
<1>2. \A x \in V : x.confidence \in Range(Confidences)
  BY DEF IsGraded
<1> HIDE DEF V
<1>3. IsUnion(MergeGraphs(graphs).edges, FlattenSeq(lists))
  BY <1>1, <1>2, UnionKeepsTheBest
<1>4. lists = [i \in 1 .. n |-> lists[i]] /\ \A i \in 1 .. n : lists[i] = graphs[i].edges
  OBVIOUS
<1> HIDE DEF lists
<1>5. Range(FlattenSeq(lists)) = UNION {Range(lists[i]) : i \in 1 .. n}
  BY <1>4, FlattenedIsGraded
<1>6. Range(FlattenSeq(lists)) = UNION {Range(graphs[i].edges) : i \in 1 .. n}
  BY <1>4, <1>5
<1>7. QED
  BY <1>3, <1>6 DEF lists, EdgesIn

(***************************************************************************)
(* The tiers of a project.                                                 *)
(***************************************************************************)

\* Which files and references have been given.
IsGivenProject(given) ==
  /\ given = [files |-> given.files, uses |-> given.uses]
  /\ given.files \in SUBSET (DOMAIN FilePool) /\ given.uses \in SUBSET (DOMAIN UsePool)

ProjectInv == input.kind = "files" => IsGivenProject(input.given)

LEMMA ReferencesReplaced ==
  ASSUME NEW facts, facts = [part \in DOMAIN facts |-> facts[part]],
         "references" \in DOMAIN facts, IsTyped(facts),
         NEW V, NEW references \in Seq(V), NEW other,
         other = [facts EXCEPT !.references = references]
  PROVE  IsTyped(other)
<1>1. /\ other.references = references /\ other.symbols = facts.symbols
      /\ other.bindings = facts.bindings /\ other.exports = facts.exports
  OBVIOUS
<1>2. references \in Seq(Range(references))
  BY DEF Range
<1>3. QED
  BY <1>1, <1>2 DEF IsTyped

LEMMA ProjectIsTyped ==
  ASSUME input.kind = "files", ProjectInv
  PROVE  \E V : Project \in Seq(V) /\ \A facts \in V : IsTyped(facts)
<1> DEFINE given == input.given
           own == EntriesAt(FilePool, given.files)
           uses == EntriesAt(UsePool, given.uses)
           user == [UserFile EXCEPT !.references = uses]
           V == Range(FilePool) \cup {user}
<1>1. given.files \in SUBSET (DOMAIN FilePool) /\ given.uses \in SUBSET (DOMAIN UsePool)
  BY DEF ProjectInv, IsGivenProject
<1>2. FilePool \in Seq(Range(FilePool)) /\ UsePool \in Seq(Range(UsePool))
  BY FileAssumption
<1>3. own \in Seq(Range(FilePool)) /\ uses \in Seq(Range(UsePool))
  BY <1>1, <1>2, EntriesChosen
<1> HIDE DEF own, uses
<1>4. IsTyped(user)
  BY <1>3, ReferencesReplaced, FileAssumption
<1>5. Project = Append(own, user)
  BY DEF Project, own, uses
<1>6. \A facts \in V : IsTyped(facts)
  BY <1>4, FileAssumption
<1>7. Range(FilePool) \subseteq V /\ user \in V
  OBVIOUS
<1> HIDE DEF V, user
<1>8. own \in Seq(V)
  BY <1>3, <1>7
<1>9. Append(own, user) \in Seq(V)
  BY <1>7, <1>8
<1>10. QED
  BY <1>5, <1>6, <1>9

LEMMA TiersKeepTheBest == ProjectInv => MergeKeepsTheBest
<1> SUFFICES ASSUME ProjectInv, input.kind = "files"
             PROVE  \A layers \in {Layers(Project)} :
                      \A given \in {FlattenSeq([n \in DOMAIN layers |-> layers[n].edges])} :
                        \A dense \in {MergeGraphs(layers).edges} :
                          \A scoped \in {SupplementScopedGraph(layers[2],
                                                               SubSeq(layers, 4, 5)).edges} :
                            /\ IsUnion(dense, given)
                            /\ \A e \in Range(scoped) : AsGood(e, dense)
  BY Zenon DEF MergeKeepsTheBest
<1> DEFINE layers == Layers(Project)
           given == EdgesIn(layers)
           dense == MergeGraphs(layers).edges
           three == <<layers[2]>> \o SubSeq(layers, 4, 5)
           few == EdgesIn(three)
           scoped == MergeGraphs(three).edges
<1>1. PICK V : Project \in Seq(V) /\ \A facts \in V : IsTyped(facts)
  BY ProjectIsTyped
<1>2. /\ Len(layers) = 7 /\ DOMAIN layers = 1 .. 7
      /\ \A n \in 1 .. 7 : IsGraded(layers[n].edges)
      /\ Len(three) = 3 /\ DOMAIN three = 1 .. 3
      /\ three[1] = layers[2] /\ three[2] = layers[4] /\ three[3] = layers[5]
  BY <1>1, LayersAreGraded
<1>3. scoped = SupplementScopedGraph(layers[2], SubSeq(layers, 4, 5)).edges
  BY DEF SupplementScopedGraph
<1> HIDE DEF layers, three
<1>4. \A n \in 1 .. 3 : IsGraded(three[n].edges)
  <2>1. \A n \in 1 .. 3 : n = 1 \/ n = 2 \/ n = 3
    OBVIOUS
  <2>2. QED
    BY <1>2, <2>1
<1>5. /\ IsUnion(dense, given)
      /\ Range(given) = UNION {Range(layers[n].edges) : n \in 1 .. 7}
  BY <1>2, GradedUnion
<1>6. /\ IsUnion(scoped, few)
      /\ Range(few) = UNION {Range(three[n].edges) : n \in 1 .. 3}
  BY <1>2, <1>4, GradedUnion
<1> HIDE DEF given, few, dense, scoped
<1>7. Range(scoped) \subseteq Range(given)
  <2>1. Range(scoped) \subseteq Range(few)
    BY <1>6 DEF IsUnion
  <2>2. ASSUME NEW n \in 1 .. 3 PROVE Range(three[n].edges) \subseteq Range(given)
    <3>1. \E m \in 1 .. 7 : three[n] = layers[m]
      <4>1. n = 1 \/ n = 2 \/ n = 3
        OBVIOUS
      <4>2. 2 \in 1 .. 7 /\ 4 \in 1 .. 7 /\ 5 \in 1 .. 7
        OBVIOUS
      <4>3. QED
        BY <1>2, <4>1, <4>2
    <3>2. QED
      BY <1>5, <3>1
  <2>3. QED
    BY <1>6, <2>1, <2>2
<1>8. \A e \in Range(scoped) : AsGood(e, dense)
  BY <1>5, <1>7 DEF IsUnion
<1>9. IsUnion(dense, given) /\ \A e \in Range(scoped) : AsGood(e, dense)
  BY <1>5, <1>8
<1>10. QED
  BY <1>3, <1>9, Zenon DEF layers, given, dense, EdgesIn

(***************************************************************************)
(* For any files and references, in whatever tiers answer them: the union  *)
(* forgets no fact and invents none, gives each the greatest confidence,   *)
(* and has all that the scope tier persists (merge_graphs and              *)
(* supplement_scoped_graph, layered.rs).                                   *)
(***************************************************************************)
THEOREM MergeAlwaysKeepsTheBest == RefreshSpec => []MergeKeepsTheBest
<1>1. input \in RefreshInputs => ProjectInv
  <2> SUFFICES ASSUME input \in RefreshInputs, input.kind = "files"
               PROVE  IsGivenProject(input.given)
    BY DEF ProjectInv
  <2> DEFINE start == [files |-> {}, uses |-> {}]
  <2>1. input = Begin("files", start)
    BY DEF RefreshInputs, Begin
  <2>2. input.given = start
    BY <2>1 DEF Begin
  <2>3. QED
    BY <2>2 DEF IsGivenProject
<1>2. ProjectInv /\ [RefreshNext]_input => ProjectInv'
  <2> SUFFICES ASSUME ProjectInv, [RefreshNext]_input, input'.kind = "files"
               PROVE  IsGivenProject(input'.given)
    BY DEF ProjectInv, IsGivenProject
  <2>1. CASE AddFile
    <3>1. PICK n \in DOMAIN FilePool :
            input' = Begin("files", [input.given EXCEPT !.files = @ \cup {n}])
      BY <2>1 DEF AddFile, Give
    <3>2. IsGivenProject(input.given)
      BY <2>1 DEF AddFile, ProjectInv
    <3>3. input'.given = [input.given EXCEPT !.files = @ \cup {n}]
      BY <3>1 DEF Begin
    <3>4. QED
      BY <3>2, <3>3 DEF IsGivenProject
  <2>2. CASE AddUse
    <3>1. PICK n \in DOMAIN UsePool :
            input' = Begin("files", [input.given EXCEPT !.uses = @ \cup {n}])
      BY <2>2 DEF AddUse, Give
    <3>2. IsGivenProject(input.given)
      BY <2>2 DEF AddUse, ProjectInv
    <3>3. input'.given = [input.given EXCEPT !.uses = @ \cup {n}]
      BY <3>1 DEF Begin
    <3>4. QED
      BY <3>2, <3>3 DEF IsGivenProject
  <2>3. CASE AddFact \/ AddManifest \/ AddCandidate \/ RefreshTree \/ DamageUnit
    <3>1. \E kind \in {"facts", "package", "budget", "refresh"} : \E given :
            input' = Begin(kind, given)
      BY <2>3, Zenon DEF AddFact, AddManifest, AddCandidate, RefreshTree, DamageUnit, Give
    <3>2. input'.kind # "files"
      BY <3>1 DEF Begin
    <3>3. QED
      BY <3>2
  <2>4. CASE UNCHANGED input
    BY <2>4 DEF ProjectInv
  <2>5. QED
    BY <2>1, <2>2, <2>3, <2>4 DEF RefreshNext
<1>3. ProjectInv => MergeKeepsTheBest
  BY TiersKeepTheBest
<1>4. QED
  BY <1>1, <1>2, <1>3, PTL DEF RefreshSpec

(***************************************************************************)
(* The package of a source.                                                *)
(***************************************************************************)
LEMMA SmallestOf ==
  ASSUME NEW S \in SUBSET Nat, S # {}
  PROVE  Min(S) \in S /\ \A n \in S : Min(S) <= n
<1>1. \E n \in S : \A m \in S : n <= m
  BY LeastNumber
<1>2. QED
  BY <1>1 DEF Min

IsDirectory(dir) == dir \in Seq(Range(dir))

\* A set of directories with every directory above one of its own.
IsClimbed(directories) ==
  \A dir \in directories : /\ IsDirectory(dir)
                           /\ \A n \in 0 .. Len(dir) : SubSeq(dir, 1, n) \in directories

LEMMA Above ==
  ASSUME NEW V, NEW dir \in Seq(V), NEW n \in 0 .. Len(dir)
  PROVE  /\ SubSeq(dir, 1, n) \in Seq(Range(SubSeq(dir, 1, n)))
         /\ Len(SubSeq(dir, 1, n)) = n
         /\ \A m \in 0 .. n : SubSeq(SubSeq(dir, 1, n), 1, m) = SubSeq(dir, 1, m)
         /\ SubSeq(dir, 1, Len(dir)) = dir
<1> DEFINE above == SubSeq(dir, 1, n)
<1>1. above \in Seq(V) /\ Len(above) = n /\ \A i \in 1 .. n : above[i] = dir[i]
  OBVIOUS
<1>2. SubSeq(dir, 1, Len(dir)) = dir
  OBVIOUS
<1>3. DOMAIN above = 1 .. n /\ above = [i \in 1 .. n |-> above[i]]
  BY <1>1
<1> HIDE DEF above
<1>4. above \in Seq(Range(above))
  BY <1>1, <1>3, ListOver
<1>5. ASSUME NEW m \in 0 .. n PROVE SubSeq(above, 1, m) = SubSeq(dir, 1, m)
  BY <1>1
<1>6. QED
  BY <1>1, <1>2, <1>4, <1>5 DEF above

LEMMA ClimbRecords ==
  ASSUME NEW directories, IsClimbed(directories), NEW dir, IsDirectory(dir)
  PROVE  /\ IsClimbed(RecordAncestry(directories, dir))
         /\ directories \subseteq RecordAncestry(directories, dir)
         /\ Range(Ancestry(dir)) \subseteq RecordAncestry(directories, dir)
<1> DEFINE up == Len(dir) + 1
           Place(n) == SubSeq(dir, 1, up - n)
           new == {n \in 1 .. up : \A m \in 1 .. n : Place(m) \notin directories}
           after == RecordAncestry(directories, dir)
<1>1. PICK V : dir \in Seq(V)
  BY DEF IsDirectory
<1>2. up \in Nat /\ up = Len(dir) + 1 /\ Len(dir) \in Nat
  BY <1>1
<1>3. Ancestry(dir) = [n \in 1 .. up |-> Place(n)]
  BY DEF Ancestry
<1>4. after = directories \cup {Place(n) : n \in new}
  <2> DEFINE chain == Ancestry(dir)
             found == {n \in DOMAIN chain : \A m \in 1 .. n : chain[m] \notin directories}
  <2>1. after = directories \cup {chain[n] : n \in found}
    BY DEF RecordAncestry
  <2> HIDE DEF after
  <2>2. DOMAIN chain = 1 .. up /\ \A n \in 1 .. up : chain[n] = Place(n)
    BY <1>3
  <2> HIDE DEF chain, Place, up
  <2>3. \A n \in 1 .. up : \A m \in 1 .. n : m \in 1 .. up
    BY <1>2
  <2>4. \A n : n \in found <=> n \in new
    BY <2>2, <2>3
  <2>5. \A n \in new : n \in 1 .. up
    OBVIOUS
  <2> HIDE DEF found, new
  <2>6. QED
    BY <2>1, <2>2, <2>4, <2>5
<1>5. \A n \in 1 .. up : /\ Place(n) \in Seq(Range(Place(n)))
                         /\ Len(Place(n)) = up - n
                         /\ \A m \in n .. up : SubSeq(Place(n), 1, up - m) = Place(m)
  <2> SUFFICES ASSUME NEW n \in 1 .. up
               PROVE  /\ Place(n) \in Seq(Range(Place(n)))
                      /\ Len(Place(n)) = up - n
                      /\ \A m \in n .. up : SubSeq(Place(n), 1, up - m) = Place(m)
    OBVIOUS
  <2>1. up - n \in 0 .. Len(dir) /\ \A m \in n .. up : up - m \in 0 .. up - n
    BY <1>2
  <2> HIDE DEF up
  <2>2. QED
    BY <1>1, <2>1, Above
<1> HIDE DEF after, up
<1>6. ASSUME NEW n \in 1 .. up PROVE Place(n) \in after
  <2> DEFINE met == {m \in 1 .. n : Place(m) \in directories}
  <2>1. CASE met = {}
    <3>1. n \in new
      BY <1>2, <2>1
    <3>2. QED
      BY <1>4, <3>1
  <2>2. CASE met # {}
    <3>1. PICK m \in 1 .. n : Place(m) \in directories
      BY <2>2
    <3>2. m \in 1 .. up /\ n \in m .. up /\ up - n \in 0 .. up - m
      BY <1>2, <3>1
    <3>3. Len(Place(m)) = up - m /\ SubSeq(Place(m), 1, up - n) = Place(n)
      BY <1>5, <3>2
    <3> HIDE DEF Place
    <3>4. Place(n) \in directories
      BY <3>1, <3>2, <3>3 DEF IsClimbed
    <3>5. QED
      BY <1>4, <3>4
  <2>3. QED
    BY <2>1, <2>2
<1>7. Range(Ancestry(dir)) \subseteq after
  <2> HIDE DEF Place
  <2>1. QED
    BY <1>3, <1>6 DEF Range
<1>8. ASSUME NEW d \in after, NEW k \in 0 .. Len(d)
      PROVE  IsDirectory(d) /\ SubSeq(d, 1, k) \in after
  <2>1. CASE d \in directories
    BY <1>4, <1>8, <2>1 DEF IsClimbed
  <2>2. CASE d \notin directories
    <3>1. PICK n \in 1 .. up : d = Place(n)
      BY <1>4, <2>2
    <3> HIDE DEF Place
    <3>2. Len(d) = up - n /\ IsDirectory(d)
      BY <1>5, <3>1 DEF IsDirectory
    <3>3. up - k \in n .. up /\ up - (up - k) = k /\ up - k \in 1 .. up
      BY <1>2, <3>2
    <3>4. SubSeq(d, 1, k) = Place(up - k)
      BY <1>5, <3>1, <3>3
    <3>5. QED
      BY <1>6, <3>2, <3>3, <3>4
  <2>3. QED
    BY <2>1, <2>2
<1>9. IsClimbed(after)
  <2>1. ASSUME NEW d \in after PROVE IsDirectory(d)
    <3>1. CASE d \in directories
      BY <3>1 DEF IsClimbed
    <3>2. CASE d \notin directories
      BY <1>4, <1>5, <3>2 DEF IsDirectory
    <3>3. QED
      BY <3>1, <3>2
  <2>2. QED
    BY <1>8, <2>1 DEF IsClimbed
<1>10. directories \subseteq after
  BY <1>4
<1>11. QED
  BY <1>7, <1>9, <1>10 DEF after

\* Though each climb stops where another has been, no directory above a source is missed.
LEMMA CandidatesCover ==
  ASSUME NEW V, NEW sources \in Seq(V), \A dir \in Range(sources) : IsDirectory(dir),
         NEW i \in DOMAIN sources, NEW n \in 0 .. Len(sources[i]),
         NEW name \in Range(ManifestNames)
  PROVE  <<SubSeq(sources[i], 1, n), name>> \in CandidatePaths(sources)
<1> DEFINE top == Len(sources)
           Climbs(g, m) == g = [k \in 0 .. m |-> IF k = 0 THEN {}
                                                 ELSE RecordAncestry(g[k - 1], sources[k])]
           T == {m \in 0 .. top : \E g : Climbs(g, m)}
           directories[k \in 0 .. top] ==
             IF k = 0 THEN {} ELSE RecordAncestry(directories[k - 1], sources[k])
<1>1. top \in Nat /\ DOMAIN sources = 1 .. top /\ \A k \in 1 .. top : IsDirectory(sources[k])
  BY DEF Range
<1>2. CandidatePaths(sources) = directories[top] \X Range(ManifestNames)
  BY DEF CandidatePaths
<1> HIDE DEF top
<1>3. 0 \in T
  <2>1. Climbs([k \in 0 .. 0 |-> {}], 0)
    OBVIOUS
  <2> HIDE DEF Climbs
  <2>2. \E g : Climbs(g, 0)
    BY <2>1
  <2>3. QED
    BY <1>1, <2>2
<1>4. ASSUME NEW m \in 1 .. top, m - 1 \in T PROVE m \in T
  <2>1. PICK g : Climbs(g, m - 1)
    BY <1>4
  <2> DEFINE h == [k \in 0 .. m |-> IF k # m THEN g[k] ELSE RecordAncestry(g[m - 1], sources[m])]
  <2>2. ASSUME NEW k \in 0 .. m
        PROVE  h[k] = IF k = 0 THEN {} ELSE RecordAncestry(h[k - 1], sources[k])
    <3>1. CASE k = m
      <4>1. h[m - 1] = g[m - 1] /\ m # 0
        BY <1>1
      <4>2. QED
        BY <3>1, <4>1
    <3>2. CASE k # m
      <4>1. k \in 0 .. m - 1 /\ (k # 0 => k - 1 \in 0 .. m /\ k - 1 # m)
        BY <1>1, <3>2
      <4>2. g[k] = IF k = 0 THEN {} ELSE RecordAncestry(g[k - 1], sources[k])
        BY <2>1, <4>1
      <4>3. QED
        BY <3>2, <4>1, <4>2
    <3>3. QED
      BY <3>1, <3>2
  <2>3. Climbs(h, m)
    <3>1. DOMAIN h = 0 .. m /\ h = [k \in DOMAIN h |-> h[k]]
      OBVIOUS
    <3> HIDE DEF h
    <3>2. QED
      BY <2>2, <3>1
  <2> HIDE DEF Climbs, h
  <2>4. \E k : Climbs(k, m)
    BY <2>3
  <2>5. QED
    BY <1>1, <2>4
<1> HIDE DEF T
<1>5. top \in T
  BY <1>1, <1>3, <1>4, InductionUpTo
<1>6. directories = [k \in 0 .. top |->
                       IF k = 0 THEN {} ELSE RecordAncestry(directories[k - 1], sources[k])]
  BY <1>5 DEF T
<1> HIDE DEF directories
<1> DEFINE Done == {m \in 0 .. top :
                      /\ IsClimbed(directories[m])
                      /\ \A j \in 1 .. m : Range(Ancestry(sources[j])) \subseteq directories[m]}
<1>7. 0 \in Done
  <2>1. directories[0] = {} /\ 0 \in 0 .. top
    BY <1>1, <1>6
  <2>2. QED
    BY <2>1 DEF IsClimbed
<1>8. ASSUME NEW m \in 1 .. top, m - 1 \in Done PROVE m \in Done
  <2>1. directories[m] = RecordAncestry(directories[m - 1], sources[m]) /\ m \in 0 .. top
    <3> HIDE DEF Done
    <3>1. m \in 0 .. top /\ m # 0
      BY <1>1
    <3>2. directories[m] = IF m = 0 THEN {} ELSE RecordAncestry(directories[m - 1], sources[m])
      BY <1>6, <3>1
    <3>3. QED
      BY <3>1, <3>2
  <2>2. /\ IsClimbed(directories[m])
        /\ directories[m - 1] \subseteq directories[m]
        /\ Range(Ancestry(sources[m])) \subseteq directories[m]
    <3>1. IsClimbed(directories[m - 1]) /\ IsDirectory(sources[m])
      <4>1. IsClimbed(directories[m - 1])
        BY <1>8
      <4>2. QED
        BY <1>1, <4>1
    <3> DEFINE before == directories[m - 1]
               after == RecordAncestry(before, sources[m])
    <3>2. /\ IsClimbed(after) /\ before \subseteq after
          /\ Range(Ancestry(sources[m])) \subseteq after
      <4> HIDE DEF before
      <4>1. IsClimbed(before)
        BY <3>1 DEF before
      <4>2. QED
        BY <3>1, <4>1, ClimbRecords
    <3>3. QED
      BY <2>1, <3>2
  <2>3. \A j \in 1 .. m : j = m \/ j \in 1 .. m - 1
    OBVIOUS
  <2>4. \A j \in 1 .. m : Range(Ancestry(sources[j])) \subseteq directories[m]
    BY <1>8, <2>2, <2>3
  <2>5. QED
    BY <2>1, <2>2, <2>4
<1>9. top \in Done
  <2> HIDE DEF Done
  <2>1. QED
    BY <1>1, <1>7, <1>8, InductionUpTo
<1>10. Range(Ancestry(sources[i])) \subseteq directories[top]
  BY <1>1, <1>9
<1>11. SubSeq(sources[i], 1, n) \in Range(Ancestry(sources[i]))
  <2> DEFINE dir == sources[i]
             place == Len(dir) + 1 - n
  <2>1. Len(dir) \in Nat
    BY <1>1 DEF IsDirectory
  <2>2. place \in 1 .. Len(dir) + 1 /\ Len(dir) + 1 - place = n
    BY <2>1
  <2> HIDE DEF place, dir
  <2>3. place \in DOMAIN Ancestry(dir) /\ Ancestry(dir)[place] = SubSeq(dir, 1, n)
    BY <2>2 DEF Ancestry
  <2>4. SubSeq(dir, 1, n) \in Range(Ancestry(dir))
    BY <2>3 DEF Range
  <2>5. QED
    BY <2>4 DEF dir
<1>12. QED
  BY <1>2, <1>10, <1>11

\* The nearest manifest, of all that lie in a directory above the source.
LEMMA NearestIsSelected ==
  ASSUME NEW dir, IsDirectory(dir), NEW manifests,
         NEW owner, owner = SelectPackage(dir, manifests)
  PROVE  /\ owner = <<>> =>
              \A n \in 0 .. Len(dir), name \in Range(ManifestNames) :
                LET path == <<SubSeq(dir, 1, n), name>>
                IN  ~(path \in DOMAIN manifests /\ manifests[path] = "Parsed")
         /\ owner # <<>> =>
              \E n \in 0 .. Len(dir), place \in DOMAIN ManifestNames :
                /\ owner[1] = <<SubSeq(dir, 1, n), ManifestNames[place]>>
                /\ owner[1] \in DOMAIN manifests /\ manifests[owner[1]] = "Parsed"
                /\ \A m \in 0 .. Len(dir), other \in DOMAIN ManifestNames :
                     LET path == <<SubSeq(dir, 1, m), ManifestNames[other]>>
                     IN  path \in DOMAIN manifests /\ manifests[path] = "Parsed" =>
                           m < n \/ (m = n /\ place <= other)
<1> DEFINE top == Len(dir) + 1
           chain == Ancestry(dir)
           IsParsed(path) == path \in DOMAIN manifests /\ manifests[path] = "Parsed"
           Parsed(n) == {m \in DOMAIN ManifestNames : IsParsed(<<chain[n], ManifestNames[m]>>)}
           holding == {n \in DOMAIN chain : Parsed(n) # {}}
           near == Min(holding)
           first == Min(Parsed(near))
<1>1. owner = IF holding = {} THEN <<>> ELSE <<<<chain[near], ManifestNames[first]>>>>
  BY DEF SelectPackage
<1>2. Len(dir) \in Nat /\ top = Len(dir) + 1
  BY DEF IsDirectory
<1>3. DOMAIN chain = 1 .. top /\ \A n \in 1 .. top : chain[n] = SubSeq(dir, 1, top - n)
  BY DEF Ancestry
<1>4. \A n \in 0 .. Len(dir) : top - n \in 1 .. top /\ chain[top - n] = SubSeq(dir, 1, n)
  <2> SUFFICES ASSUME NEW n \in 0 .. Len(dir)
               PROVE  top - n \in 1 .. top /\ chain[top - n] = SubSeq(dir, 1, n)
    OBVIOUS
  <2>1. top - n \in 1 .. top /\ top - (top - n) = n
    BY <1>2
  <2> HIDE DEF top, chain
  <2>2. QED
    BY <1>3, <2>1
<1> HIDE DEF top, chain, IsParsed
<1>5. DOMAIN ManifestNames = 1 .. 4
  BY DEF ManifestNames
<1>6. ASSUME NEW m \in 0 .. Len(dir), NEW other \in DOMAIN ManifestNames,
             IsParsed(<<SubSeq(dir, 1, m), ManifestNames[other]>>)
      PROVE  top - m \in holding /\ other \in Parsed(top - m)
  BY <1>3, <1>4, <1>6
<1>7. CASE holding = {}
  <2>1. ASSUME NEW n \in 0 .. Len(dir), NEW name \in Range(ManifestNames)
        PROVE  ~IsParsed(<<SubSeq(dir, 1, n), name>>)
    <3>1. PICK other \in DOMAIN ManifestNames : ManifestNames[other] = name
      BY DEF Range
    <3>2. QED
      BY <1>6, <1>7, <3>1
  <2>2. owner = <<>>
    BY <1>1, <1>7
  <2>3. QED
    BY <2>1, <2>2 DEF IsParsed
<1>8. CASE holding # {}
  <2>1. near \in holding /\ \A n \in holding : near <= n
    <3>1. holding \in SUBSET Nat
      BY <1>3
    <3> HIDE DEF holding
    <3>2. QED
      BY <1>8, <3>1, SmallestOf
  <2>2. near \in 1 .. top
    BY <1>3, <2>1
  <2> HIDE DEF near
  <2>3. first \in Parsed(near) /\ \A m \in Parsed(near) : first <= m
    <3>1. Parsed(near) \in SUBSET Nat /\ Parsed(near) # {}
      BY <1>5, <2>1
    <3> HIDE DEF Parsed
    <3>2. QED
      BY <3>1, SmallestOf
  <2> DEFINE n == top - near
  <2>4. n \in 0 .. Len(dir) /\ top - n = near
    BY <1>2, <2>2
  <2>5. owner[1] = <<SubSeq(dir, 1, n), ManifestNames[first]>> /\ owner # <<>>
    BY <1>1, <1>3, <1>8, <2>2
  <2>6. first \in DOMAIN ManifestNames /\ IsParsed(owner[1])
    BY <1>3, <2>2, <2>3, <2>5
  <2> HIDE DEF first, n
  <2>7. ASSUME NEW m \in 0 .. Len(dir), NEW other \in DOMAIN ManifestNames,
               IsParsed(<<SubSeq(dir, 1, m), ManifestNames[other]>>)
        PROVE  m < n \/ (m = n /\ first <= other)
    <3>1. top - m \in holding /\ other \in Parsed(top - m)
      BY <1>6, <2>7
    <3>2. near <= top - m
      BY <2>1, <3>1
    <3>3. top - m = near => first <= other
      BY <2>3, <3>1
    <3>4. near \in Nat /\ top \in Nat
      BY <1>2, <2>2
    <3>5. QED
      BY <2>4, <3>2, <3>3, <3>4
  <2>8. QED
    BY <2>4, <2>5, <2>6, <2>7 DEF IsParsed
<1>9. QED
  BY <1>7, <1>8

\* Reading only the manifests that may own a source changes the owner of none.
LEMMA OwnerIsNearest ==
  ASSUME NEW disk, DOMAIN disk \subseteq ManifestPool, NEW sources \in SourceLists,
         NEW i \in DOMAIN sources
  PROVE  LET owner == AssignPackages(disk, sources)[i]
             dir == sources[i]
             Parsed(p) == p \in DOMAIN disk /\ disk[p] = "Parsed" /\ IsPrefix(p[1], dir)
         IN  /\ owner = <<>> => \A p : ~Parsed(p)
             /\ owner # <<>> =>
                  /\ Parsed(owner[1])
                  /\ \E place \in DOMAIN ManifestNames :
                       /\ owner[1][2] = ManifestNames[place]
                       /\ \A p : Parsed(p) =>
                            \/ Len(owner[1][1]) > Len(p[1])
                            \/ /\ p[1] = owner[1][1]
                               /\ \E other \in DOMAIN ManifestNames :
                                    p[2] = ManifestNames[other] /\ place <= other
<1> DEFINE owner == AssignPackages(disk, sources)[i]
           dir == sources[i]
           manifests == ManifestsRead(disk, sources)
           Parsed(p) == p \in DOMAIN disk /\ disk[p] = "Parsed" /\ IsPrefix(p[1], dir)
<1>1. owner = SelectPackage(dir, manifests)
  BY DEF AssignPackages
<1>2. /\ sources \in Seq(Range(sources))
      /\ \A d \in Range(sources) : IsDirectory(d)
  BY DiscoveryAssumption DEF IsDirectory
<1>3. IsDirectory(dir)
  BY <1>2 DEF Range
<1>4. PICK V : dir \in Seq(V)
  BY <1>3 DEF IsDirectory
<1>5. \A path : path \in DOMAIN manifests =>
                  path \in DOMAIN disk /\ manifests[path] = disk[path]
  BY DEF ManifestsRead
<1>6. ASSUME NEW n \in 0 .. Len(dir), NEW name \in Range(ManifestNames),
             <<SubSeq(dir, 1, n), name>> \in DOMAIN disk
      PROVE  <<SubSeq(dir, 1, n), name>> \in DOMAIN manifests
  <2>1. <<SubSeq(sources[i], 1, n), name>> \in CandidatePaths(sources)
    BY <1>2, CandidatesCover
  <2>2. QED
    BY <1>6, <2>1 DEF ManifestsRead
<1> HIDE DEF owner, dir, manifests
<1>7. ASSUME NEW p, Parsed(p)
      PROVE  \E n \in 0 .. Len(dir), other \in DOMAIN ManifestNames :
               /\ p = <<SubSeq(dir, 1, n), ManifestNames[other]>> /\ Len(p[1]) = n
               /\ p[2] = ManifestNames[other] /\ p[1] = SubSeq(dir, 1, n)
               /\ p \in DOMAIN manifests /\ manifests[p] = "Parsed"
  <2>1. /\ p = <<p[1], p[2]>> /\ p[2] \in Range(ManifestNames)
        /\ p[1] \in Seq(Range(p[1]))
    BY <1>7, DiscoveryAssumption
  <2>2. PICK W : p[1] \in Seq(W)
    BY <2>1
  <2> DEFINE n == Len(p[1])
  <2>3. n \in 0 .. Len(dir) /\ p[1] = SubSeq(dir, 1, n)
    <3>1. n <= Len(dir) /\ SubSeq(p[1], 1, n) = SubSeq(dir, 1, n)
      BY <1>7 DEF IsPrefix
    <3>2. SubSeq(p[1], 1, n) = p[1] /\ n \in Nat /\ Len(dir) \in Nat
      BY <1>4, <2>2
    <3>3. QED
      BY <3>1, <3>2
  <2> HIDE DEF n
  <2>4. PICK other \in DOMAIN ManifestNames : p[2] = ManifestNames[other]
    BY <2>1 DEF Range
  <2>5. p = <<SubSeq(dir, 1, n), p[2]>>
    BY <2>1, <2>3
  <2>6. p \in DOMAIN manifests
    BY <1>6, <1>7, <2>1, <2>3, <2>5
  <2>7. manifests[p] = "Parsed"
    BY <1>5, <1>7, <2>6
  <2>8. QED
    BY <2>3, <2>4, <2>5, <2>6, <2>7 DEF n
<1>8. CASE owner = <<>>
  <2>1. \A n \in 0 .. Len(dir), name \in Range(ManifestNames) :
          ~(/\ <<SubSeq(dir, 1, n), name>> \in DOMAIN manifests
            /\ manifests[<<SubSeq(dir, 1, n), name>>] = "Parsed")
    BY <1>1, <1>3, <1>8, NearestIsSelected
  <2>2. ASSUME NEW p, Parsed(p) PROVE FALSE
    <3>1. PICK n \in 0 .. Len(dir), other \in DOMAIN ManifestNames :
               /\ p = <<SubSeq(dir, 1, n), ManifestNames[other]>>
               /\ p \in DOMAIN manifests /\ manifests[p] = "Parsed"
      BY <1>7, <2>2
    <3>2. ManifestNames[other] \in Range(ManifestNames)
      BY DEF Range
    <3>3. QED
      BY <2>1, <3>1, <3>2
  <2>3. QED
    BY <1>8, <2>2 DEF owner, dir
<1>9. CASE owner # <<>>
  <2>1. PICK n \in 0 .. Len(dir), place \in DOMAIN ManifestNames :
          /\ owner[1] = <<SubSeq(dir, 1, n), ManifestNames[place]>>
          /\ owner[1] \in DOMAIN manifests /\ manifests[owner[1]] = "Parsed"
          /\ \A m \in 0 .. Len(dir), other \in DOMAIN ManifestNames :
               LET path == <<SubSeq(dir, 1, m), ManifestNames[other]>>
               IN  path \in DOMAIN manifests /\ manifests[path] = "Parsed" =>
                     m < n \/ (m = n /\ place <= other)
    BY <1>1, <1>3, <1>9, NearestIsSelected
  <2> DEFINE own == owner[1]
  <2>2. own[1] = SubSeq(dir, 1, n) /\ own[2] = ManifestNames[place]
    BY <2>1
  <2>3. Len(own[1]) = n /\ SubSeq(own[1], 1, n) = own[1]
    <3>1. Len(SubSeq(dir, 1, n)) = n /\ SubSeq(SubSeq(dir, 1, n), 1, n) = SubSeq(dir, 1, n)
      BY <1>4, Above
    <3>2. QED
      BY <2>2, <3>1
  <2>4. Parsed(own)
    <3>1. IsPrefix(own[1], dir)
      BY <1>4, <2>2, <2>3 DEF IsPrefix
    <3>2. QED
      BY <1>5, <2>1, <3>1
  <2>5. ASSUME NEW p, Parsed(p)
        PROVE  \/ Len(own[1]) > Len(p[1])
               \/ /\ p[1] = own[1]
                  /\ \E other \in DOMAIN ManifestNames :
                       p[2] = ManifestNames[other] /\ place <= other
    <3>1. PICK m \in 0 .. Len(dir), other \in DOMAIN ManifestNames :
               /\ p = <<SubSeq(dir, 1, m), ManifestNames[other]>> /\ Len(p[1]) = m
               /\ p[2] = ManifestNames[other] /\ p[1] = SubSeq(dir, 1, m)
               /\ p \in DOMAIN manifests /\ manifests[p] = "Parsed"
      BY <1>7, <2>5
    <3>2. m < n \/ (m = n /\ place <= other)
      BY <2>1, <3>1
    <3>3. QED
      BY <2>2, <2>3, <3>1, <3>2
  <2> HIDE DEF own, Parsed
  <2>6. /\ Parsed(own)
        /\ \E at \in DOMAIN ManifestNames :
             /\ own[2] = ManifestNames[at]
             /\ \A p : Parsed(p) =>
                  \/ Len(own[1]) > Len(p[1])
                  \/ /\ p[1] = own[1]
                     /\ \E other \in DOMAIN ManifestNames :
                          p[2] = ManifestNames[other] /\ at <= other
    BY <2>2, <2>4, <2>5
  <2>7. QED
    BY <1>9, <2>6 DEF own, owner, dir, Parsed
<1>10. QED
  BY <1>8, <1>9 DEF owner, dir

PackageInv == input.kind = "package" => DOMAIN input.given \subseteq ManifestPool

LEMMA PackagesAreNearest ==
  ASSUME PackageInv
  PROVE  PackageIsNearest
<1> DEFINE disk == input.given
           Position(name) == CHOOSE n \in DOMAIN ManifestNames : ManifestNames[n] = name
           Nearer(p, q) == \/ Len(p[1]) > Len(q[1])
                           \/ p[1] = q[1] /\ Position(p[2]) <= Position(q[2])
           Around(dir) == {p \in DOMAIN disk : disk[p] = "Parsed" /\ IsPrefix(p[1], dir)}
<1>1. \A n \in DOMAIN ManifestNames : Position(ManifestNames[n]) = n
  BY DEF ManifestNames
<1> HIDE DEF disk, Position
<1>2. ASSUME input.kind = "package", NEW sources \in SourceLists, NEW n \in DOMAIN sources
      PROVE  LET owner == AssignPackages(disk, sources)[n]
             IN  IF owner = <<>> THEN Around(sources[n]) = {}
                 ELSE /\ owner[1] \in Around(sources[n])
                      /\ \A p \in Around(sources[n]) : Nearer(owner[1], p)
  <2> DEFINE owner == AssignPackages(disk, sources)[n]
             Parsed(p) == p \in DOMAIN disk /\ disk[p] = "Parsed" /\ IsPrefix(p[1], sources[n])
  <2>1. DOMAIN disk \subseteq ManifestPool
    BY <1>2 DEF PackageInv, disk
  <2>2. /\ owner = <<>> => \A p : ~Parsed(p)
        /\ owner # <<>> =>
             /\ Parsed(owner[1])
             /\ \E place \in DOMAIN ManifestNames :
                  /\ owner[1][2] = ManifestNames[place]
                  /\ \A p : Parsed(p) =>
                       \/ Len(owner[1][1]) > Len(p[1])
                       \/ /\ p[1] = owner[1][1]
                          /\ \E other \in DOMAIN ManifestNames :
                               p[2] = ManifestNames[other] /\ place <= other
    BY <2>1, OwnerIsNearest
  <2> HIDE DEF owner
  <2>3. \A p \in Around(sources[n]) : Parsed(p)
    OBVIOUS
  <2>4. ASSUME owner = <<>> PROVE Around(sources[n]) = {}
    BY <2>2, <2>3, <2>4
  <2>5. ASSUME owner # <<>>
        PROVE  /\ owner[1] \in Around(sources[n])
               /\ \A p \in Around(sources[n]) : Nearer(owner[1], p)
    <3>1. PICK place \in DOMAIN ManifestNames :
            /\ owner[1][2] = ManifestNames[place]
            /\ \A p : Parsed(p) =>
                 \/ Len(owner[1][1]) > Len(p[1])
                 \/ /\ p[1] = owner[1][1]
                    /\ \E other \in DOMAIN ManifestNames :
                         p[2] = ManifestNames[other] /\ place <= other
      BY <2>2, <2>5
    <3>2. ASSUME NEW p \in Around(sources[n]) PROVE Nearer(owner[1], p)
      <4>1. \/ Len(owner[1][1]) > Len(p[1])
            \/ /\ p[1] = owner[1][1]
               /\ \E other \in DOMAIN ManifestNames :
                    p[2] = ManifestNames[other] /\ place <= other
        BY <2>3, <3>1, <3>2
      <4>2. Position(owner[1][2]) = place
        BY <1>1, <3>1
      <4>3. ASSUME NEW other \in DOMAIN ManifestNames,
                   p[2] = ManifestNames[other], place <= other
            PROVE  Position(owner[1][2]) <= Position(p[2])
        BY <1>1, <4>2, <4>3
      <4>4. QED
        BY <4>1, <4>3
    <3>3. owner[1] \in Around(sources[n])
      BY <2>2, <2>5
    <3>4. QED
      BY <3>2, <3>3
  <2>6. QED
    BY <2>4, <2>5 DEF owner
<1>3. ASSUME input.kind = "package"
      PROVE  \A sources \in SourceLists :
               LET owners == AssignPackages(disk, sources)
               IN  \A n \in DOMAIN sources :
                     IF owners[n] = <<>> THEN Around(sources[n]) = {}
                     ELSE /\ owners[n][1] \in Around(sources[n])
                          /\ \A p \in Around(sources[n]) : Nearer(owners[n][1], p)
  <2> HIDE DEF Around, Nearer
  <2>1. QED
    BY <1>2, <1>3
<1>4. QED
  BY <1>3, Zenon DEF PackageIsNearest, disk, Position

(***************************************************************************)
(* The budgets.                                                            *)
(***************************************************************************)
Weight(c) == IF c.language # "" THEN c.size ELSE 0

IsListing(listed) ==
  /\ listed \in Seq(Range(listed))
  /\ \A n \in DOMAIN listed : listed[n].path = n /\ listed[n].size \in Nat

AreLimits(limits) ==
  /\ limits.max_file_bytes \in Nat /\ limits.max_files \in Nat
  /\ limits.max_total_bytes \in Nat

\* What was admitted of the first n of a listing, for every n.
IsAdmission(seen, listed, limits) ==
  seen = [n \in 0 .. Len(listed) |->
            IF n = 0 THEN [retained |-> <<>>, omitted |-> {}, total |-> 0]
            ELSE Admit(seen[n - 1], listed[n], limits)]

LEMMA AdmissionExists ==
  ASSUME NEW V, NEW listed \in Seq(V), NEW limits
  PROVE  \E seen : /\ IsAdmission(seen, listed, limits)
                   /\ ApplyMetadataBudgets(listed, limits) = seen[Len(listed)]
<1> DEFINE top == Len(listed)
           start == [retained |-> <<>>, omitted |-> {}, total |-> 0]
           Runs(g, m) ==
             g = [k \in 0 .. m |-> IF k = 0 THEN start ELSE Admit(g[k - 1], listed[k], limits)]
           T == {m \in 0 .. top : \E g : Runs(g, m)}
           seen[k \in 0 .. top] ==
             IF k = 0 THEN start ELSE Admit(seen[k - 1], listed[k], limits)
<1>1. top \in Nat
  OBVIOUS
<1>2. ApplyMetadataBudgets(listed, limits) = seen[top]
  BY DEF ApplyMetadataBudgets
<1> HIDE DEF top, start
<1>3. 0 \in T
  <2>1. Runs([k \in 0 .. 0 |-> start], 0)
    OBVIOUS
  <2> HIDE DEF Runs
  <2>2. \E g : Runs(g, 0)
    BY <2>1
  <2>3. QED
    BY <1>1, <2>2
<1>4. ASSUME NEW m \in 1 .. top, m - 1 \in T PROVE m \in T
  <2>1. PICK g : Runs(g, m - 1)
    BY <1>4
  <2> DEFINE h == [k \in 0 .. m |->
                     IF k # m THEN g[k] ELSE Admit(g[m - 1], listed[m], limits)]
  <2>2. ASSUME NEW k \in 0 .. m
        PROVE  h[k] = IF k = 0 THEN start ELSE Admit(h[k - 1], listed[k], limits)
    <3>1. CASE k = m
      <4>1. h[m - 1] = g[m - 1] /\ m # 0
        BY <1>1
      <4>2. QED
        BY <3>1, <4>1
    <3>2. CASE k # m
      <4>1. k \in 0 .. m - 1 /\ (k # 0 => k - 1 \in 0 .. m /\ k - 1 # m)
        BY <1>1, <3>2
      <4>2. g[k] = IF k = 0 THEN start ELSE Admit(g[k - 1], listed[k], limits)
        BY <2>1, <4>1
      <4>3. QED
        BY <3>2, <4>1, <4>2
    <3>3. QED
      BY <3>1, <3>2
  <2>3. Runs(h, m)
    <3>1. DOMAIN h = 0 .. m /\ h = [k \in DOMAIN h |-> h[k]]
      OBVIOUS
    <3> HIDE DEF h
    <3>2. QED
      BY <2>2, <3>1
  <2> HIDE DEF Runs, h
  <2>4. \E k : Runs(k, m)
    BY <2>3
  <2>5. QED
    BY <1>1, <2>4
<1> HIDE DEF T
<1>5. top \in T
  BY <1>1, <1>3, <1>4, InductionUpTo
<1>6. seen = [k \in 0 .. top |-> IF k = 0 THEN start ELSE Admit(seen[k - 1], listed[k], limits)]
  BY <1>5 DEF T
<1> HIDE DEF seen
<1>7. IsAdmission(seen, listed, limits)
  BY <1>6 DEF IsAdmission, top, start
<1>8. QED
  BY <1>2, <1>7 DEF top

\* The sizes of the first n sources kept.
Bytes(kept) ==
  LET bytes[n \in 0 .. Len(kept)] == IF n = 0 THEN 0 ELSE bytes[n - 1] + Weight(kept[n])
  IN  bytes

LEMMA BytesAdd ==
  ASSUME NEW V, NEW kept \in Seq(V)
  PROVE  /\ Bytes(kept)[0] = 0
         /\ \A n \in 1 .. Len(kept) : Bytes(kept)[n] = Bytes(kept)[n - 1] + Weight(kept[n])
<1> DEFINE top == Len(kept)
           Adds(g, m) ==
             g = [k \in 0 .. m |-> IF k = 0 THEN 0 ELSE g[k - 1] + Weight(kept[k])]
           T == {m \in 0 .. top : \E g : Adds(g, m)}
           bytes[k \in 0 .. top] == IF k = 0 THEN 0 ELSE bytes[k - 1] + Weight(kept[k])
<1>1. top \in Nat
  OBVIOUS
<1>2. Bytes(kept) = bytes
  BY DEF Bytes
<1> HIDE DEF top
<1>3. 0 \in T
  <2>1. Adds([k \in 0 .. 0 |-> 0], 0)
    OBVIOUS
  <2> HIDE DEF Adds
  <2>2. \E g : Adds(g, 0)
    BY <2>1
  <2>3. QED
    BY <1>1, <2>2
<1>4. ASSUME NEW m \in 1 .. top, m - 1 \in T PROVE m \in T
  <2>1. PICK g : Adds(g, m - 1)
    BY <1>4
  <2> DEFINE h == [k \in 0 .. m |-> IF k # m THEN g[k] ELSE g[m - 1] + Weight(kept[m])]
  <2>2. ASSUME NEW k \in 0 .. m
        PROVE  h[k] = IF k = 0 THEN 0 ELSE h[k - 1] + Weight(kept[k])
    <3>1. CASE k = m
      <4>1. h[m - 1] = g[m - 1] /\ m # 0
        BY <1>1
      <4>2. QED
        BY <3>1, <4>1
    <3>2. CASE k # m
      <4>1. k \in 0 .. m - 1 /\ (k # 0 => k - 1 \in 0 .. m /\ k - 1 # m)
        BY <1>1, <3>2
      <4>2. g[k] = IF k = 0 THEN 0 ELSE g[k - 1] + Weight(kept[k])
        BY <2>1, <4>1
      <4>3. QED
        BY <3>2, <4>1, <4>2
    <3>3. QED
      BY <3>1, <3>2
  <2>3. Adds(h, m)
    <3>1. DOMAIN h = 0 .. m /\ h = [k \in DOMAIN h |-> h[k]]
      OBVIOUS
    <3> HIDE DEF h
    <3>2. QED
      BY <2>2, <3>1
  <2> HIDE DEF Adds, h
  <2>4. \E k : Adds(k, m)
    BY <2>3
  <2>5. QED
    BY <1>1, <2>4
<1> HIDE DEF T
<1>5. top \in T
  BY <1>1, <1>3, <1>4, InductionUpTo
<1>6. bytes = [k \in 0 .. top |-> IF k = 0 THEN 0 ELSE bytes[k - 1] + Weight(kept[k])]
  BY <1>5 DEF T
<1> HIDE DEF bytes
<1>7. bytes[0] = 0 /\ \A n \in 1 .. top : bytes[n] = bytes[n - 1] + Weight(kept[n])
  <2>1. bytes[0] = 0
    BY <1>1, <1>6
  <2>2. ASSUME NEW n \in 1 .. top PROVE bytes[n] = bytes[n - 1] + Weight(kept[n])
    <3>1. n \in 0 .. top /\ n # 0
      BY <1>1
    <3>2. bytes[n] = IF n = 0 THEN 0 ELSE bytes[n - 1] + Weight(kept[n])
      BY <1>6, <3>1
    <3>3. QED
      BY <3>1, <3>2
  <2>3. QED
    BY <2>1, <2>2
<1>8. QED
  BY <1>2, <1>7 DEF top

IsSeen(seen, V) ==
  /\ seen = [retained |-> seen.retained, omitted |-> seen.omitted, total |-> seen.total]
  /\ seen.retained \in Seq(V) /\ seen.total \in Nat

LEMMA OneAdmission ==
  ASSUME NEW V, NEW seen, IsSeen(seen, V), NEW c \in V, c.size \in Nat, NEW limits
  PROVE  LET after == Admit(seen, c, limits)
             refusal == Refusal(seen, c, limits)
         IN  /\ IsSeen(after, V)
             /\ refusal = "None" =>
                  /\ after.retained = Append(seen.retained, c)
                  /\ after.omitted = seen.omitted /\ after.total = seen.total + Weight(c)
             /\ refusal # "None" =>
                  /\ after.retained = seen.retained /\ after.total = seen.total
                  /\ after.omitted = seen.omitted \cup {<<c.path, refusal>>}
<1> DEFINE after == Admit(seen, c, limits)
           refusal == Refusal(seen, c, limits)
<1>1. /\ after = IF refusal # "None"
                 THEN [seen EXCEPT !.omitted = @ \cup {<<c.path, refusal>>}]
                 ELSE [seen EXCEPT !.retained = Append(@, c), !.total = @ + Weight(c)]
  BY DEF Admit, Weight
<1>2. Weight(c) \in Nat
  BY DEF Weight
<1> HIDE DEF after, refusal
<1>3. CASE refusal # "None"
  <2>1. after = [retained |-> seen.retained, omitted |-> seen.omitted \cup {<<c.path, refusal>>},
                 total |-> seen.total]
    BY <1>1, <1>3 DEF IsSeen
  <2>2. IsSeen(after, V)
    BY <2>1 DEF IsSeen
  <2>3. QED
    BY <1>3, <2>1, <2>2 DEF after, refusal
<1>4. CASE refusal = "None"
  <2>1. after = [retained |-> Append(seen.retained, c), omitted |-> seen.omitted,
                 total |-> seen.total + Weight(c)]
    BY <1>1, <1>4 DEF IsSeen
  <2>2. IsSeen(after, V)
    BY <1>2, <2>1 DEF IsSeen
  <2>3. QED
    BY <1>4, <2>1, <2>2 DEF after, refusal
<1>5. QED
  BY <1>3, <1>4

LEMMA RefusalReasons ==
  ASSUME NEW seen, seen.total \in Nat, Len(seen.retained) \in Nat,
         NEW c, c.size \in Nat, NEW limits, AreLimits(limits)
  PROVE  /\ Refusal(seen, c, limits) = "None" =>
              /\ c.language # "" => /\ c.size <= limits.max_file_bytes
                                    /\ Len(seen.retained) + 1 <= limits.max_files
              /\ seen.total <= limits.max_total_bytes =>
                   seen.total + Weight(c) <= limits.max_total_bytes
         /\ Refusal(seen, c, limits) # "None" =>
              /\ c.language # ""
              /\ \/ c.size > limits.max_file_bytes
                 \/ Len(seen.retained) >= limits.max_files
                 \/ seen.total + c.size > limits.max_total_bytes
<1> DEFINE isSource == c.language # ""
           size == c.size
           count == Len(seen.retained)
           total == seen.total
           file == limits.max_file_bytes
           files == limits.max_files
           bytes == limits.max_total_bytes
           refusal == Refusal(seen, c, limits)
<1>1. refusal = IF ~isSource THEN "None"
                ELSE IF size > file THEN "FileTooLarge"
                ELSE IF count >= files THEN "FileCountLimit"
                ELSE IF ~(total + size <= bytes) THEN "TotalBytesLimit"
                ELSE "None"
  BY Zenon DEF Refusal, Fits
<1>2. /\ size \in Nat /\ count \in Nat /\ total \in Nat
      /\ file \in Nat /\ files \in Nat /\ bytes \in Nat
  BY Zenon DEF AreLimits
<1>3. Weight(c) = IF isSource THEN size ELSE 0
  BY DEF Weight
<1> HIDE DEF isSource, size, count, total, file, files, bytes, refusal
<1>4. refusal = "None" => /\ isSource => size <= file /\ count + 1 <= files
                          /\ total <= bytes => total + Weight(c) <= bytes
  BY <1>1, <1>2, <1>3
<1>5. refusal # "None" => /\ isSource
                          /\ size > file \/ count >= files \/ total + size > bytes
  BY <1>1, <1>2
<1>6. QED
  BY <1>4, <1>5, Zenon DEF isSource, size, count, total, file, files, bytes, refusal

\* The sources kept, by what had been kept when each was considered.
IsWithin(kept, limits) ==
  /\ Bytes(kept)[Len(kept)] <= limits.max_total_bytes
  /\ \A i \in 1 .. Len(kept) :
       /\ kept[i].language # "" => /\ i <= limits.max_files
                                   /\ kept[i].size <= limits.max_file_bytes
       /\ \A j \in 1 .. i - 1 : kept[j].path < kept[i].path

IsLeftOut(answer, m) == \E o \in answer.omitted : o[1] = m

HasReason(c, before, kept, limits) ==
  /\ c.language # ""
  /\ \/ c.size > limits.max_file_bytes
     \/ before >= limits.max_files
     \/ Bytes(kept)[before] + c.size > limits.max_total_bytes

IsBefore(kept, m, before) ==
  /\ before \in 0 .. Len(kept)
  /\ \A i \in 1 .. before : kept[i].path < m
  /\ \A i \in before + 1 .. Len(kept) : kept[i].path >= m

LEMMA AdmissionIsExact ==
  ASSUME NEW listed, IsListing(listed), NEW limits, AreLimits(limits),
         NEW answer, answer = ApplyMetadataBudgets(listed, limits),
         NEW kept, kept = answer.retained
  PROVE  /\ kept \in Seq(Range(listed))
         /\ IsWithin(kept, limits)
         /\ \A m \in DOMAIN listed :
              /\ IsLeftOut(answer, m) = (listed[m] \notin Range(kept))
              /\ \E before : /\ IsBefore(kept, m, before)
                             /\ IsLeftOut(answer, m) =>
                                  HasReason(listed[m], before, kept, limits)
<1> DEFINE V == Range(listed)
           top == Len(listed)
<1>1. /\ listed \in Seq(V) /\ top \in Nat /\ DOMAIN listed = 1 .. top
      /\ \A n \in 1 .. top : listed[n] \in V /\ listed[n].path = n /\ listed[n].size \in Nat
  BY DEF IsListing, Range
<1>2. PICK seen : IsAdmission(seen, listed, limits) /\ answer = seen[top]
  BY <1>1, AdmissionExists
<1>3. /\ seen[0] = [retained |-> <<>>, omitted |-> {}, total |-> 0]
      /\ \A n \in 1 .. top : seen[n] = Admit(seen[n - 1], listed[n], limits)
  <2> HIDE DEF top
  <2>1. seen = [n \in 0 .. top |->
                  IF n = 0 THEN [retained |-> <<>>, omitted |-> {}, total |-> 0]
                  ELSE Admit(seen[n - 1], listed[n], limits)]
    BY <1>2 DEF IsAdmission, top
  <2>2. seen[0] = [retained |-> <<>>, omitted |-> {}, total |-> 0]
    BY <1>1, <2>1
  <2>3. ASSUME NEW n \in 1 .. top PROVE seen[n] = Admit(seen[n - 1], listed[n], limits)
    <3>1. n \in 0 .. top /\ n # 0
      BY <1>1
    <3>2. seen[n] = IF n = 0 THEN [retained |-> <<>>, omitted |-> {}, total |-> 0]
                    ELSE Admit(seen[n - 1], listed[n], limits)
      BY <2>1, <3>1
    <3>3. QED
      BY <3>1, <3>2
  <2>4. QED
    BY <2>2, <2>3
<1> HIDE DEF V, top
<1> DEFINE Typed == {n \in 0 .. top : IsSeen(seen[n], V)}
<1>4. ASSUME NEW n \in 1 .. top, n - 1 \in Typed PROVE n \in Typed
  <2>1. IsSeen(seen[n - 1], V) /\ listed[n] \in V /\ listed[n].size \in Nat
    BY <1>1, <1>4
  <2>2. IsSeen(Admit(seen[n - 1], listed[n], limits), V)
    BY <2>1, OneAdmission
  <2>3. n \in 0 .. top
    BY <1>1
  <2>4. QED
    BY <1>3, <2>2, <2>3
<1>5. \A n \in 0 .. top : IsSeen(seen[n], V)
  <2>1. 0 \in Typed
    <3>1. IsSeen([retained |-> <<>>, omitted |-> {}, total |-> 0], V)
      BY DEF IsSeen
    <3>2. QED
      BY <1>1, <1>3, <3>1
  <2>2. ASSUME NEW n \in 0 .. top PROVE n \in Typed
    <3>1. n \in Nat /\ \A m \in 1 .. n : m \in 1 .. top
      BY <1>1
    <3> HIDE DEF Typed
    <3>2. \A m \in 1 .. n : m - 1 \in Typed => m \in Typed
      BY <1>4, <3>1
    <3>3. QED
      BY <2>1, <3>1, <3>2, InductionUpTo
  <2>3. QED
    BY <2>2
<1> DEFINE L(n) == Len(seen[n].retained)
           Refused(n) == Refusal(seen[n - 1], listed[n], limits)
           Takes(n) == Refused(n) = "None"
<1>6. \A n \in 0 .. top : /\ L(n) \in Nat /\ DOMAIN seen[n].retained = 1 .. L(n)
                          /\ seen[n].retained \in Seq(V) /\ seen[n].total \in Nat
  <2>1. \A n \in 0 .. top : seen[n].retained \in Seq(V) /\ seen[n].total \in Nat
    BY <1>5 DEF IsSeen
  <2>2. \A list \in Seq(V) : Len(list) \in Nat /\ DOMAIN list = 1 .. Len(list)
    OBVIOUS
  <2>3. QED
    BY <2>1, <2>2
<1>7. ASSUME NEW n \in 1 .. top
      PROVE  /\ n - 1 \in 0 .. top /\ n \in 0 .. top
             /\ Takes(n) =>
                  /\ L(n) = L(n - 1) + 1 /\ seen[n].retained[L(n)] = listed[n]
                  /\ \A i \in 1 .. L(n - 1) : seen[n].retained[i] = seen[n - 1].retained[i]
                  /\ seen[n].omitted = seen[n - 1].omitted
                  /\ seen[n].total = seen[n - 1].total + Weight(listed[n])
             /\ ~Takes(n) =>
                  /\ seen[n].retained = seen[n - 1].retained
                  /\ seen[n].total = seen[n - 1].total
                  /\ seen[n].omitted = seen[n - 1].omitted \cup {<<n, Refused(n)>>}
  <2>1. n - 1 \in 0 .. top /\ n \in 0 .. top
    BY <1>1
  <2> DEFINE s == seen[n - 1]
             c == listed[n]
  <2>2. IsSeen(s, V) /\ c \in V /\ c.size \in Nat /\ c.path = n
    BY <1>1, <1>5, <2>1
  <2>3. s.retained \in Seq(V)
    BY <2>2 DEF IsSeen
  <2>4. seen[n] = Admit(s, c, limits)
    BY <1>3
  <2> HIDE DEF s, c
  <2>5. /\ Refusal(s, c, limits) = "None" =>
             /\ seen[n].retained = Append(s.retained, c)
             /\ seen[n].omitted = s.omitted /\ seen[n].total = s.total + Weight(c)
        /\ Refusal(s, c, limits) # "None" =>
             /\ seen[n].retained = s.retained /\ seen[n].total = s.total
             /\ seen[n].omitted = s.omitted \cup {<<n, Refusal(s, c, limits)>>}
    BY <2>2, <2>4, OneAdmission
  <2>6. /\ Len(Append(s.retained, c)) = Len(s.retained) + 1
        /\ Append(s.retained, c)[Len(s.retained) + 1] = c
        /\ \A i \in 1 .. Len(s.retained) : Append(s.retained, c)[i] = s.retained[i]
    BY <2>2, <2>3
  <2>7. QED
    BY <2>1, <2>5, <2>6 DEF s, c
<1> HIDE DEF Takes, Refused
<1> DEFINE Kept == {n \in 0 .. top : \A m \in 0 .. n :
                      /\ L(m) <= L(n)
                      /\ \A i \in 1 .. L(m) : seen[n].retained[i] = seen[m].retained[i]
                      /\ \A i \in L(m) + 1 .. L(n) : seen[n].retained[i].path \in m + 1 .. n}
<1>8. 0 \in Kept
  <2>1. 0 \in 0 .. top /\ \A m \in 0 .. 0 : m = 0
    BY <1>1
  <2>2. L(0) \in Nat
    BY <1>6, <2>1
  <2>3. QED
    BY <2>1, <2>2
<1>9. ASSUME NEW n \in 1 .. top, n - 1 \in Kept PROVE n \in Kept
  <2>1. n - 1 \in 0 .. top /\ n \in 0 .. top /\ L(n) \in Nat /\ L(n - 1) \in Nat
    BY <1>6, <1>7
  <2>2. ASSUME NEW m \in 0 .. n
        PROVE  /\ L(m) <= L(n)
               /\ \A i \in 1 .. L(m) : seen[n].retained[i] = seen[m].retained[i]
               /\ \A i \in L(m) + 1 .. L(n) : seen[n].retained[i].path \in m + 1 .. n
    <3>1. CASE m = n
      BY <2>1, <3>1
    <3>2. CASE m # n
      <4>1. m \in 0 .. n - 1 /\ m \in 0 .. top /\ L(m) \in Nat
        <5>1. m \in 0 .. n - 1 /\ m \in 0 .. top
          BY <1>1, <3>2
        <5>2. QED
          BY <1>6, <5>1
      <4>2. /\ L(m) <= L(n - 1)
            /\ \A i \in 1 .. L(m) : seen[n - 1].retained[i] = seen[m].retained[i]
            /\ \A i \in L(m) + 1 .. L(n - 1) : seen[n - 1].retained[i].path \in m + 1 .. n - 1
        BY <1>9, <4>1
      <4>3. CASE Takes(n)
        <5>1. /\ L(n) = L(n - 1) + 1 /\ seen[n].retained[L(n)] = listed[n]
              /\ \A i \in 1 .. L(n - 1) : seen[n].retained[i] = seen[n - 1].retained[i]
          BY <1>7, <4>3
        <5> HIDE DEF L
        <5>2. listed[n].path = n /\ n \in m + 1 .. n
          BY <1>1, <4>1
        <5>3. \A i \in L(m) + 1 .. L(n) : i = L(n) \/ i \in L(m) + 1 .. L(n - 1)
          BY <2>1, <4>1, <5>1
        <5>4. \A i \in L(m) + 1 .. L(n - 1) : i \in 1 .. L(n - 1)
          BY <2>1, <4>1
        <5>5. \A i \in 1 .. L(m) : i \in 1 .. L(n - 1)
          BY <2>1, <4>1, <4>2
        <5>6. \A i \in L(m) + 1 .. L(n) : seen[n].retained[i].path \in m + 1 .. n
          <6>1. m + 1 .. n - 1 \subseteq m + 1 .. n
            BY <4>1
          <6>2. QED
            BY <4>2, <5>1, <5>2, <5>3, <5>4, <6>1
        <5>7. L(m) <= L(n)
          BY <2>1, <4>1, <4>2, <5>1
        <5>8. QED
          BY <4>2, <5>1, <5>5, <5>6, <5>7
      <4>4. CASE ~Takes(n)
        <5>1. seen[n].retained = seen[n - 1].retained
          BY <1>7, <4>4
        <5>2. m + 1 .. n - 1 \subseteq m + 1 .. n
          BY <4>1
        <5>3. QED
          BY <4>2, <5>1, <5>2
      <4>5. QED
        BY <4>3, <4>4
    <3>3. QED
      BY <3>1, <3>2
  <2>3. QED
    BY <2>1, <2>2
<1>10. \A n \in 0 .. top : n \in Kept
  <2>1. ASSUME NEW n \in 0 .. top PROVE n \in Kept
    <3>1. n \in Nat /\ \A m \in 1 .. n : m \in 1 .. top
      BY <1>1
    <3> HIDE DEF Kept
    <3>2. \A m \in 1 .. n : m - 1 \in Kept => m \in Kept
      BY <1>9, <3>1
    <3>3. QED
      BY <1>8, <3>1, <3>2, InductionUpTo
  <2>2. QED
    BY <2>1
<1> HIDE DEF Kept
<1>11. ASSUME NEW n \in 0 .. top
       PROVE  \A m \in 0 .. n :
                /\ L(m) <= L(n)
                /\ \A i \in 1 .. L(m) : seen[n].retained[i] = seen[m].retained[i]
                /\ \A i \in L(m) + 1 .. L(n) : seen[n].retained[i].path \in m + 1 .. n
  BY <1>10 DEF Kept
<1> HIDE DEF L
<1>12. /\ kept \in Seq(V) /\ Len(kept) = L(top) /\ DOMAIN kept = 1 .. L(top) /\ L(top) \in Nat
       /\ kept = seen[top].retained
  <2>1. kept = seen[top].retained /\ top \in 0 .. top
    BY <1>1, <1>2
  <2>2. QED
    BY <1>6, <2>1 DEF L
<1>13. ASSUME NEW m \in 0 .. top
       PROVE  /\ L(m) \in 0 .. L(top)
              /\ \A i \in 1 .. L(m) : kept[i].path \in 1 .. m
              /\ \A i \in L(m) + 1 .. L(top) : kept[i].path \in m + 1 .. top
  <2>1. L(0) = 0 /\ 0 \in 0 .. m /\ m \in 0 .. top /\ top \in 0 .. top
    BY <1>1, <1>3 DEF L
  <2>2. \A i \in 1 .. L(m) : seen[m].retained[i].path \in 1 .. m
    <3>1. \A i \in L(0) + 1 .. L(m) : seen[m].retained[i].path \in 0 + 1 .. m
      BY <1>11, <2>1
    <3>2. QED
      BY <2>1, <3>1
  <2>3. /\ L(m) <= L(top) /\ \A i \in 1 .. L(m) : kept[i] = seen[m].retained[i]
        /\ \A i \in L(m) + 1 .. L(top) : kept[i].path \in m + 1 .. top
    BY <1>1, <1>11, <1>12, <2>1
  <2>4. L(m) \in Nat
    BY <1>6
  <2>5. QED
    BY <1>12, <2>2, <2>3, <2>4
<1>14. ASSUME NEW n \in 1 .. top, Takes(n)
       PROVE  /\ L(n) = L(n - 1) + 1 /\ L(n) \in 1 .. L(top) /\ kept[L(n)] = listed[n]
  <2>1. /\ L(n) = L(n - 1) + 1 /\ seen[n].retained[L(n)] = listed[n]
        /\ n - 1 \in 0 .. top /\ n \in 0 .. top
    BY <1>7, <1>14 DEF L
  <2>2. L(n - 1) \in Nat /\ L(n) \in 0 .. L(top)
    BY <1>6, <1>13, <2>1 DEF L
  <2>3. top \in 0 .. top /\ n \in 0 .. top /\ L(n) \in 1 .. L(n)
    BY <1>1, <2>1, <2>2
  <2>4. seen[top].retained[L(n)] = seen[n].retained[L(n)]
    BY <1>1, <1>11, <2>3
  <2>5. QED
    BY <1>12, <2>1, <2>2, <2>4
<1>15. ASSUME NEW i \in 1 .. L(top)
       PROVE  LET m == kept[i].path
              IN  m \in 1 .. top /\ Takes(m) /\ i = L(m) /\ i = L(m - 1) + 1 /\ kept[i] = listed[m]
  <2> DEFINE m == kept[i].path
  <2>1. m \in 1 .. top
    <3>1. top \in 0 .. top
      BY <1>1
    <3>2. QED
      BY <1>13, <3>1
  <2> HIDE DEF m
  <2>2. m \in 0 .. top /\ m - 1 \in 0 .. top
    BY <1>1, <2>1
  <2>3. L(m) \in Nat /\ L(m - 1) \in Nat
    BY <1>6, <2>2 DEF L
  <2>4. i <= L(m)
    <3>1. ASSUME i > L(m) PROVE FALSE
      <4>1. i \in L(m) + 1 .. L(top)
        BY <1>12, <2>3, <3>1
      <4>2. kept[i].path \in m + 1 .. top
        BY <1>13, <2>2, <4>1
      <4>3. QED
        BY <2>1, <4>2 DEF m
    <3>2. QED
      BY <2>3, <3>1
  <2>5. i > L(m - 1)
    <3>1. ASSUME i <= L(m - 1) PROVE FALSE
      <4>1. i \in 1 .. L(m - 1)
        BY <2>3, <3>1
      <4>2. kept[i].path \in 1 .. m - 1
        BY <1>13, <2>2, <4>1
      <4>3. QED
        BY <2>1, <4>2 DEF m
    <3>2. QED
      BY <2>3, <3>1
  <2>6. Takes(m)
    <3>1. ~Takes(m) => L(m) = L(m - 1)
      BY <1>7, <2>1 DEF L
    <3>2. QED
      BY <2>3, <2>4, <2>5, <3>1
  <2>7. L(m) = L(m - 1) + 1 /\ kept[L(m)] = listed[m]
    BY <1>14, <2>1, <2>6
  <2>8. i = L(m)
    BY <2>3, <2>4, <2>5, <2>7
  <2>9. QED
    BY <2>1, <2>6, <2>7, <2>8 DEF m
<1>16. ASSUME NEW n \in 1 .. top, Takes(n)
       PROVE  /\ listed[n].language # "" =>
                   listed[n].size <= limits.max_file_bytes /\ L(n) <= limits.max_files
              /\ seen[n - 1].total <= limits.max_total_bytes =>
                   seen[n - 1].total + Weight(listed[n]) <= limits.max_total_bytes
  <2>1. Refusal(seen[n - 1], listed[n], limits) = "None"
    BY <1>16 DEF Takes, Refused
  <2>2. /\ seen[n - 1].total \in Nat /\ Len(seen[n - 1].retained) \in Nat
        /\ listed[n].size \in Nat
    BY <1>1, <1>6, <1>7 DEF L
  <2>3. /\ listed[n].language # "" =>
             /\ listed[n].size <= limits.max_file_bytes
             /\ Len(seen[n - 1].retained) + 1 <= limits.max_files
        /\ seen[n - 1].total <= limits.max_total_bytes =>
             seen[n - 1].total + Weight(listed[n]) <= limits.max_total_bytes
    BY <2>1, <2>2, RefusalReasons, Zenon
  <2>4. L(n) = Len(seen[n - 1].retained) + 1
    BY <1>14, <1>16 DEF L
  <2>5. QED
    BY <2>3, <2>4, Zenon
<1>17. ASSUME NEW n \in 1 .. top, ~Takes(n)
       PROVE  /\ listed[n].language # ""
              /\ \/ listed[n].size > limits.max_file_bytes
                 \/ L(n - 1) >= limits.max_files
                 \/ seen[n - 1].total + listed[n].size > limits.max_total_bytes
  <2>1. Refusal(seen[n - 1], listed[n], limits) # "None"
    BY <1>17 DEF Takes, Refused
  <2>2. /\ seen[n - 1].total \in Nat /\ Len(seen[n - 1].retained) \in Nat
        /\ listed[n].size \in Nat
    BY <1>1, <1>6, <1>7 DEF L
  <2>3. QED
    BY <2>1, <2>2, RefusalReasons, Zenon DEF L
<1> DEFINE Sums == {n \in 0 .. top : /\ seen[n].total = Bytes(kept)[L(n)]
                                     /\ seen[n].total <= limits.max_total_bytes}
<1>18. 0 \in Sums
  <2>1. seen[0].total = 0 /\ L(0) = 0 /\ Bytes(kept)[0] = 0
    BY <1>3, <1>12, BytesAdd DEF L
  <2>2. QED
    BY <1>1, <2>1 DEF AreLimits
<1>19. ASSUME NEW n \in 1 .. top, n - 1 \in Sums PROVE n \in Sums
  <2>1. n \in 0 .. top /\ n - 1 \in 0 .. top
    BY <1>7
  <2>2. seen[n - 1].total = Bytes(kept)[L(n - 1)] /\ seen[n - 1].total <= limits.max_total_bytes
    BY <1>19
  <2>3. CASE Takes(n)
    <3>1. L(n) = L(n - 1) + 1 /\ L(n) \in 1 .. L(top) /\ kept[L(n)] = listed[n]
      BY <1>14, <2>3
    <3>2. \A k \in 1 .. Len(kept) : Bytes(kept)[k] = Bytes(kept)[k - 1] + Weight(kept[k])
      BY <1>12, BytesAdd
    <3>3. Bytes(kept)[L(n)] = Bytes(kept)[L(n) - 1] + Weight(listed[n])
      BY <1>12, <3>1, <3>2
    <3>4. L(n) - 1 = L(n - 1)
      BY <1>6, <2>1, <3>1 DEF L
    <3>5. seen[n].total = seen[n - 1].total + Weight(listed[n])
      BY <1>7, <2>3
    <3>6. seen[n].total <= limits.max_total_bytes
      <4>1. seen[n - 1].total + Weight(listed[n]) <= limits.max_total_bytes
        BY <1>16, <2>2, <2>3, Zenon
      <4>2. QED
        BY <3>5, <4>1, Zenon
    <3>7. QED
      BY <2>1, <2>2, <3>3, <3>4, <3>5, <3>6
  <2>4. CASE ~Takes(n)
    <3>1. L(n) = L(n - 1) /\ seen[n].total = seen[n - 1].total
      BY <1>7, <2>4 DEF L
    <3>2. QED
      BY <2>1, <2>2, <3>1
  <2>5. QED
    BY <2>3, <2>4
<1>20. ASSUME NEW n \in 0 .. top
       PROVE  seen[n].total = Bytes(kept)[L(n)] /\ seen[n].total <= limits.max_total_bytes
  <2>1. n \in Nat /\ \A m \in 1 .. n : m \in 1 .. top
    BY <1>1
  <2> HIDE DEF Sums
  <2>2. \A m \in 1 .. n : m - 1 \in Sums => m \in Sums
    BY <1>19, <2>1
  <2>3. n \in Sums
    BY <1>18, <2>1, <2>2, InductionUpTo
  <2>4. QED
    BY <2>3 DEF Sums
<1> DEFINE Told == {n \in 0 .. top :
                      /\ \A o \in seen[n].omitted : o[1] \in 1 .. n /\ ~Takes(o[1])
                      /\ \A m \in 1 .. n : ~Takes(m) => \E o \in seen[n].omitted : o[1] = m}
<1>21. 0 \in Told
  BY <1>1, <1>3
<1>22. ASSUME NEW n \in 1 .. top, n - 1 \in Told PROVE n \in Told
  <2>1. n \in 0 .. top /\ n - 1 \in 0 .. top /\ 1 .. n - 1 \subseteq 1 .. n /\ n \in 1 .. n
    BY <1>7
  <2>2. /\ \A o \in seen[n - 1].omitted : o[1] \in 1 .. n - 1 /\ ~Takes(o[1])
        /\ \A m \in 1 .. n - 1 : ~Takes(m) => \E o \in seen[n - 1].omitted : o[1] = m
    BY <1>22
  <2>3. \A m \in 1 .. n : m = n \/ m \in 1 .. n - 1
    OBVIOUS
  <2>4. CASE Takes(n)
    <3>1. seen[n].omitted = seen[n - 1].omitted
      BY <1>7, <2>4
    <3>2. QED
      BY <2>1, <2>2, <2>3, <2>4, <3>1
  <2>5. CASE ~Takes(n)
    <3>1. seen[n].omitted = seen[n - 1].omitted \cup {<<n, Refused(n)>>}
      BY <1>7, <2>5
    <3>2. \A o \in seen[n].omitted : o[1] \in 1 .. n /\ ~Takes(o[1])
      BY <2>1, <2>2, <2>5, <3>1
    <3>3. ASSUME NEW m \in 1 .. n, ~Takes(m) PROVE \E o \in seen[n].omitted : o[1] = m
      <4>1. CASE m = n
        <5>1. <<n, Refused(n)>> \in seen[n].omitted /\ <<n, Refused(n)>>[1] = n
          BY <3>1
        <5>2. QED
          BY <4>1, <5>1
      <4>2. CASE m # n
        <5>1. PICK o \in seen[n - 1].omitted : o[1] = m
          BY <2>2, <2>3, <3>3, <4>2
        <5>2. o \in seen[n].omitted
          BY <3>1
        <5>3. QED
          BY <5>1, <5>2
      <4>3. QED
        BY <4>1, <4>2
    <3>4. QED
      BY <2>1, <3>2, <3>3
  <2>6. QED
    BY <2>4, <2>5
<1>23. ASSUME NEW m \in 1 .. top
       PROVE  (\E o \in answer.omitted : o[1] = m) = ~Takes(m)
  <2>1. top \in Nat /\ \A n \in 1 .. top : n \in 1 .. top
    BY <1>1
  <2> HIDE DEF Told
  <2>2. top \in Told
    BY <1>21, <1>22, <2>1, InductionUpTo
  <2>3. /\ \A o \in answer.omitted : ~Takes(o[1])
        /\ ~Takes(m) => \E o \in answer.omitted : o[1] = m
    BY <1>2, <2>2 DEF Told
  <2>4. QED
    BY <2>3
<1>24. ASSUME NEW i \in 1 .. Len(kept)
       PROVE  /\ kept[i].language # "" =>
                   i <= limits.max_files /\ kept[i].size <= limits.max_file_bytes
              /\ \A j \in 1 .. i - 1 : kept[j].path < kept[i].path
  <2> DEFINE m == kept[i].path
  <2>1. i \in 1 .. L(top)
    BY <1>12
  <2>2. m \in 1 .. top /\ Takes(m) /\ i = L(m) /\ i = L(m - 1) + 1 /\ kept[i] = listed[m]
    BY <1>15, <2>1
  <2> HIDE DEF m
  <2>3. kept[i].language # "" => i <= limits.max_files /\ kept[i].size <= limits.max_file_bytes
    BY <1>16, <2>2
  <2>4. m - 1 \in 0 .. top /\ L(m - 1) \in Nat
    BY <1>6, <1>7, <2>2 DEF L
  <2>5. ASSUME NEW j \in 1 .. i - 1 PROVE kept[j].path < m
    <3>1. j \in 1 .. L(m - 1)
      BY <2>2, <2>4
    <3>2. kept[j].path \in 1 .. m - 1
      BY <1>13, <2>4, <3>1
    <3>3. QED
      BY <2>2, <3>2
  <2>6. QED
    BY <2>3, <2>5 DEF m
<1>25. ASSUME NEW m \in 1 .. top
       PROVE  /\ IsLeftOut(answer, m) = (listed[m] \notin Range(kept))
              /\ \E before : /\ IsBefore(kept, m, before)
                             /\ IsLeftOut(answer, m) =>
                                  HasReason(listed[m], before, kept, limits)
  <2> DEFINE before == L(m - 1)
  <2>1. IsLeftOut(answer, m) = ~Takes(m)
    BY <1>23, Zenon DEF IsLeftOut
  <2>2. m - 1 \in 0 .. top /\ m \in 0 .. top
    BY <1>7
  <2>3. IsBefore(kept, m, before)
    <3>1. /\ before \in 0 .. L(top)
          /\ \A i \in 1 .. before : kept[i].path \in 1 .. m - 1
          /\ \A i \in before + 1 .. L(top) : kept[i].path \in (m - 1) + 1 .. top
      BY <1>13, <2>2
    <3>2. /\ before \in 0 .. Len(kept)
          /\ \A i \in 1 .. before : kept[i].path < m
          /\ \A i \in before + 1 .. Len(kept) : kept[i].path >= m
      BY <1>1, <1>12, <3>1
    <3>3. QED
      BY <3>2, Zenon DEF IsBefore
  <2>4. ~Takes(m) => HasReason(listed[m], before, kept, limits)
    <3>1. seen[m - 1].total = Bytes(kept)[before]
      BY <1>20, <2>2
    <3>2. QED
      BY <1>17, <3>1, Zenon DEF HasReason
  <2>5. Takes(m) => listed[m] \in Range(kept)
    BY <1>12, <1>14 DEF Range
  <2>6. listed[m] \in Range(kept) => Takes(m)
    <3>1. ASSUME listed[m] \in Range(kept) PROVE Takes(m)
      <4>1. PICK i \in 1 .. L(top) : kept[i] = listed[m]
        BY <1>12, <3>1 DEF Range
      <4>2. kept[i].path = m
        BY <1>1, <4>1
      <4>3. QED
        BY <1>15, <4>2
    <3>2. QED
      BY <3>1
  <2> HIDE DEF before
  <2>7. QED
    BY <2>1, <2>3, <2>4, <2>5, <2>6, Zenon
<1>26. Bytes(kept)[Len(kept)] <= limits.max_total_bytes
  <2>1. top \in 0 .. top
    BY <1>1
  <2>2. QED
    BY <1>12, <1>20, <2>1
<1>27. IsWithin(kept, limits)
  BY <1>24, <1>26, Zenon DEF IsWithin
<1>28. QED
  BY <1>1, <1>12, <1>25, <1>27, Zenon DEF V

LEMMA LargestUpTo ==
  ASSUME NEW n \in Nat
  PROVE  Max(0 .. n) = n
BY DEF Max

\* The facts about the kept ones in the words of the property.
LEMMA PlaceBefore ==
  ASSUME NEW V, NEW kept \in Seq(V), \A i \in DOMAIN kept : kept[i].path \in Nat,
         NEW m \in Nat, NEW before, IsBefore(kept, m, before)
  PROVE  Max({0} \cup {n \in DOMAIN kept : kept[n].path < m}) = before
<1>1. before \in 0 .. Len(kept) /\ DOMAIN kept = 1 .. Len(kept) /\ Len(kept) \in Nat
  BY DEF IsBefore
<1>2. {0} \cup {n \in DOMAIN kept : kept[n].path < m} = 0 .. before
  BY <1>1 DEF IsBefore
<1>3. Max(0 .. before) = before
  BY <1>1, LargestUpTo
<1>4. QED
  BY <1>2, <1>3

LEMMA NoMoreThan ==
  ASSUME NEW n \in Nat, NEW S \in SUBSET Nat, \A i \in S : i # 0 /\ i <= n
  PROVE  Cardinality(S) <= n
<1>1. IsFiniteSet(1 .. n) /\ Cardinality(1 .. n) = n
  BY FS_Interval
<1>2. S \in SUBSET (1 .. n)
  OBVIOUS
<1>3. Cardinality(S) <= Cardinality(1 .. n)
  BY <1>1, <1>2, FS_Subset, Zenon
<1>4. QED
  BY <1>1, <1>3, Zenon

BudgetInv == input.kind = "budget" => IsListing(input.given)

LEMMA BudgetsAreRespected ==
  ASSUME BudgetInv
  PROVE  AdmissionRespectsBudgets
<1> SUFFICES ASSUME input.kind = "budget"
             PROVE  AdmissionRespectsBudgets
  BY DEF AdmissionRespectsBudgets
<1> DEFINE listed == input.given
           IsSource(c) == c.language # ""
           Omitted(answer, c) == \E o \in answer.omitted : o[1] = c.path
           Before(kept, c) == Max({0} \cup {n \in DOMAIN kept : kept[n].path < c.path})
           Respects(limits, answer, kept, bytes) ==
             /\ Cardinality({n \in DOMAIN kept : IsSource(kept[n])}) <= limits.max_files
             /\ bytes[Len(kept)] <= limits.max_total_bytes
             /\ \A n \in DOMAIN kept :
                  /\ IsSource(kept[n]) => kept[n].size <= limits.max_file_bytes
                  /\ \A m \in 1 .. n - 1 : kept[m].path < kept[n].path
             /\ \A c \in Range(listed) :
                  /\ Omitted(answer, c) = (c \notin Range(kept))
                  /\ Omitted(answer, c) =>
                       /\ IsSource(c)
                       /\ \/ c.size > limits.max_file_bytes
                          \/ Before(kept, c) >= limits.max_files
                          \/ bytes[Before(kept, c)] + c.size > limits.max_total_bytes
<1>1. IsListing(listed)
  BY DEF BudgetInv
<1>2. \A limits \in LimitPool : AreLimits(limits)
  BY DiscoveryAssumption DEF AreLimits
<1> HIDE DEF listed
<1>3. \A n \in DOMAIN listed : listed[n].path = n /\ n \in Nat
  <2>1. PICK V : listed \in Seq(V)
    BY <1>1 DEF IsListing
  <2>2. \A n \in DOMAIN listed : listed[n].path = n
    BY <1>1 DEF IsListing
  <2>3. DOMAIN listed \subseteq Nat
    BY <2>1
  <2>4. QED
    BY <2>2, <2>3
<1>4. \A c \in Range(listed) : \E m \in DOMAIN listed : c = listed[m]
  BY DEF Range
<1>5. ASSUME NEW kept \in Seq(Range(listed))
      PROVE  /\ DOMAIN kept = 1 .. Len(kept) /\ DOMAIN kept \in SUBSET Nat
             /\ \A i \in DOMAIN kept : i # 0 /\ kept[i].path \in Nat
  <2>1. \A c \in Range(listed) : c.path \in Nat
    BY <1>3, <1>4
  <2>2. /\ DOMAIN kept = 1 .. Len(kept) /\ DOMAIN kept \in SUBSET Nat
        /\ \A i \in DOMAIN kept : i # 0 /\ kept[i] \in Range(listed)
    OBVIOUS
  <2>3. QED
    BY <2>1, <2>2
<1>6. ASSUME NEW limits \in LimitPool,
             NEW answer, answer = ApplyMetadataBudgets(listed, limits),
             NEW kept, kept = answer.retained
      PROVE  Respects(limits, answer, kept, Bytes(kept))
  <2>1. AreLimits(limits)
    BY <1>2
  <2>2. /\ kept \in Seq(Range(listed))
        /\ IsWithin(kept, limits)
        /\ \A m \in DOMAIN listed :
              /\ IsLeftOut(answer, m) = (listed[m] \notin Range(kept))
              /\ \E before : /\ IsBefore(kept, m, before)
                             /\ IsLeftOut(answer, m) =>
                                  HasReason(listed[m], before, kept, limits)
    BY <1>1, <1>6, <2>1, AdmissionIsExact, Zenon
  <2>3. /\ DOMAIN kept = 1 .. Len(kept) /\ DOMAIN kept \in SUBSET Nat
        /\ \A i \in DOMAIN kept : i # 0 /\ kept[i].path \in Nat
    BY <1>5, <2>2, Zenon
  <2>4. Cardinality({n \in DOMAIN kept : IsSource(kept[n])}) <= limits.max_files
    <3> DEFINE sources == {n \in DOMAIN kept : IsSource(kept[n])}
    <3>1. limits.max_files \in Nat
      BY <2>1, Zenon DEF AreLimits
    <3>2. \A i \in sources : i <= limits.max_files
      BY <2>2, <2>3, Zenon DEF IsWithin
    <3>3. sources \in SUBSET Nat /\ \A i \in sources : i # 0
      BY <2>3, Zenon
    <3> HIDE DEF sources
    <3>4. Cardinality(sources) <= limits.max_files
      BY <3>1, <3>2, <3>3, NoMoreThan, Zenon
    <3>5. QED
      BY <3>4, Zenon DEF sources
  <2>5. ASSUME NEW c \in Range(listed)
        PROVE  /\ Omitted(answer, c) = (c \notin Range(kept))
               /\ Omitted(answer, c) =>
                    /\ IsSource(c)
                    /\ \/ c.size > limits.max_file_bytes
                       \/ Before(kept, c) >= limits.max_files
                       \/ Bytes(kept)[Before(kept, c)] + c.size > limits.max_total_bytes
    <3>1. PICK m \in DOMAIN listed : c = listed[m]
      BY <1>4, Zenon
    <3>2. c.path = m /\ m \in Nat
      BY <1>3, <3>1, Zenon
    <3>3. PICK before : /\ IsBefore(kept, m, before)
                        /\ IsLeftOut(answer, m) => HasReason(c, before, kept, limits)
      BY <2>2, <3>1, Zenon
    <3>4. Before(kept, c) = before
      BY <2>2, <2>3, <3>2, <3>3, PlaceBefore, Zenon
    <3>5. Omitted(answer, c) = IsLeftOut(answer, m)
      BY <3>2, Zenon DEF IsLeftOut
    <3>6. IsLeftOut(answer, m) = (c \notin Range(kept))
      BY <2>2, <3>1, Zenon
    <3>7. IsLeftOut(answer, m) =>
            /\ IsSource(c)
            /\ \/ c.size > limits.max_file_bytes
               \/ Before(kept, c) >= limits.max_files
               \/ Bytes(kept)[Before(kept, c)] + c.size > limits.max_total_bytes
      BY <3>3, <3>4, Zenon DEF HasReason
    <3> HIDE DEF Before, Omitted
    <3>8. QED
      BY <3>5, <3>6, <3>7, Zenon
  <2>6. /\ Bytes(kept)[Len(kept)] <= limits.max_total_bytes
        /\ \A n \in DOMAIN kept :
             /\ IsSource(kept[n]) => kept[n].size <= limits.max_file_bytes
             /\ \A m \in 1 .. n - 1 : kept[m].path < kept[n].path
    BY <2>2, <2>3, Zenon DEF IsWithin
  <2> HIDE DEF Omitted, Before
  <2>7. QED
    BY <2>4, <2>5, <2>6, Zenon
<1>7. ASSUME NEW limits \in LimitPool
      PROVE  LET answer == ApplyMetadataBudgets(listed, limits)
             IN  Respects(limits, answer, answer.retained, Bytes(answer.retained))
  <2> HIDE DEF Respects
  <2>1. QED
    BY <1>6, Zenon
<1>8. QED
  BY <1>7, Zenon DEF AdmissionRespectsBudgets, Bytes, Weight, listed

(***************************************************************************)
(* What a refresh takes in.                                                *)
(***************************************************************************)
DiscoveryInv == PackageInv /\ BudgetInv

LEMMA ListingGrows ==
  ASSUME NEW listed, IsListing(listed), NEW c \in CandidatePool
  PROVE  IsListing(Append(listed, [c EXCEPT !.path = Len(listed) + 1]))
<1> DEFINE entry == [c EXCEPT !.path = Len(listed) + 1]
           longer == Append(listed, entry)
<1>1. entry.path = Len(listed) + 1 /\ entry.size \in Nat
  BY DiscoveryAssumption
<1>2. PICK V : listed \in Seq(V)
  BY DEF IsListing
<1> HIDE DEF entry
<1>3. /\ longer \in Seq(V \cup {entry}) /\ Len(listed) \in Nat
      /\ DOMAIN longer = 1 .. Len(listed) + 1 /\ DOMAIN listed = 1 .. Len(listed)
      /\ longer = [n \in DOMAIN longer |-> longer[n]]
      /\ longer[Len(listed) + 1] = entry
      /\ \A n \in 1 .. Len(listed) : longer[n] = listed[n]
  <2> DEFINE W == V \cup {entry}
  <2>1. entry \in W /\ \A n \in 1 .. Len(listed) : listed[n] \in W
    BY <1>2
  <2>2. listed \in Seq(W)
    <3> HIDE DEF W
    <3>1. listed = [n \in 1 .. Len(listed) |-> listed[n]] /\ Len(listed) \in Nat
      BY <1>2
    <3>2. [n \in 1 .. Len(listed) |-> listed[n]] \in Seq(W)
      BY <2>1, <3>1
    <3>3. QED
      BY <3>1, <3>2
  <2> HIDE DEF W
  <2>3. longer \in Seq(W)
    BY <2>1, <2>2
  <2>4. /\ Len(listed) \in Nat /\ Len(longer) = Len(listed) + 1
        /\ DOMAIN longer = 1 .. Len(longer) /\ DOMAIN listed = 1 .. Len(listed)
    BY <2>1, <2>2
  <2>5. longer = [n \in DOMAIN longer |-> longer[n]]
    <3> HIDE DEF longer
    <3>1. QED
      BY <2>3
  <2>6. /\ longer[Len(listed) + 1] = entry
        /\ \A n \in 1 .. Len(listed) : longer[n] = listed[n]
    BY <2>1, <2>2, <2>4
  <2> HIDE DEF longer
  <2>7. QED
    BY <2>3, <2>4, <2>5, <2>6 DEF W
<1> HIDE DEF longer
<1>4. longer \in Seq(Range(longer))
  BY <1>3, ListOver
<1>5. \A n \in DOMAIN longer : n \in 1 .. Len(listed) \/ n = Len(listed) + 1
  BY <1>3
<1>6. \A n \in 1 .. Len(listed) : listed[n].path = n /\ listed[n].size \in Nat
  BY <1>3 DEF IsListing
<1>7. \A n \in DOMAIN longer : longer[n].path = n /\ longer[n].size \in Nat
  BY <1>1, <1>3, <1>5, <1>6
<1>8. IsListing(longer)
  BY <1>4, <1>7 DEF IsListing
<1>9. QED
  BY <1>8 DEF longer, entry

\* Every source that the budgets admit is taken in, each with the package of
\* the nearest manifest that parses, whatever is listed, whatever lies on the
\* disk and whatever the limits (budgets.rs and discover.rs).
THEOREM DiscoveryStaysExact == RefreshSpec => []DiscoveryIsExact
<1>1. input \in RefreshInputs => DiscoveryInv
  <2>1. IsListing(<<>>)
    BY DEF IsListing
  <2>2. DOMAIN <<>> = {}
    OBVIOUS
  <2>3. QED
    BY <2>1, <2>2 DEF RefreshInputs, Begin, DiscoveryInv, PackageInv, BudgetInv
<1>2. DiscoveryInv /\ [RefreshNext]_input => DiscoveryInv'
  <2> SUFFICES ASSUME DiscoveryInv, [RefreshNext]_input PROVE DiscoveryInv'
    OBVIOUS
  <2>1. CASE AddFile \/ AddUse \/ AddFact \/ RefreshTree \/ DamageUnit
    <3>1. \E given : \/ input' = Begin("files", given) \/ input' = Begin("facts", given)
                    \/ input' = Begin("refresh", given)
      BY <2>1, Zenon DEF AddFile, AddUse, AddFact, RefreshTree, DamageUnit, Give
    <3>2. input'.kind \in {"files", "facts", "refresh"}
      BY <3>1 DEF Begin
    <3>3. QED
      BY <3>2 DEF DiscoveryInv, PackageInv, BudgetInv
  <2>2. CASE AddManifest
    <3>1. PICK path \in ManifestPool, outcome \in {"Parsed", "Failed"} :
            Give("package", [p \in DOMAIN input.given \cup {path} |->
                               IF p = path THEN outcome ELSE input.given[p]])
      BY <2>2 DEF AddManifest
    <3>2. DOMAIN input.given \subseteq ManifestPool
      BY <3>1 DEF Give, DiscoveryInv, PackageInv
    <3>3. /\ input'.kind = "package"
          /\ input'.given = [p \in DOMAIN input.given \cup {path} |->
                               IF p = path THEN outcome ELSE input.given[p]]
      BY <3>1 DEF Give, Begin
    <3>4. DOMAIN input'.given = DOMAIN input.given \cup {path}
      BY <3>3
    <3>5. QED
      BY <3>2, <3>3, <3>4 DEF DiscoveryInv, PackageInv, BudgetInv
  <2>3. CASE AddCandidate
    <3>1. PICK c \in CandidatePool :
            Give("budget", Append(input.given, [c EXCEPT !.path = Len(input.given) + 1]))
      BY <2>3 DEF AddCandidate
    <3>2. IsListing(input.given)
      BY <2>3 DEF AddCandidate, DiscoveryInv, BudgetInv
    <3>3. IsListing(Append(input.given, [c EXCEPT !.path = Len(input.given) + 1]))
      BY <3>2, ListingGrows
    <3>4. /\ input'.kind = "budget"
          /\ input'.given = Append(input.given, [c EXCEPT !.path = Len(input.given) + 1])
      BY <3>1 DEF Give, Begin
    <3>5. QED
      BY <3>3, <3>4 DEF DiscoveryInv, PackageInv, BudgetInv
  <2>4. CASE UNCHANGED input
    BY <2>4 DEF DiscoveryInv, PackageInv, BudgetInv
  <2>5. QED
    BY <2>1, <2>2, <2>3, <2>4 DEF RefreshNext
<1>3. DiscoveryInv => DiscoveryIsExact
  BY PackagesAreNearest, BudgetsAreRespected DEF DiscoveryInv, DiscoveryIsExact
<1>4. QED
  BY <1>1, <1>2, <1>3, PTL DEF RefreshSpec
=============================================================================
