---------------------------- MODULE MirrorProofs ----------------------------
(***************************************************************************)
(* The deltas of the incremental store and the query index a consumer      *)
(* keeps by them: a delta made of the changed files and the references     *)
(* selected with them is the whole difference of the two graphs, and so the*)
(* index it is applied to is the one built from the graph it leads to.     *)
(***************************************************************************)
EXTENDS IncrementalGraphProofs, GraphIndexProofs

\* Where an identity has one record, the first of each identity are all there are.
LEMMA FirstsAreAll ==
  ASSUME NEW V, NEW seq \in Seq(V), OneById(Range(seq))
  PROVE  Range(FirstById(seq)) = Range(seq)
<1> DEFINE first == {i \in DOMAIN seq : \A j \in 1 .. i - 1 : seq[j].id # seq[i].id}
<1>1. Range(FirstById(seq)) = {seq[i] : i \in first}
  BY EntriesChosen DEF FirstById
<1>2. ASSUME NEW m \in DOMAIN seq PROVE \E i \in first : seq[i] = seq[m]
  <2> DEFINE same == {j \in DOMAIN seq : seq[j].id = seq[m].id}
  <2>1. same \in SUBSET Nat /\ m \in same
    OBVIOUS
  <2>2. PICK i \in same : \A j \in same : i <= j
    BY <2>1, LeastNumber
  <2>3. i \in first
    BY <2>2
  <2>4. seq[i] = seq[m]
    BY <2>2 DEF OneById, Range
  <2>5. QED
    BY <2>3, <2>4
<1>3. first \subseteq DOMAIN seq
  OBVIOUS
<1> HIDE DEF first
<1>4. {seq[i] : i \in first} = {seq[i] : i \in DOMAIN seq}
  BY <1>2, <1>3
<1>5. QED
  BY <1>1, <1>4 DEF Range

\* A finite set is listed whole and once.
LEMMA ListOfSet ==
  ASSUME NEW S, IsFiniteSet(S)
  PROVE  /\ IsList(InAnyOrder(S)) /\ Distinct(InAnyOrder(S))
         /\ Range(InAnyOrder(S)) = S
<1> DEFINE n == Cardinality(S)
           Extended(s) == Append(s, CHOOSE x \in S : x \notin Range(s))
           Listed(g, m) == g = [i \in 0 .. m |-> IF i = 0 THEN <<>> ELSE Extended(g[i - 1])]
           T == {m \in 0 .. n : \E g : Listed(g, m)}
           list[i \in 0 .. n] == IF i = 0 THEN <<>> ELSE Extended(list[i - 1])
<1>1. n \in Nat
  BY FS_CardinalityType
<1>2. InAnyOrder(S) = list[n]
  BY DEF InAnyOrder
<1> HIDE DEF n, Extended
<1>3. 0 \in T
  <2>1. 0 .. 0 = {0}
    OBVIOUS
  <2>2. Listed([i \in 0 .. 0 |-> <<>>], 0)
    BY <2>1
  <2> HIDE DEF Listed
  <2>3. \E g : Listed(g, 0)
    BY <2>2
  <2>4. QED
    BY <1>1, <2>3
<1>4. ASSUME NEW m \in 1 .. n, m - 1 \in T PROVE m \in T
  <2>1. PICK g : Listed(g, m - 1)
    BY <1>4
  <2> DEFINE h == [i \in 0 .. m |-> IF i # m THEN g[i] ELSE Extended(g[m - 1])]
  <2>2. ASSUME NEW i \in 0 .. m
        PROVE  h[i] = IF i = 0 THEN <<>> ELSE Extended(h[i - 1])
    <3>1. CASE i = m
      <4>1. h[m - 1] = g[m - 1] /\ m # 0
        BY <1>1
      <4>2. QED
        BY <3>1, <4>1
    <3>2. CASE i # m
      <4>1. i \in 0 .. m - 1 /\ (i # 0 => i - 1 \in 0 .. m /\ i - 1 # m)
        BY <1>1, <3>2
      <4>2. g[i] = IF i = 0 THEN <<>> ELSE Extended(g[i - 1])
        BY <2>1, <4>1
      <4>3. QED
        BY <3>2, <4>1, <4>2
    <3>3. QED
      BY <3>1, <3>2
  <2>3. Listed(h, m)
    <3>1. DOMAIN h = 0 .. m /\ h = [i \in DOMAIN h |-> h[i]]
      OBVIOUS
    <3> HIDE DEF h
    <3>2. QED
      BY <2>2, <3>1
  <2> HIDE DEF Listed, h
  <2>4. \E k : Listed(k, m)
    BY <2>3
  <2>5. QED
    BY <1>1, <2>4
<1> HIDE DEF T
<1>5. n \in T
  BY <1>1, <1>3, <1>4, InductionUpTo
<1>6. list = [i \in 0 .. n |-> IF i = 0 THEN <<>> ELSE Extended(list[i - 1])]
  BY <1>5 DEF T
<1> HIDE DEF list
<1> DEFINE Done == {m \in 0 .. n : /\ list[m] \in Seq(S) /\ Len(list[m]) = m
                                   /\ Distinct(list[m])}
<1>7. 0 \in Done
  <2>1. list[0] = <<>>
    BY <1>1, <1>6
  <2>2. <<>> \in Seq(S) /\ Len(<<>>) = 0 /\ Distinct(<<>>)
    BY DEF Distinct
  <2>3. list[0] \in Seq(S) /\ Len(list[0]) = 0 /\ Distinct(list[0])
    BY <2>1, <2>2, Zenon
  <2>4. 0 \in 0 .. n
    BY <1>1
  <2>5. QED
    BY <2>3, <2>4
<1>8. ASSUME NEW m \in 1 .. n, m - 1 \in Done PROVE m \in Done
  <2> DEFINE before == list[m - 1]
             x == CHOOSE y \in S : y \notin Range(before)
  <2>1. m \in 0 .. n /\ m # 0 /\ m - 1 \in Nat /\ m - 1 < n
    BY <1>1
  <2>2. before \in Seq(S) /\ Len(before) = m - 1 /\ Distinct(before)
    BY <1>8
  <2>3. list[m] = Append(before, x)
    BY <1>6, <2>1 DEF Extended
  <2> HIDE DEF before
  <2>4. \E y \in S : y \notin Range(before)
    <3>1. SUFFICES ASSUME S \subseteq Range(before) PROVE FALSE
      OBVIOUS
    <3>2. before \in Surjection(1 .. m - 1, S)
      BY <2>1, <2>2, <3>1 DEF Surjection, Range
    <3>3. ExistsSurjection(1 .. m - 1, S)
      BY <3>2 DEF ExistsSurjection
    <3>4. Cardinality(S) <= m - 1
      BY <2>1, <3>3, FS_SurjCardinalityBound
    <3>5. QED
      BY <1>1, <2>1, <3>4 DEF n
  <2>5. x \in S /\ x \notin Range(before)
    BY <2>4
  <2> HIDE DEF x
  <2>6. list[m] \in Seq(S) /\ Len(list[m]) = m
    BY <2>1, <2>2, <2>3, <2>5
  <2>7. Distinct(list[m])
    <3>1. /\ DOMAIN list[m] = (DOMAIN before) \cup {m} /\ list[m][m] = x
          /\ \A i \in DOMAIN before : list[m][i] = before[i]
      BY <2>1, <2>2, <2>3, <2>5
    <3>2. \A i \in DOMAIN before : before[i] # x
      BY <2>5 DEF Range
    <3>3. QED
      BY <2>2, <3>1, <3>2 DEF Distinct
  <2>8. QED
    BY <2>1, <2>6, <2>7
<1> HIDE DEF Done
<1>9. n \in Done
  BY <1>1, <1>7, <1>8, InductionUpTo
<1> DEFINE whole == list[n]
<1>10. whole \in Seq(S) /\ Len(whole) = n /\ Distinct(whole)
  BY <1>9 DEF Done
<1>11. whole \in Injection(1 .. n, S)
  BY <1>10 DEF Distinct, Injection, IsInjective
<1>12. Cardinality(1 .. n) = n
  BY <1>1, FS_Interval
<1>13. whole \in Surjection(1 .. n, S)
  <2> HIDE DEF whole
  <2>1. Cardinality(1 .. n) = Cardinality(S) <=> whole \in Surjection(1 .. n, S)
    BY <1>11, FS_Injection
  <2>2. QED
    BY <1>12, <2>1 DEF n
<1> HIDE DEF whole
<1>14. Range(whole) = S
  BY <1>10, <1>13 DEF Surjection, Range
<1>15. IsList(whole)
  BY <1>1, <1>10 DEF IsList
<1>16. QED
  BY <1>2, <1>10, <1>14, <1>15 DEF whole

(***************************************************************************)
(* The graph held, as a set of symbols and a set of edges.                 *)
(***************************************************************************)

\* What a list holds: the symbols and the edges of a set of subgraphs and answers.
SymbolsHeld(subs, some) == UNION {Range(subs[f].symbols) : f \in some \cap DOMAIN subs}
OwnEdges(subs, some) == UNION {Range(subs[f].intra) : f \in some \cap DOMAIN subs}
AnswersHeld(answers, ids) == UNION {Range(answers[id]) : id \in ids \cap DOMAIN answers}
EdgesOf(subs, answers, f) ==
  OwnEdges(subs, {f}) \cup AnswersHeld(answers, {id \in DOMAIN answers : id[1] = f})

MadeOfLists(sub) ==
  \A list \in {sub.symbols, sub.intra, sub.pending} : list \in Seq(Range(list))
AllLists(answers) == \A id \in DOMAIN answers : answers[id] \in Seq(Range(answers[id]))

LEMMA WiderList ==
  ASSUME NEW list, list \in Seq(Range(list)), NEW V, Range(list) \subseteq V
  PROVE  list \in Seq(V)
<1>1. DOMAIN list = 1 .. Len(list) /\ Len(list) \in Nat
  OBVIOUS
<1>2. \A i \in 1 .. Len(list) : list[i] \in V
  BY <1>1 DEF Range
<1>3. QED
  BY <1>1, <1>2

LEMMA ListsAreFinite ==
  ASSUME NEW V, NEW list \in Seq(V)
  PROVE  IsList(list) /\ IsFiniteSet(Range(list))
<1>1. DOMAIN list = 1 .. Len(list) /\ Len(list) \in Nat
  OBVIOUS
<1>2. IsFiniteSet(DOMAIN list)
  BY <1>1, FS_Interval
<1>3. Range(list) = {list[i] : i \in DOMAIN list}
  BY DEF Range
<1>4. IsFiniteSet({list[i] : i \in DOMAIN list})
  BY <1>2, ImageIsFinite
<1>5. IsList(list)
  BY <1>1 DEF IsList
<1>6. QED
  BY <1>3, <1>4, <1>5, Zenon

LEMMA SymbolsOfOrder ==
  ASSUME NEW subs, \A f \in DOMAIN subs : MadeOfLists(subs[f]),
         NEW W, NEW order \in Seq(W), OneById(SymbolsHeld(subs, Range(order)))
  PROVE  /\ Range(SymbolsIn(subs, order)) = SymbolsHeld(subs, Range(order))
         /\ IsFiniteSet(SymbolsHeld(subs, Range(order)))
<1> DEFINE V == SymbolsHeld(subs, DOMAIN subs)
           seqs == [i \in DOMAIN order |-> SymbolsAt(subs, order[i])]
           flat == FlattenSeq(seqs)
<1>1. ASSUME NEW f PROVE SymbolsAt(subs, f) \in Seq(V)
  <2>1. CASE f \in DOMAIN subs
    <3>1. subs[f].symbols \in Seq(Range(subs[f].symbols))
      BY <2>1 DEF MadeOfLists
    <3>2. Range(subs[f].symbols) \subseteq V
      BY <2>1 DEF SymbolsHeld
    <3> HIDE DEF V
    <3>3. QED
      BY <2>1, <3>1, <3>2, WiderList DEF SymbolsAt
  <2>2. CASE f \notin DOMAIN subs
    BY <2>2 DEF SymbolsAt
  <2>3. QED
    BY <2>1, <2>2
<1> HIDE DEF V
<1>2. DOMAIN order = 1 .. Len(order) /\ Len(order) \in Nat
  OBVIOUS
<1>3. seqs \in Seq(Seq(V))
  BY <1>1, <1>2
<1>4. /\ flat \in Seq(V)
      /\ Range(flat) = UNION {Range(seqs[i]) : i \in DOMAIN seqs}
  <2> HIDE DEF seqs
  <2>1. QED
    BY <1>3, RangeOfFlattened
<1>5. ASSUME NEW f
      PROVE  Range(SymbolsAt(subs, f)) = SymbolsHeld(subs, {f})
  <2>1. Range(<<>>) = {}
    BY DEF Range
  <2>2. QED
    BY <2>1 DEF SymbolsAt, SymbolsHeld
<1>6. Range(flat) = SymbolsHeld(subs, Range(order))
  <2>1. Range(flat) = UNION {SymbolsHeld(subs, {order[i]}) : i \in DOMAIN order}
    BY <1>4, <1>5
  <2>2. ASSUME NEW x PROVE x \in Range(flat) <=> x \in SymbolsHeld(subs, Range(order))
    <3>1. x \in Range(flat) <=> \E i \in DOMAIN order : x \in SymbolsHeld(subs, {order[i]})
      BY <2>1
    <3>2. \A f : x \in SymbolsHeld(subs, {f}) <=> f \in DOMAIN subs /\ x \in Range(subs[f].symbols)
      BY DEF SymbolsHeld
    <3>3. x \in SymbolsHeld(subs, Range(order))
            <=> \E i \in DOMAIN order : x \in SymbolsHeld(subs, {order[i]})
      BY <3>2 DEF SymbolsHeld, Range
    <3>4. QED
      BY <3>1, <3>3
  <2> HIDE DEF flat
  <2>3. QED
    BY <2>2
<1>7. SymbolsIn(subs, order) = FirstById(flat)
  BY DEF SymbolsIn
<1> HIDE DEF flat
<1>8. QED
  BY <1>4, <1>6, <1>7, FirstsAreAll, ListsAreFinite

LEMMA EdgesOfFile ==
  ASSUME NEW subs, NEW answers, DOMAIN answers = IdsOf(subs), AllLists(answers),
         NEW f, f \in DOMAIN subs => MadeOfLists(subs[f])
  PROVE  /\ EdgesAt(subs, answers, f) \in Seq(Range(EdgesAt(subs, answers, f)))
         /\ Range(EdgesAt(subs, answers, f)) = EdgesOf(subs, answers, f)
<1>1. CASE f \notin DOMAIN subs
  <2>1. Range(<<>>) = {} /\ <<>> \in Seq({})
    BY DEF Range
  <2>2. \A id \in DOMAIN answers : id[1] # f
    BY <1>1, IdMembers
  <2>3. QED
    BY <1>1, <2>1, <2>2 DEF EdgesAt, EdgesOf, OwnEdges, AnswersHeld
<1>2. CASE f \in DOMAIN subs
  <2> DEFINE ids == {id \in DOMAIN answers : id[1] = f}
             V == OwnEdges(subs, {f}) \cup AnswersHeld(answers, ids)
             seqs == [i \in DOMAIN subs[f].pending |-> answers[<<f, i>>]]
             flat == FlattenSeq(seqs)
  <2>1. ids = {<<f, i>> : i \in DOMAIN subs[f].pending}
    <3>1. \A i \in DOMAIN subs[f].pending : <<f, i>> \in ids
      BY <1>2, IdMembers
    <3>2. \A id \in ids : id = <<f, id[2]>> /\ id[2] \in DOMAIN subs[f].pending
      BY IdMembers
    <3>3. QED
      BY <3>1, <3>2
  <2>2. /\ subs[f].intra \in Seq(Range(subs[f].intra))
        /\ subs[f].pending \in Seq(Range(subs[f].pending))
    BY <1>2 DEF MadeOfLists
  <2>3. DOMAIN subs[f].pending = 1 .. Len(subs[f].pending) /\ Len(subs[f].pending) \in Nat
    BY <2>2
  <2>4. subs[f].intra \in Seq(V)
    <3>1. Range(subs[f].intra) \subseteq V
      BY <1>2 DEF OwnEdges
    <3> HIDE DEF V
    <3>2. QED
      BY <2>2, <3>1, WiderList
  <2>5. ASSUME NEW i \in DOMAIN subs[f].pending PROVE answers[<<f, i>>] \in Seq(V)
    <3>1. <<f, i>> \in ids
      BY <2>1
    <3>2. answers[<<f, i>>] \in Seq(Range(answers[<<f, i>>]))
      BY <3>1 DEF AllLists
    <3>3. Range(answers[<<f, i>>]) \subseteq V
      BY <3>1 DEF AnswersHeld
    <3> HIDE DEF V
    <3>4. QED
      BY <3>2, <3>3, WiderList
  <2>6. AnswersHeld(answers, ids) = UNION {Range(answers[<<f, i>>]) : i \in DOMAIN subs[f].pending}
    <3>1. ids \cap DOMAIN answers = ids
      OBVIOUS
    <3>2. AnswersHeld(answers, ids) = UNION {Range(answers[id]) : id \in ids}
      BY <3>1 DEF AnswersHeld
    <3> HIDE DEF ids
    <3>3. ASSUME NEW e
          PROVE  e \in AnswersHeld(answers, ids)
                   <=> \E i \in DOMAIN subs[f].pending : e \in Range(answers[<<f, i>>])
      <4>1. e \in AnswersHeld(answers, ids) <=> \E id \in ids : e \in Range(answers[id])
        BY <3>2
      <4>2. QED
        BY <2>1, <4>1
    <3>4. QED
      BY <3>2, <3>3
  <2>7. OwnEdges(subs, {f}) = Range(subs[f].intra)
    BY <1>2 DEF OwnEdges
  <2> HIDE DEF V, ids
  <2>8. seqs \in Seq(Seq(V))
    BY <2>3, <2>5
  <2>9. flat \in Seq(V) /\ Range(flat) = UNION {Range(seqs[i]) : i \in DOMAIN seqs}
    <3> HIDE DEF seqs
    <3>1. QED
      BY <2>8, RangeOfFlattened
  <2>10. Range(flat) = AnswersHeld(answers, ids)
    BY <2>6, <2>9
  <2>11. EdgesAt(subs, answers, f) = subs[f].intra \o flat
    BY <1>2 DEF EdgesAt
  <2> HIDE DEF flat
  <2>12. /\ EdgesAt(subs, answers, f) \in Seq(V)
         /\ Range(EdgesAt(subs, answers, f)) = OwnEdges(subs, {f}) \cup AnswersHeld(answers, ids)
    BY <2>4, <2>7, <2>9, <2>10, <2>11, RangeOfConcatenation
  <2>13. QED
    BY <2>12 DEF V, ids, EdgesOf
<1>3. QED
  BY <1>1, <1>2

LEMMA EdgesOfGraph ==
  ASSUME NEW subs, \A f \in DOMAIN subs : MadeOfLists(subs[f]),
         DOMAIN subs \subseteq Range(FileOrder),
         NEW answers, DOMAIN answers = IdsOf(subs), AllLists(answers)
  PROVE  /\ Range(GraphOf(subs, answers).edges)
              = OwnEdges(subs, DOMAIN subs) \cup AnswersHeld(answers, DOMAIN answers)
         /\ IsFiniteSet(Range(GraphOf(subs, answers).edges))
<1> DEFINE all == OwnEdges(subs, DOMAIN subs) \cup AnswersHeld(answers, DOMAIN answers)
           seqs == [i \in DOMAIN FileOrder |-> EdgesAt(subs, answers, FileOrder[i])]
           flat == FlattenSeq(seqs)
<1>1. \A f : EdgesOf(subs, answers, f) \subseteq all
  BY DEF EdgesOf, OwnEdges, AnswersHeld
<1>2. all \subseteq UNION {EdgesOf(subs, answers, f) : f \in Range(FileOrder)}
  <2>1. ASSUME NEW e \in OwnEdges(subs, DOMAIN subs)
        PROVE  \E f \in Range(FileOrder) : e \in EdgesOf(subs, answers, f)
    <3>1. PICK f \in DOMAIN subs : e \in Range(subs[f].intra)
      BY <2>1 DEF OwnEdges
    <3>2. QED
      BY <3>1 DEF EdgesOf, OwnEdges
  <2>2. ASSUME NEW e \in AnswersHeld(answers, DOMAIN answers)
        PROVE  \E f \in Range(FileOrder) : e \in EdgesOf(subs, answers, f)
    <3>1. PICK id \in DOMAIN answers : e \in Range(answers[id])
      BY <2>2 DEF AnswersHeld
    <3>2. id[1] \in DOMAIN subs
      BY <3>1, IdMembers
    <3>3. e \in EdgesOf(subs, answers, id[1])
      BY <3>1 DEF EdgesOf, AnswersHeld
    <3>4. QED
      BY <3>2, <3>3
  <2>3. QED
    BY <2>1, <2>2
<1>3. ASSUME NEW f PROVE EdgesAt(subs, answers, f) \in Seq(all)
                         /\ Range(EdgesAt(subs, answers, f)) = EdgesOf(subs, answers, f)
  <2>1. f \in DOMAIN subs => MadeOfLists(subs[f])
    OBVIOUS
  <2>2. /\ EdgesAt(subs, answers, f) \in Seq(Range(EdgesAt(subs, answers, f)))
        /\ Range(EdgesAt(subs, answers, f)) = EdgesOf(subs, answers, f)
    BY <2>1, EdgesOfFile
  <2> HIDE DEF all
  <2>3. Range(EdgesAt(subs, answers, f)) \subseteq all
    BY <1>1, <2>2
  <2>4. EdgesAt(subs, answers, f) \in Seq(all)
    BY <2>2, <2>3, WiderList
  <2>5. QED
    BY <2>2, <2>4
<1> HIDE DEF all
<1>4. DOMAIN FileOrder = 1 .. Len(FileOrder) /\ Len(FileOrder) \in Nat
  BY OrderAssumption
<1>5. seqs \in Seq(Seq(all))
  BY <1>3, <1>4
<1>6. flat \in Seq(all) /\ Range(flat) = UNION {Range(seqs[i]) : i \in DOMAIN seqs}
  <2> HIDE DEF seqs
  <2>1. QED
    BY <1>5, RangeOfFlattened
<1>7. Range(flat) = UNION {EdgesOf(subs, answers, f) : f \in Range(FileOrder)}
  <2>1. DOMAIN seqs = DOMAIN FileOrder
        /\ \A i \in DOMAIN FileOrder : Range(seqs[i]) = EdgesOf(subs, answers, FileOrder[i])
    BY <1>3
  <2> HIDE DEF seqs, flat
  <2>2. ASSUME NEW e
        PROVE  e \in Range(flat)
                 <=> \E i \in DOMAIN FileOrder : e \in EdgesOf(subs, answers, FileOrder[i])
    BY <1>6, <2>1
  <2>3. QED
    BY <2>2 DEF Range
<1>8. Range(flat) = all
  BY <1>1, <1>2, <1>7
<1>9. GraphOf(subs, answers).edges = flat
  BY DEF GraphOf
<1> HIDE DEF flat
<1>10. QED
  BY <1>6, <1>8, <1>9, ListsAreFinite DEF all

(***************************************************************************)
(* The difference of the changed parts is the difference of the wholes.    *)
(***************************************************************************)

LEMMA SymbolsBeside ==
  ASSUME NEW B, NEW B2, NEW R, \A s \in B \cup B2, t \in R : s.id # t.id
  PROVE  /\ IdsIn(B) \ IdsIn(B2) = IdsIn(B \cup R) \ IdsIn(B2 \cup R)
         /\ B2 \ B = (B2 \cup R) \ (B \cup R)
<1>1. \A X : IdsIn(X \cup R) = IdsIn(X) \cup IdsIn(R)
  BY DEF IdsIn
<1>2. \A i \in IdsIn(B) \cup IdsIn(B2) : i \notin IdsIn(R)
  BY DEF IdsIn
<1>3. \A s \in B2 : s \notin R
  OBVIOUS
<1>4. QED
  BY <1>1, <1>2, <1>3

LEMMA EdgesBeside ==
  ASSUME NEW C, NEW C2, NEW Q, \A d \in C \cup C2, e \in Q : EdgeKey(d) # EdgeKey(e)
  PROVE  /\ KeysIn(C) \ KeysIn(C2) = KeysIn(C \cup Q) \ KeysIn(C2 \cup Q)
         /\ C2 \ C = (C2 \cup Q) \ (C \cup Q)
<1>1. \A X : KeysIn(X \cup Q) = KeysIn(X) \cup KeysIn(Q)
  BY DEF KeysIn
<1>2. \A i \in KeysIn(C) \cup KeysIn(C2) : i \notin KeysIn(Q)
  BY DEF KeysIn
<1>3. \A d \in C2 : d \notin Q
  OBVIOUS
<1>4. QED
  BY <1>1, <1>2, <1>3

\* What changed, beside what did not, is the whole difference.
LEMMA BoundedIsWhole ==
  ASSUME NEW base, NEW token, NEW B, NEW B2, NEW R, NEW C, NEW C2, NEW Q,
         IsFiniteSet(B), IsFiniteSet(B2), IsFiniteSet(C), IsFiniteSet(C2),
         \A s \in B \cup B2, t \in R : s.id # t.id,
         \A d \in C \cup C2, e \in Q : EdgeKey(d) # EdgeKey(e)
  PROVE  /\ DeltaFromBounds(base, token, B, B2, C, C2).base = base
         /\ DeltaFromBounds(base, token, B, B2, C, C2).snapshot = token
         /\ IsDifference(DeltaFromBounds(base, token, B, B2, C, C2),
                         B \cup R, C \cup Q, B2 \cup R, C2 \cup Q)
<1> DEFINE d == DeltaFromBounds(base, token, B, B2, C, C2)
<1>1. /\ d.base = base /\ d.snapshot = token
      /\ d.removed_symbols = InAnyOrder(IdsIn(B) \ IdsIn(B2))
      /\ d.upserted_symbols = InAnyOrder(B2 \ B)
      /\ d.removed_edges = InAnyOrder(KeysIn(C) \ KeysIn(C2))
      /\ d.upserted_edges = InAnyOrder(C2 \ C)
  BY DEF DeltaFromBounds, IdsIn, KeysIn
<1> HIDE DEF d
<1>2. IsFiniteSet(IdsIn(B) \ IdsIn(B2))
  <2> DEFINE id == [s \in B |-> s.id]
  <2>1. IsFiniteSet({id[s] : s \in B})
    <3> HIDE DEF id
    <3>1. QED
      BY ImageIsFinite
  <2>2. IdsIn(B) \ IdsIn(B2) \in SUBSET {id[s] : s \in B}
    BY DEF IdsIn
  <2> HIDE DEF id
  <2>3. QED
    BY <2>1, <2>2, FS_Subset
<1>3. IsFiniteSet(KeysIn(C) \ KeysIn(C2))
  <2> DEFINE key == [e \in C |-> EdgeKey(e)]
  <2>1. IsFiniteSet({key[e] : e \in C})
    <3> HIDE DEF key
    <3>1. QED
      BY ImageIsFinite
  <2>2. KeysIn(C) \ KeysIn(C2) \in SUBSET {key[e] : e \in C}
    BY DEF KeysIn
  <2> HIDE DEF key
  <2>3. QED
    BY <2>1, <2>2, FS_Subset
<1>4. IsFiniteSet(B2 \ B) /\ IsFiniteSet(C2 \ C)
  <2>1. B2 \ B \in SUBSET B2 /\ C2 \ C \in SUBSET C2
    OBVIOUS
  <2>2. QED
    BY <2>1, FS_Subset
<1>5. /\ IsList(d.removed_symbols) /\ Distinct(d.removed_symbols)
      /\ Range(d.removed_symbols) = IdsIn(B) \ IdsIn(B2)
  BY <1>1, <1>2, ListOfSet
<1>6. /\ IsList(d.upserted_symbols) /\ Distinct(d.upserted_symbols)
      /\ Range(d.upserted_symbols) = B2 \ B
  BY <1>1, <1>4, ListOfSet
<1>7. /\ IsList(d.removed_edges) /\ Distinct(d.removed_edges)
      /\ Range(d.removed_edges) = KeysIn(C) \ KeysIn(C2)
  BY <1>1, <1>3, ListOfSet
<1>8. /\ IsList(d.upserted_edges) /\ Distinct(d.upserted_edges)
      /\ Range(d.upserted_edges) = C2 \ C
  BY <1>1, <1>4, ListOfSet
<1>9. /\ IdsIn(B) \ IdsIn(B2) = IdsIn(B \cup R) \ IdsIn(B2 \cup R)
      /\ B2 \ B = (B2 \cup R) \ (B \cup R)
  BY SymbolsBeside
<1>10. /\ KeysIn(C) \ KeysIn(C2) = KeysIn(C \cup Q) \ KeysIn(C2 \cup Q)
       /\ C2 \ C = (C2 \cup Q) \ (C \cup Q)
  BY EdgesBeside
<1>11. IsDifference(d, B \cup R, C \cup Q, B2 \cup R, C2 \cup Q)
  BY <1>5, <1>6, <1>7, <1>8, <1>9, <1>10, Zenon DEF IsDifference
<1>12. QED
  BY <1>1, <1>11 DEF d

(***************************************************************************)
(* Files that share no identity and places that share no edge.             *)
(***************************************************************************)
AnswersOnce(answers) == \A id \in DOMAIN answers : Len(answers[id]) \in {0, 1}

LEMMA SymbolsApart ==
  ASSUME NEW subs, NEW answers, ApartIn(subs, answers)
  PROVE  /\ \A some : OneById(SymbolsHeld(subs, some))
         /\ \A some : \A s \in SymbolsHeld(subs, some),
                         t \in SymbolsHeld(subs, DOMAIN subs \ some) : s.id # t.id
<1>1. \A f, g \in DOMAIN subs :
        \A s \in Range(subs[f].symbols), t \in Range(subs[g].symbols) :
          s.id = t.id => f = g /\ s = t
  BY DEF ApartIn
<1>2. ASSUME NEW some, NEW s \in SymbolsHeld(subs, some)
      PROVE  \E f \in some \cap DOMAIN subs : s \in Range(subs[f].symbols)
  BY <1>2 DEF SymbolsHeld
<1>3. ASSUME NEW some, NEW s \in SymbolsHeld(subs, some), NEW t \in SymbolsHeld(subs, some),
             s.id = t.id
      PROVE  s = t
  <2>1. PICK f \in DOMAIN subs : s \in Range(subs[f].symbols)
    BY <1>2, <1>3
  <2>2. PICK g \in DOMAIN subs : t \in Range(subs[g].symbols)
    BY <1>2, <1>3
  <2>3. QED
    BY <1>1, <1>3, <2>1, <2>2
<1>4. ASSUME NEW some, NEW s \in SymbolsHeld(subs, some),
             NEW t \in SymbolsHeld(subs, DOMAIN subs \ some)
      PROVE  s.id # t.id
  <2>1. PICK f \in some \cap DOMAIN subs : s \in Range(subs[f].symbols)
    BY <1>2, <1>4
  <2>2. PICK g \in (DOMAIN subs \ some) \cap DOMAIN subs : t \in Range(subs[g].symbols)
    BY <1>2, <1>4
  <2>3. QED
    BY <1>1, <2>1, <2>2
<1>5. QED
  BY <1>3, <1>4 DEF OneById

\* The edges of some files and references, of all, and of the others.
Edges(subs, answers, some, ids) == OwnEdges(subs, some) \cup AnswersHeld(answers, ids)

LEMMA EdgesApart ==
  ASSUME NEW subs, NEW answers, ApartIn(subs, answers), AllLists(answers), AnswersOnce(answers)
  PROVE  /\ OneByKey(Edges(subs, answers, DOMAIN subs, DOMAIN answers))
         /\ \A some, ids :
              \A d \in Edges(subs, answers, some, ids),
                 e \in Edges(subs, answers, DOMAIN subs \ some, DOMAIN answers \ ids) :
                EdgeKey(d) # EdgeKey(e)
<1>1. /\ \A f, g \in DOMAIN subs :
           \A d \in Range(subs[f].intra), e \in Range(subs[g].intra) :
             EdgeKey(d) = EdgeKey(e) => f = g /\ d = e
      /\ \A x, y \in DOMAIN answers : \A d \in Range(answers[x]), e \in Range(answers[y]) :
           EdgeKey(d) = EdgeKey(e) => x = y
      /\ \A f \in DOMAIN subs, x \in DOMAIN answers :
           \A d \in Range(subs[f].intra), e \in Range(answers[x]) : EdgeKey(d) # EdgeKey(e)
  BY DEF ApartIn
<1>2. ASSUME NEW some, NEW ids, NEW d \in Edges(subs, answers, some, ids)
      PROVE  \/ \E f \in some \cap DOMAIN subs : d \in Range(subs[f].intra)
             \/ \E x \in ids \cap DOMAIN answers : d \in Range(answers[x])
  BY <1>2 DEF Edges, OwnEdges, AnswersHeld
<1>3. ASSUME NEW x \in DOMAIN answers, NEW d \in Range(answers[x]), NEW e \in Range(answers[x])
      PROVE  d = e
  <2>1. answers[x] \in Seq(Range(answers[x])) /\ Len(answers[x]) \in {0, 1}
    BY DEF AllLists, AnswersOnce
  <2>2. DOMAIN answers[x] \subseteq {1}
    BY <2>1
  <2>3. QED
    BY <2>2 DEF Range
<1>4. ASSUME NEW some, NEW ids, NEW d \in Edges(subs, answers, some, ids),
             NEW e \in Edges(subs, answers, DOMAIN subs \ some, DOMAIN answers \ ids),
             EdgeKey(d) = EdgeKey(e)
      PROVE  FALSE
  <2>1. \/ \E f \in some \cap DOMAIN subs : d \in Range(subs[f].intra)
        \/ \E x \in ids \cap DOMAIN answers : d \in Range(answers[x])
    BY <1>2, <1>4
  <2>2. \/ \E f \in (DOMAIN subs \ some) \cap DOMAIN subs : e \in Range(subs[f].intra)
        \/ \E x \in (DOMAIN answers \ ids) \cap DOMAIN answers : e \in Range(answers[x])
    BY <1>2, <1>4
  <2>3. QED
    BY <1>1, <1>4, <2>1, <2>2
<1>5. ASSUME NEW d \in Edges(subs, answers, DOMAIN subs, DOMAIN answers),
             NEW e \in Edges(subs, answers, DOMAIN subs, DOMAIN answers),
             EdgeKey(d) = EdgeKey(e)
      PROVE  d = e
  <2>1. \/ \E f \in DOMAIN subs : d \in Range(subs[f].intra)
        \/ \E x \in DOMAIN answers : d \in Range(answers[x])
    BY <1>2, <1>5
  <2>2. \/ \E f \in DOMAIN subs : e \in Range(subs[f].intra)
        \/ \E x \in DOMAIN answers : e \in Range(answers[x])
    BY <1>2, <1>5
  <2>3. QED
    BY <1>1, <1>3, <1>5, <2>1, <2>2
<1>6. QED
  BY <1>4, <1>5 DEF OneByKey

LEMMA SymbolsTogether ==
  ASSUME NEW subs, NEW some, DOMAIN subs \subseteq Range(FileOrder)
  PROVE  SymbolsHeld(subs, Range(FileOrder))
           = SymbolsHeld(subs, some) \cup SymbolsHeld(subs, DOMAIN subs \ some)
<1>1. DOMAIN subs = (some \cap DOMAIN subs) \cup ((DOMAIN subs \ some) \cap DOMAIN subs)
      /\ Range(FileOrder) \cap DOMAIN subs = DOMAIN subs
  OBVIOUS
<1>2. QED
  BY <1>1 DEF SymbolsHeld

LEMMA EdgesTogether ==
  ASSUME NEW subs, NEW answers, NEW some, NEW ids
  PROVE  Edges(subs, answers, DOMAIN subs, DOMAIN answers)
           = Edges(subs, answers, some, ids)
               \cup Edges(subs, answers, DOMAIN subs \ some, DOMAIN answers \ ids)
<1>1. DOMAIN subs = (some \cap DOMAIN subs) \cup ((DOMAIN subs \ some) \cap DOMAIN subs)
      /\ DOMAIN subs \cap DOMAIN subs = DOMAIN subs
  OBVIOUS
<1>2. DOMAIN answers = (ids \cap DOMAIN answers) \cup ((DOMAIN answers \ ids) \cap DOMAIN answers)
      /\ DOMAIN answers \cap DOMAIN answers = DOMAIN answers
  OBVIOUS
<1>3. OwnEdges(subs, DOMAIN subs) = OwnEdges(subs, some) \cup OwnEdges(subs, DOMAIN subs \ some)
  BY <1>1 DEF OwnEdges
<1>4. AnswersHeld(answers, DOMAIN answers)
        = AnswersHeld(answers, ids) \cup AnswersHeld(answers, DOMAIN answers \ ids)
  BY <1>2 DEF AnswersHeld
<1>5. QED
  BY <1>3, <1>4 DEF Edges

\* What a store holds is a graph the query index can be built of.
IsStore(subs, answers) ==
  /\ DOMAIN subs \subseteq Range(FileOrder)
  /\ \A f \in DOMAIN subs : MadeOfLists(subs[f])
  /\ DOMAIN answers = IdsOf(subs)
  /\ AllLists(answers)
  /\ AnswersOnce(answers)
  /\ ApartIn(subs, answers)

LEMMA GraphOfStore ==
  ASSUME NEW subs, NEW answers, IsStore(subs, answers)
  PROVE  /\ Range(GraphOf(subs, answers).symbols) = SymbolsHeld(subs, Range(FileOrder))
         /\ Range(GraphOf(subs, answers).edges)
              = Edges(subs, answers, DOMAIN subs, DOMAIN answers)
         /\ IsFiniteSet(Range(GraphOf(subs, answers).edges))
         /\ OneById(Range(GraphOf(subs, answers).symbols))
         /\ OneByKey(Range(GraphOf(subs, answers).edges))
<1>1. OneById(SymbolsHeld(subs, Range(FileOrder)))
      /\ OneByKey(Edges(subs, answers, DOMAIN subs, DOMAIN answers))
  BY SymbolsApart, EdgesApart DEF IsStore
<1>2. Range(SymbolsIn(subs, FileOrder)) = SymbolsHeld(subs, Range(FileOrder))
  <2>1. \A f \in DOMAIN subs : MadeOfLists(subs[f])
    BY DEF IsStore
  <2>2. QED
    BY <1>1, <2>1, OrderAssumption, SymbolsOfOrder
<1>3. GraphOf(subs, answers).symbols = SymbolsIn(subs, FileOrder)
  BY DEF GraphOf
<1>4. /\ Range(GraphOf(subs, answers).edges)
           = Edges(subs, answers, DOMAIN subs, DOMAIN answers)
      /\ IsFiniteSet(Range(GraphOf(subs, answers).edges))
  BY EdgesOfGraph DEF IsStore, Edges
<1>5. QED
  BY <1>1, <1>2, <1>3, <1>4

\* The targets of a batch, walked in any order, are walked whole.
LEMMA OrderIsWhole ==
  ASSUME NEW targets, IsFiniteSet(targets), NEW order \in SetToSeqs(targets)
  PROVE  order \in Seq(targets) /\ Range(order) = targets
<1> DEFINE n == Cardinality(targets)
<1>1. n \in Nat
  BY FS_CardinalityType
<1>2. order \in [1 .. n -> targets] /\ \A i, j \in 1 .. n : i # j => order[i] # order[j]
  BY DEF SetToSeqs
<1> HIDE DEF n
<1>3. order \in Seq(targets)
  BY <1>1, <1>2
<1>4. order \in Injection(1 .. n, targets)
  BY <1>2 DEF Injection, IsInjective
<1>5. Cardinality(1 .. n) = n
  BY <1>1, FS_Interval
<1>6. order \in Surjection(1 .. n, targets)
  <2>1. Cardinality(1 .. n) = Cardinality(targets) <=> order \in Surjection(1 .. n, targets)
    BY <1>4, FS_Injection
  <2>2. QED
    BY <1>5, <2>1 DEF n
<1>7. Range(order) = targets
  BY <1>2, <1>6 DEF Surjection, Range
<1>8. QED
  BY <1>3, <1>7

\* A delta leads from a graph to a graph the index can be built of, and is all that
\* distinguishes them.
LeadsOn(d) ==
  /\ OneById(Range(d.base.symbols)) /\ OneById(Range(d.snapshot.symbols))
  /\ OneByKey(Range(d.base.edges)) /\ OneByKey(Range(d.snapshot.edges))
  /\ IsFiniteSet(Range(d.base.edges))
  /\ IsDifference(d, Range(d.base.symbols), Range(d.base.edges),
                  Range(d.snapshot.symbols), Range(d.snapshot.edges))

LEMMA BoundEdgesAre ==
  ASSUME NEW subs, NEW answers, NEW targets, NEW shown
  PROVE  BoundEdges(subs, answers, targets, shown)
           = Edges(subs, answers, targets,
                   {id \in DOMAIN answers : id[1] \in targets} \cup (shown \cap DOMAIN answers))
<1> DEFINE picked == {id \in DOMAIN answers : id[1] \in targets} \cup (shown \cap DOMAIN answers)
<1>1. picked \cap DOMAIN answers = picked
  OBVIOUS
<1>2. BoundEdges(subs, answers, targets, shown)
        = OwnEdges(subs, targets) \cup UNION {Range(answers[id]) : id \in picked}
  BY DEF BoundEdges, OwnEdges
<1> HIDE DEF picked
<1>3. BoundEdges(subs, answers, targets, shown) = Edges(subs, answers, targets, picked)
  BY <1>1, <1>2 DEF Edges, AnswersHeld
<1>4. QED
  BY <1>3 DEF picked

LEMMA DeltaOfStores ==
  ASSUME NEW old, NEW answers, NEW next, NEW answers2,
         IsStore(old, answers), IsStore(next, answers2),
         NEW targets, IsFiniteSet(targets), AgreeOutside(targets, old, next),
         NEW shown,
         \A id \in DOMAIN answers2 :
           id[1] \notin targets /\ id \notin shown => answers2[id] = answers[id],
         NEW order \in SetToSeqs(targets)
  PROVE  LeadsOn(DeltaFromBounds(GraphOf(old, answers), GraphOf(next, answers2),
                   BoundSymbols(old, order), BoundSymbols(next, order),
                   BoundEdges(old, answers, targets, shown),
                   BoundEdges(next, answers2, targets, shown)))
<1> DEFINE B == SymbolsHeld(old, targets)
           B2 == SymbolsHeld(next, targets)
           R == SymbolsHeld(old, DOMAIN old \ targets)
           picked == {id \in DOMAIN answers : id[1] \in targets} \cup (shown \cap DOMAIN answers)
           picked2 == {id \in DOMAIN answers2 : id[1] \in targets}
                        \cup (shown \cap DOMAIN answers2)
           C == Edges(old, answers, targets, picked)
           C2 == Edges(next, answers2, targets, picked2)
           Q == Edges(old, answers, DOMAIN old \ targets, DOMAIN answers \ picked)
           d == DeltaFromBounds(GraphOf(old, answers), GraphOf(next, answers2), B, B2, C, C2)
<1>1. order \in Seq(targets) /\ Range(order) = targets
  BY OrderIsWhole
<1>2. /\ BoundSymbols(old, order) = B /\ IsFiniteSet(B)
      /\ BoundSymbols(next, order) = B2 /\ IsFiniteSet(B2)
  <2>1. /\ \A f \in DOMAIN old : MadeOfLists(old[f])
        /\ OneById(SymbolsHeld(old, Range(order)))
    BY SymbolsApart DEF IsStore
  <2>2. /\ \A f \in DOMAIN next : MadeOfLists(next[f])
        /\ OneById(SymbolsHeld(next, Range(order)))
    BY SymbolsApart DEF IsStore
  <2>3. /\ Range(SymbolsIn(old, order)) = SymbolsHeld(old, Range(order))
        /\ IsFiniteSet(SymbolsHeld(old, Range(order)))
    BY <1>1, <2>1, SymbolsOfOrder
  <2>4. /\ Range(SymbolsIn(next, order)) = SymbolsHeld(next, Range(order))
        /\ IsFiniteSet(SymbolsHeld(next, Range(order)))
    BY <1>1, <2>2, SymbolsOfOrder
  <2>5. QED
    BY <1>1, <2>3, <2>4 DEF BoundSymbols
<1>3. /\ BoundEdges(old, answers, targets, shown) = C
      /\ BoundEdges(next, answers2, targets, shown) = C2
  <2> DEFINE C3 == Edges(old, answers, targets, picked)
             C4 == Edges(next, answers2, targets, picked2)
  <2>1. BoundEdges(old, answers, targets, shown) = C3
    BY BoundEdgesAre
  <2>2. BoundEdges(next, answers2, targets, shown) = C4
    BY BoundEdgesAre
  <2>3. QED
    BY <2>1, <2>2
<1>4. SymbolsHeld(next, DOMAIN next \ targets) = R
  BY DEF SymbolsHeld, AgreeOutside
<1>5. OwnEdges(next, DOMAIN next \ targets) = OwnEdges(old, DOMAIN old \ targets)
  BY DEF OwnEdges, AgreeOutside
<1>6. AnswersHeld(answers2, DOMAIN answers2 \ picked2) = AnswersHeld(answers, DOMAIN answers \ picked)
  <2>1. \A id : id[1] \notin targets => (id \in DOMAIN answers <=> id \in DOMAIN answers2)
    BY IdMembers DEF IsStore, AgreeOutside
  <2>2. /\ \A id : id \in DOMAIN answers \ picked
                     <=> id \in DOMAIN answers /\ id[1] \notin targets /\ id \notin shown
        /\ \A id : id \in DOMAIN answers2 \ picked2
                     <=> id \in DOMAIN answers2 /\ id[1] \notin targets /\ id \notin shown
    OBVIOUS
  <2> HIDE DEF picked, picked2
  <2>3. DOMAIN answers2 \ picked2 = DOMAIN answers \ picked
    BY <2>1, <2>2
  <2>4. \A id \in DOMAIN answers \ picked : answers2[id] = answers[id]
    BY <2>1, <2>2
  <2>5. QED
    BY <2>3, <2>4 DEF AnswersHeld
<1>7. Edges(next, answers2, DOMAIN next \ targets, DOMAIN answers2 \ picked2) = Q
  BY <1>5, <1>6 DEF Edges
<1> HIDE DEF picked, picked2
<1>8. /\ Range(GraphOf(old, answers).symbols) = B \cup R
      /\ Range(GraphOf(old, answers).edges) = C \cup Q
      /\ OneById(Range(GraphOf(old, answers).symbols))
      /\ OneByKey(Range(GraphOf(old, answers).edges))
      /\ IsFiniteSet(Range(GraphOf(old, answers).edges))
  <2>1. DOMAIN old \subseteq Range(FileOrder)
    BY DEF IsStore
  <2>2. /\ SymbolsHeld(old, Range(FileOrder)) = B \cup R
        /\ Edges(old, answers, DOMAIN old, DOMAIN answers) = C \cup Q
    <3>1. SymbolsHeld(old, Range(FileOrder)) = B \cup R
      BY <2>1, SymbolsTogether
    <3>2. Edges(old, answers, DOMAIN old, DOMAIN answers) = C \cup Q
      BY EdgesTogether
    <3>3. QED
      BY <3>1, <3>2
  <2> HIDE DEF B, R, C, Q
  <2>3. QED
    BY <2>2, GraphOfStore
<1>9. /\ Range(GraphOf(next, answers2).symbols) = B2 \cup R
      /\ Range(GraphOf(next, answers2).edges) = C2 \cup Q
      /\ OneById(Range(GraphOf(next, answers2).symbols))
      /\ OneByKey(Range(GraphOf(next, answers2).edges))
      /\ IsFiniteSet(Range(GraphOf(next, answers2).edges))
  <2>1. /\ SymbolsHeld(next, Range(FileOrder))
             = B2 \cup SymbolsHeld(next, DOMAIN next \ targets)
        /\ Edges(next, answers2, DOMAIN next, DOMAIN answers2)
             = C2 \cup Edges(next, answers2, DOMAIN next \ targets, DOMAIN answers2 \ picked2)
    <3>1. DOMAIN next \subseteq Range(FileOrder)
      BY DEF IsStore
    <3>2. SymbolsHeld(next, Range(FileOrder))
            = B2 \cup SymbolsHeld(next, DOMAIN next \ targets)
      BY <3>1, SymbolsTogether
    <3>3. Edges(next, answers2, DOMAIN next, DOMAIN answers2)
            = C2 \cup Edges(next, answers2, DOMAIN next \ targets, DOMAIN answers2 \ picked2)
      BY EdgesTogether
    <3>4. QED
      BY <3>2, <3>3
  <2> HIDE DEF B2, C2, R, Q
  <2>2. QED
    BY <1>4, <1>7, <2>1, GraphOfStore
<1>10. /\ \A s \in B \cup B2, t \in R : s.id # t.id
       /\ \A x \in C \cup C2, y \in Q : EdgeKey(x) # EdgeKey(y)
  <2>1. /\ \A s \in B, t \in R : s.id # t.id
        /\ \A s \in B2, t \in SymbolsHeld(next, DOMAIN next \ targets) : s.id # t.id
    BY SymbolsApart DEF IsStore
  <2>2. /\ \A x \in C, y \in Q : EdgeKey(x) # EdgeKey(y)
        /\ \A x \in C2,
              y \in Edges(next, answers2, DOMAIN next \ targets, DOMAIN answers2 \ picked2) :
             EdgeKey(x) # EdgeKey(y)
    BY EdgesApart DEF IsStore
  <2>3. QED
    BY <1>4, <1>7, <2>1, <2>2
<1>11. IsFiniteSet(C) /\ IsFiniteSet(C2)
  <2>1. C \in SUBSET Range(GraphOf(old, answers).edges)
        /\ C2 \in SUBSET Range(GraphOf(next, answers2).edges)
    BY <1>8, <1>9
  <2>2. QED
    BY <1>8, <1>9, <2>1, FS_Subset
<1> HIDE DEF B, B2, R, C, C2, Q
<1>12. /\ d.base = GraphOf(old, answers) /\ d.snapshot = GraphOf(next, answers2)
       /\ IsDifference(d, B \cup R, C \cup Q, B2 \cup R, C2 \cup Q)
  <2> DEFINE base == GraphOf(old, answers)
             token == GraphOf(next, answers2)
  <2>1. IsFiniteSet(B) /\ IsFiniteSet(B2) /\ IsFiniteSet(C) /\ IsFiniteSet(C2)
    BY <1>2, <1>11
  <2> HIDE DEF base, token
  <2>2. /\ DeltaFromBounds(base, token, B, B2, C, C2).base = base
        /\ DeltaFromBounds(base, token, B, B2, C, C2).snapshot = token
        /\ IsDifference(DeltaFromBounds(base, token, B, B2, C, C2),
                        B \cup R, C \cup Q, B2 \cup R, C2 \cup Q)
    BY <1>10, <2>1, BoundedIsWhole
  <2>3. QED
    BY <2>2 DEF base, token
<1> HIDE DEF d
<1>13. LeadsOn(d)
  BY <1>8, <1>9, <1>12 DEF LeadsOn
<1>14. QED
  BY <1>2, <1>3, <1>13 DEF d

(***************************************************************************)
(* What the store holds is made of lists, and the token it holds is that of*)
(* the graph it holds.                                                     *)
(***************************************************************************)
Held ==
  /\ \A f \in DOMAIN files : MadeOfLists(files[f])
  /\ AllLists(resolved)
  /\ AnswersOnce(resolved)

LEMMA GivenAreMadeOfLists ==
  ASSUME NEW sub \in GivenSubgraphs
  PROVE  MadeOfLists(sub)
BY ListAssumption DEF MadeOfLists

LEMMA AnswerIsList ==
  ASSUME NEW p, NEW definitions
  PROVE  /\ ResolvePending(p, definitions) \in Seq(Range(ResolvePending(p, definitions)))
         /\ Len(ResolvePending(p, definitions)) \in {0, 1}
<1>1. \A e : <<e>> \in Seq(Range(<<e>>))
  BY DEF Range
<1>2. <<>> \in Seq(Range(<<>>))
  OBVIOUS
<1>3. ResolvePending(p, definitions) \in Seq(Range(ResolvePending(p, definitions)))
  <2>1. ResolvePending(p, definitions) = <<>> \/ \E e : ResolvePending(p, definitions) = <<e>>
    BY DEF ResolvePending, NoEdge
  <2>2. QED
    BY <1>1, <1>2, <2>1, Zenon
<1>4. QED
  BY <1>3, OneAnswerAtMost

LEMMA BatchKeepsParts ==
  ASSUME Held, NEW batch \in Batches, Accepted(batch)
  PROVE  \A f \in DOMAIN After(batch) : MadeOfLists(After(batch)[f])
<1> DEFINE upserts == {c \in Range(batch) : c[1] = "upsert"}
           kept == DOMAIN files \ Targets(batch)
           chosen(f) == CHOOSE c \in upserts : c[2].file = f
<1>1. After(batch) = [f \in kept \cup {c[2].file : c \in upserts} |->
                        IF f \in kept THEN files[f] ELSE Built[chosen(f)[2]]]
  BY DEF After
<1>2. ASSUME NEW c \in upserts PROVE MadeOfLists(Built[c[2]])
  <2>1. c[2] \in DOMAIN Built
    BY <1>2 DEF Built, Accepted
  <2>2. Built[c[2]] \in GivenSubgraphs
    BY <2>1 DEF Range, GivenSubgraphs
  <2> QED BY <2>2, GivenAreMadeOfLists
<1>3. ASSUME NEW f \in {c[2].file : c \in upserts} PROVE chosen(f) \in upserts
  <2>1. PICK c \in upserts : c[2].file = f
    BY <1>3
  <2> QED BY <2>1
<1> HIDE DEF upserts, kept, chosen
<1>4. ASSUME NEW f \in DOMAIN After(batch) PROVE MadeOfLists(After(batch)[f])
  <2>1. CASE f \in kept
    BY <1>1, <2>1 DEF kept, Held
  <2>2. CASE f \notin kept
    <3>1. f \in {c[2].file : c \in upserts} /\ After(batch)[f] = Built[chosen(f)[2]]
      BY <1>1, <1>4, <2>2
    <3> QED BY <1>2, <1>3, <3>1
  <2> QED BY <2>1, <2>2
<1> QED BY <1>4

\* What a batch does not look at again keeps its answer.
LEMMA CommitKeepsOthers ==
  ASSUME Exact, NEW targets, NEW next, AgreeOutside(targets, files, next),
         Commit(next, targets), NEW id \in DOMAIN resolved'
  PROVE  IF id \in Affected(next, targets) \/ id[1] \in targets
         THEN \E p, definitions : resolved'[id] = ResolvePending(p, definitions)
         ELSE id \in DOMAIN resolved /\ resolved'[id] = resolved[id]
<1>1. PatchedPending(next, targets) = RefsOf(next) /\ DOMAIN resolved = IdsOf(files)
  BY ExactIs, PatchedPendingIsExact DEF Exact
<1>2. id \in IdsOf(next)
  BY <1>1 DEF Commit, PatchedResolved, RefsOf
<1>3. resolved'[id] = IF id \in Affected(next, targets) \/ id[1] \in targets
                      THEN ResolvePending(RefsOf(next)[id], PatchedIndex(next, targets))
                      ELSE resolved[id]
  BY <1>1, <1>2 DEF Commit, PatchedResolved, RefsOf
<1>4. CASE id \in Affected(next, targets) \/ id[1] \in targets
  <2>1. resolved'[id] = ResolvePending(RefsOf(next)[id], PatchedIndex(next, targets))
    BY <1>3, <1>4
  <2>2. \E p, definitions : resolved'[id] = ResolvePending(p, definitions)
    BY <2>1
  <2>3. QED
    BY <1>4, <2>2
<1>5. CASE ~(id \in Affected(next, targets) \/ id[1] \in targets)
  <2>1. id \in IdsOf(files)
    BY <1>2, <1>5, IdMembers DEF AgreeOutside
  <2>2. QED
    BY <1>1, <1>3, <1>5, <2>1
<1>6. QED
  BY <1>4, <1>5

LEMMA CommitKeepsHeld ==
  ASSUME Exact, Held, NEW targets, NEW next, AgreeOutside(targets, files, next),
         Commit(next, targets), \A f \in DOMAIN next : MadeOfLists(next[f])
  PROVE  Held'
<1>1. ASSUME NEW id \in DOMAIN resolved'
      PROVE  /\ resolved'[id] \in Seq(Range(resolved'[id]))
             /\ Len(resolved'[id]) \in {0, 1}
  <2>1. CASE id \in Affected(next, targets) \/ id[1] \in targets
    <3>1. \E p, definitions : resolved'[id] = ResolvePending(p, definitions)
      BY <1>1, <2>1, CommitKeepsOthers
    <3>2. QED
      BY <3>1, AnswerIsList, Zenon
  <2>2. CASE ~(id \in Affected(next, targets) \/ id[1] \in targets)
    <3>1. id \in DOMAIN resolved /\ resolved'[id] = resolved[id]
      BY <1>1, <2>2, CommitKeepsOthers
    <3>2. QED
      BY <3>1 DEF Held, AllLists, AnswersOnce
  <2>3. QED
    BY <2>1, <2>2
<1>2. files' = next
  BY DEF Commit
<1>3. QED
  BY <1>1, <1>2 DEF Held, AllLists, AnswersOnce

LEMMA RestartKeepsHeld ==
  ASSUME Held, NEW damage \in Damaged, Restart(damage)
  PROVE  Held'
<1> DEFINE persisted == [f \in DOMAIN files |->
                           IF f \in DOMAIN damage THEN damage[f] ELSE files[f]]
           usable == \A f \in DOMAIN persisted : Restorable(f, persisted[f])
           source == IF usable THEN persisted ELSE files
<1>1. files' = FromNothing(source).files /\ resolved' = FromNothing(source).resolved
  BY DEF Restart
<1>2. \A f \in DOMAIN damage : damage[f] \in GivenSubgraphs
  BY DEF GivenSubgraphs, Range
<1>3. \A f \in DOMAIN damage : MadeOfLists(damage[f])
  BY <1>2, GivenAreMadeOfLists
<1>4. \A f \in DOMAIN source : MadeOfLists(source[f])
  BY <1>3 DEF Held
<1> HIDE DEF source
<1>5. \A f \in DOMAIN files' : MadeOfLists(files'[f])
  BY <1>1, <1>4, MadeFromNothing
<1>6. \A id \in DOMAIN resolved' : \E p, definitions : resolved'[id] = ResolvePending(p, definitions)
  BY <1>1 DEF FromNothing
<1>7. \A id \in DOMAIN resolved' :
        resolved'[id] \in Seq(Range(resolved'[id])) /\ Len(resolved'[id]) \in {0, 1}
  BY <1>6, AnswerIsList, Zenon
<1>8. QED
  BY <1>5, <1>7 DEF Held, AllLists, AnswersOnce

LEMMA NextKeepsHeld == Exact /\ Held /\ [Next]_vars => Held'
<1> SUFFICES ASSUME Exact, Held, [Next]_vars PROVE Held'
  OBVIOUS
<1>1. ASSUME UNCHANGED store PROVE Held'
  BY <1>1 DEF store, Held, AllLists, AnswersOnce
<1>2. ASSUME NEW batch \in Batches, NEW order \in SetToSeqs(Targets(batch)),
             ApplyBatch(batch, order)
      PROVE  Held'
  <2>1. Accepted(batch) /\ Commit(After(batch), Targets(batch))
    BY <1>2 DEF ApplyBatch
  <2>2. AgreeOutside(Targets(batch), files, After(batch))
    BY <2>1, BatchAgreesOutside DEF Exact
  <2>3. \A f \in DOMAIN After(batch) : MadeOfLists(After(batch)[f])
    BY <2>1, BatchKeepsParts
  <2>4. QED
    BY <2>1, <2>2, <2>3, CommitKeepsHeld
<1>3. ASSUME NEW damage \in Damaged, Restart(damage) PROVE Held'
  BY <1>3, RestartKeepsHeld
<1>4. QED
  BY <1>1, <1>2, <1>3 DEF Next, vars, RefuseBatch, Apply, Reindex
(***************************************************************************)
(* The deltas and the consumer.                                            *)
(***************************************************************************)

\* The delta made last, if any, is all that distinguishes the graphs it leads from and to.
DeltaIsWhole == delta # NoDelta => LeadsOn(delta[1]) /\ delta[1].snapshot = snapshot

SnapshotIsGraph == snapshot = Graph

LEMMA IsStoreNow == Exact /\ Held /\ Separate => IsStore(files, resolved)
<1> SUFFICES ASSUME Exact, Held, Separate PROVE IsStore(files, resolved)
  OBVIOUS
<1>1. DOMAIN resolved = IdsOf(files)
  BY ExactIs DEF Exact
<1>2. QED
  BY <1>1 DEF Exact, IsFileMap, Held, Separate, IsStore

LEMMA TargetsAreFinite ==
  ASSUME NEW batch \in Batches
  PROVE  IsFiniteSet(Targets(batch))
<1>1. IsFiniteSet(Range(FileOrder))
  BY OrderAssumption, ListsAreFinite
<1>2. Targets(batch) \in SUBSET Range(FileOrder)
  BY BatchAssumption
<1>3. QED
  BY <1>1, <1>2, FS_Subset

LEMMA BatchDelta ==
  ASSUME Exact, Held, SnapshotIsGraph, Separate, Separate',
         NEW batch \in Batches, NEW order \in SetToSeqs(Targets(batch)),
         ApplyBatch(batch, order)
  PROVE  SnapshotIsGraph' /\ DeltaIsWhole'
<1> DEFINE targets == Targets(batch)
           next == After(batch)
           shown == Affected(next, targets)
           d == DeltaFromBounds(snapshot, snapshot',
                      BoundSymbols(files, order), BoundSymbols(next, order),
                      BoundEdges(files, resolved, targets, shown),
                      BoundEdges(next, resolved', targets, shown))
<1>1. /\ Accepted(batch) /\ Commit(next, targets)
      /\ snapshot' = GraphOf(next, resolved') /\ delta' = <<d>> /\ files' = next
  BY DEF ApplyBatch, Token, Commit
<1>2. IsFileMap(next) /\ AgreeOutside(targets, files, next)
  BY <1>1, BatchAgreesOutside DEF Exact
<1>3. IsStore(files, resolved)
  BY IsStoreNow
<1>4. Exact'
  BY <1>1, <1>2, CommitIsExact
<1>5. \A f \in DOMAIN next : MadeOfLists(next[f])
  BY <1>1, BatchKeepsParts
<1>6. Held'
  BY <1>1, <1>2, <1>5, CommitKeepsHeld
<1>7. IsStore(next, resolved')
  <2>1. DOMAIN resolved' = IdsOf(next)
    <3>1. DOMAIN resolved' = DOMAIN pending' /\ PendingIsOfFiles'
      BY <1>4 DEF Exact
    <3>2. pending' = RefsOf(next)
      BY <1>1, <3>1, MadeFromNothing DEF PendingIsOfFiles
    <3>3. QED
      BY <3>1, <3>2 DEF RefsOf
  <2>2. AllLists(resolved') /\ AnswersOnce(resolved') /\ ApartIn(next, resolved')
    BY <1>1, <1>6 DEF Held, Separate, AllLists, AnswersOnce
  <2>3. QED
    BY <1>2, <1>5, <2>1, <2>2 DEF IsStore, IsFileMap
<1>8. \A id \in DOMAIN resolved' :
        id[1] \notin targets /\ id \notin shown => resolved'[id] = resolved[id]
  BY <1>1, <1>2, CommitKeepsOthers
<1>9. IsFiniteSet(targets)
  BY TargetsAreFinite
<1>10. snapshot = GraphOf(files, resolved)
  BY DEF SnapshotIsGraph, Graph
<1> HIDE DEF targets, next, shown
<1>11. LeadsOn(DeltaFromBounds(GraphOf(files, resolved), GraphOf(next, resolved'),
                   BoundSymbols(files, order), BoundSymbols(next, order),
                   BoundEdges(files, resolved, targets, shown),
                   BoundEdges(next, resolved', targets, shown)))
  <2>1. order \in SetToSeqs(targets)
    BY DEF targets
  <2> DEFINE answers2 == resolved'
  <2>2. \A id \in DOMAIN answers2 :
          id[1] \notin targets /\ id \notin shown => answers2[id] = resolved[id]
    BY <1>8
  <2>3. IsStore(next, answers2)
    BY <1>7
  <2> HIDE DEF answers2
  <2>4. LeadsOn(DeltaFromBounds(GraphOf(files, resolved), GraphOf(next, answers2),
                   BoundSymbols(files, order), BoundSymbols(next, order),
                   BoundEdges(files, resolved, targets, shown),
                   BoundEdges(next, answers2, targets, shown)))
    BY <1>2, <1>3, <1>9, <2>1, <2>2, <2>3, DeltaOfStores
  <2>5. QED
    BY <2>4 DEF answers2
<1>12. LeadsOn(d) /\ d.snapshot = snapshot'
  <2>1. d.snapshot = snapshot'
    BY DEF DeltaFromBounds
  <2>2. QED
    BY <1>1, <1>10, <1>11, <2>1
<1> HIDE DEF d
<1>13. DeltaIsWhole'
  BY <1>1, <1>12 DEF DeltaIsWhole
<1>14. SnapshotIsGraph'
  BY <1>1 DEF SnapshotIsGraph, Graph
<1>15. QED
  BY <1>13, <1>14

LEMMA NextKeepsDelta ==
  ASSUME Exact, Held, SnapshotIsGraph, DeltaIsWhole, Separate, Separate', [Next]_vars
  PROVE  SnapshotIsGraph' /\ DeltaIsWhole'
<1>1. ASSUME UNCHANGED <<store, delta>> PROVE SnapshotIsGraph' /\ DeltaIsWhole'
  BY <1>1 DEF store, SnapshotIsGraph, DeltaIsWhole, Graph
<1>2. ASSUME NEW batch \in Batches, NEW order \in SetToSeqs(Targets(batch)),
             ApplyBatch(batch, order)
      PROVE  SnapshotIsGraph' /\ DeltaIsWhole'
  BY <1>2, BatchDelta
<1>3. ASSUME NEW damage \in Damaged, Restart(damage)
      PROVE  SnapshotIsGraph' /\ DeltaIsWhole'
  BY <1>3 DEF Restart, Token, SnapshotIsGraph, Graph, DeltaIsWhole
<1>4. QED
  BY <1>1, <1>2, <1>3 DEF Next, vars, RefuseBatch, Apply, Reindex

\* The index of a graph that a whole delta leads on from.
LEMMA WholeDeltaApplied ==
  ASSUME NEW ix, ix = Build(ix.snapshot, ix.snapshot), NEW d, LeadsOn(d)
  PROVE  /\ ApplyScopeDelta(ix, d).index
              = Build(ApplyScopeDelta(ix, d).index.snapshot,
                      ApplyScopeDelta(ix, d).index.snapshot)
         /\ \/ d.base # ix.snapshot
            \/ ApplyScopeDelta(ix, d).verdict \in {"Applied", "DoesNotAdvance"}
<1>1. CASE d.base # ix.snapshot
  <2>1. DeltaFault(ix, d) = "SnapshotMismatch"
    BY <1>1 DEF DeltaFault
  <2>2. ApplyScopeDelta(ix, d).index = ix
    BY <2>1 DEF ApplyScopeDelta
  <2>3. QED
    BY <1>1, <2>2, Zenon
<1>2. CASE d.base = ix.snapshot /\ d.snapshot = ix.snapshot
  <2>1. DeltaFault(ix, d) = "DoesNotAdvance"
    BY <1>2 DEF DeltaFault
  <2>2. ApplyScopeDelta(ix, d) = [verdict |-> "DoesNotAdvance", index |-> ix]
    BY <2>1 DEF ApplyScopeDelta
  <2>3. ApplyScopeDelta(ix, d).index = ix
        /\ ApplyScopeDelta(ix, d).verdict = "DoesNotAdvance"
    BY <2>2
  <2>4. QED
    BY <2>3, Zenon
<1>3. CASE d.base = ix.snapshot /\ d.snapshot # ix.snapshot
  <2> DEFINE S == Range(d.base.symbols)
             E == Range(d.base.edges)
             S2 == Range(d.snapshot.symbols)
             E2 == Range(d.snapshot.edges)
             made == Replacement(ix, d)
  <2>1. /\ OneById(S) /\ OneById(S2) /\ OneByKey(E) /\ OneByKey(E2)
        /\ IsFiniteSet(E) /\ IsDifference(d, S, E, S2, E2)
    BY DEF LeadsOn
  <2>2. IsIndex(Build(d.base, d.base), S, E, Counts(E), d.base)
    BY BuildIsIndex
  <2>3. ix = Build(d.base, d.base)
    BY <1>3
  <2>4. IsIndex(ix, S, E, Counts(E), d.base)
    BY <2>2, <2>3
  <2>5. IsIndex(Build(d.snapshot, d.snapshot), S2, E2, Counts(E2), d.snapshot)
    BY BuildIsIndex
  <2> HIDE DEF S, E, S2, E2
  <2>6. ApplyScopeDelta(ix, d) = [verdict |-> "Applied", index |-> made]
        /\ IsIndex(made, S2, E2, Counts(E2), d.snapshot)
    <3>1. d.snapshot # d.base
      BY <1>3
    <3>2. QED
      BY <2>1, <2>4, <3>1, DifferenceIsApplied
  <2> HIDE DEF made
  <2>7. made = Build(d.snapshot, d.snapshot) /\ made.snapshot = d.snapshot
    BY <2>5, <2>6, OneIndex DEF IsIndex, IsBody
  <2>8. ApplyScopeDelta(ix, d).index = made /\ ApplyScopeDelta(ix, d).verdict = "Applied"
    BY <2>6
  <2>9. QED
    BY <2>7, <2>8, Zenon
<1>4. QED
  BY <1>1, <1>2, <1>3

LEMMA NextKeepsMirror ==
  ASSUME SnapshotIsGraph, DeltaIsWhole, MirrorAgrees, [Next]_vars
  PROVE  /\ MirrorAgrees'
         /\ verdict' # verdict =>
              \/ verdict' \in {"Applied", "DoesNotAdvance"}
              \/ delta[1].base # mirror.snapshot
<1>1. ASSUME UNCHANGED <<mirror, verdict>>
      PROVE  MirrorAgrees' /\ verdict' = verdict
  BY <1>1 DEF MirrorAgrees
<1>2. CASE Apply
  <2>1. LeadsOn(delta[1])
    BY <1>2 DEF Apply, DeltaIsWhole
  <2>2. mirror' = ApplyScopeDelta(mirror, delta[1]).index
        /\ verdict' = ApplyScopeDelta(mirror, delta[1]).verdict
    BY <1>2 DEF Apply
  <2>3. mirror = Build(mirror.snapshot, mirror.snapshot)
    BY DEF MirrorAgrees
  <2>4. QED
    BY <2>1, <2>2, <2>3, WholeDeltaApplied DEF MirrorAgrees
<1>3. CASE Reindex
  <2>1. mirror' = Build(Graph, snapshot) /\ verdict' = "Applied" /\ snapshot = Graph
    BY <1>3 DEF Reindex, SnapshotIsGraph
  <2>2. mirror'.snapshot = Graph
    BY <2>1 DEF Build
  <2>3. QED
    BY <2>1, <2>2 DEF MirrorAgrees
<1>4. QED
  BY <1>1, <1>2, <1>3 DEF Next, vars, ApplyBatch, RefuseBatch, Restart

LEMMA InitIsFollowed == Init => Held /\ SnapshotIsGraph /\ DeltaIsWhole /\ MirrorAgrees
<1> SUFFICES ASSUME Init PROVE Held /\ SnapshotIsGraph /\ DeltaIsWhole /\ MirrorAgrees
  OBVIOUS
<1>1. Held
  BY DEF Init, Held, AllLists, AnswersOnce
<1>2. SnapshotIsGraph /\ DeltaIsWhole
  BY DEF Init, SnapshotIsGraph, DeltaIsWhole, Graph, Token
<1>3. MirrorAgrees
  <2>1. mirror.snapshot = Token(<<>>, <<>>)
    BY DEF Init, Build
  <2>2. QED
    BY <2>1 DEF Init, MirrorAgrees, Token
<1>4. QED
  BY <1>1, <1>2, <1>3

\* While no identity is defined twice and no edge comes from two places, whatever deltas a
\* consumer is given late, twice or never, across batches and restarts of the store, its
\* index is the one built from the graph its token stands for (apply_scope_delta, update.rs,
\* against build.rs).
THEOREM MirrorStaysExact == Spec /\ []Separate => []MirrorAgrees
<1> DEFINE Inv == Exact /\ Held /\ SnapshotIsGraph /\ DeltaIsWhole /\ MirrorAgrees
<1>1. Init => Inv
  BY InitIsExact, InitIsFollowed
<1>2. Inv /\ Separate /\ Separate' /\ [Next]_vars => Inv'
  BY NextIsExact, NextKeepsHeld, NextKeepsDelta, NextKeepsMirror
<1>3. QED
  BY <1>1, <1>2, PTL DEF Spec

\* Under the same condition a delta that continues from the consumer's token is never
\* refused: the bounded capture of apply_batch_with_delta (store.rs, tracked.rs) names
\* each change once and removes only what the index holds.
THEOREM LineageIsEnough == Spec /\ []Separate => LineageSuffices
<1> DEFINE Inv == Exact /\ Held /\ SnapshotIsGraph /\ DeltaIsWhole /\ MirrorAgrees
           Told == verdict' # verdict =>
                     \/ verdict' \in {"Applied", "DoesNotAdvance"}
                     \/ delta[1].base # mirror.snapshot
<1>1. Init => Inv
  BY InitIsExact, InitIsFollowed
<1>2. Inv /\ Separate /\ Separate' /\ [Next]_vars => Inv'
  BY NextIsExact, NextKeepsHeld, NextKeepsDelta, NextKeepsMirror
<1>3. Inv /\ [Next]_vars => [Told]_vars
  BY NextKeepsMirror
<1>4. LineageSuffices <=> [][Told]_vars
  BY DEF LineageSuffices
<1>5. QED
  BY <1>1, <1>2, <1>3, <1>4, PTL DEF Spec

\* Under the same condition "definitions absent from the result snapshot" (delta.rs) is
\* what the removed symbols are: only a definition that another file shares can be named
\* as removed and still be in the graph.
THEOREM RemovalsAreAbsences == Spec /\ []Separate => []RemovedAreAbsent
<1> DEFINE Inv == Exact /\ Held /\ SnapshotIsGraph /\ DeltaIsWhole
<1>1. Init => Inv
  BY InitIsExact, InitIsFollowed
<1>2. Inv /\ Separate /\ Separate' /\ [Next]_vars => Inv'
  BY NextIsExact, NextKeepsHeld, NextKeepsDelta
<1>3. Inv => RemovedAreAbsent
  <2> SUFFICES ASSUME SnapshotIsGraph, DeltaIsWhole, delta # NoDelta,
                      NEW s \in Range(Graph.symbols)
               PROVE  s.id \notin Range(delta[1].removed_symbols)
    BY DEF RemovedAreAbsent
  <2>1. Graph = delta[1].snapshot /\ LeadsOn(delta[1])
    BY DEF SnapshotIsGraph, DeltaIsWhole
  <2>2. Range(delta[1].removed_symbols)
          = IdsIn(Range(delta[1].base.symbols)) \ IdsIn(Range(delta[1].snapshot.symbols))
    BY <2>1 DEF LeadsOn, IsDifference
  <2>3. s.id \in IdsIn(Range(delta[1].snapshot.symbols))
    BY <2>1 DEF IdsIn
  <2>4. QED
    BY <2>2, <2>3
<1>4. QED
  BY <1>1, <1>2, <1>3, PTL DEF Spec

(***************************************************************************)
(* The graph of a store in which no re-export answers.                     *)
(***************************************************************************)

\* No pending reference lies on a re-export.
Unaliased == \A id \in DOMAIN pending : ~ThroughAlias(pending[id], index)

\* A graph is made of the answers to its own references.
LEMMA GraphOfAnswers ==
  ASSUME NEW subs, NEW answers, NEW answers2,
         \A id \in IdsOf(subs) : answers[id] = answers2[id]
  PROVE  GraphOf(subs, answers) = GraphOf(subs, answers2)
<1>1. ASSUME NEW f PROVE EdgesAt(subs, answers, f) = EdgesAt(subs, answers2, f)
  <2>1. CASE f \in DOMAIN subs
    <3>1. \A i \in DOMAIN subs[f].pending : answers[<<f, i>>] = answers2[<<f, i>>]
      BY <2>1, IdMembers
    <3>2. [i \in DOMAIN subs[f].pending |-> answers[<<f, i>>]]
            = [i \in DOMAIN subs[f].pending |-> answers2[<<f, i>>]]
      BY <3>1
    <3>3. QED
      BY <2>1, <3>2, Zenon DEF EdgesAt
  <2>2. CASE f \notin DOMAIN subs
    BY <2>2 DEF EdgesAt
  <2>3. QED
    BY <2>1, <2>2
<1>2. [i \in DOMAIN FileOrder |-> EdgesAt(subs, answers, FileOrder[i])]
        = [i \in DOMAIN FileOrder |-> EdgesAt(subs, answers2, FileOrder[i])]
  BY <1>1
<1>3. QED
  BY <1>2, Zenon DEF GraphOf

\* "Output is identical (up to ordering) to running ScopeGraphResolver over the same file
\* set" (store.rs) wherever no re-export lies on a reference: stale answers through an
\* alias are all that sets the two apart.
THEOREM OnlyAliasesGoStale == Spec => [](Unaliased => GraphIsFullResolution)
<1>1. Exact /\ AnswersAreCurrent /\ Unaliased => GraphIsFullResolution
  <2> SUFFICES ASSUME Exact, AnswersAreCurrent, Unaliased PROVE GraphIsFullResolution
    OBVIOUS
  <2> DEFINE answers == FromNothing(files).resolved
  <2>1. /\ index = FromSubgraphs(Range(files)) /\ pending = RefsOf(files)
        /\ DOMAIN pending = IdsOf(files)
    BY ExactIs DEF Exact, RefsOf
  <2>2. answers = [id \in IdsOf(files) |->
                     ResolvePending(RefsOf(files)[id], FromSubgraphs(Range(files)))]
    BY DEF FromNothing, RefsOf, IdsOf
  <2> HIDE DEF answers
  <2>3. \A id \in IdsOf(files) : resolved[id] = answers[id]
    BY <2>1, <2>2 DEF AnswersAreCurrent, Unaliased
  <2>4. GraphOf(files, resolved) = GraphOf(files, answers)
    BY <2>3, GraphOfAnswers
  <2>5. QED
    BY <2>4 DEF GraphIsFullResolution, Graph, answers
<1>2. Spec => []AnswersAreCurrent
  BY SelectiveResolutionSuffices
<1>3. QED
  BY <1>1, <1>2, InitIsExact, NextIsExact, PTL DEF Spec
=============================================================================
