-------------------------- MODULE GraphIndexProofs --------------------------
(***************************************************************************)
(* A delta applied to the query index of a graph gives the query index of  *)
(* the graph the delta leads to: proved operation by operation             *)
(* (query/src/index/update.rs against build.rs) and, by induction over the *)
(* lists of a delta, for a delta as a whole.                               *)
(***************************************************************************)
EXTENDS GraphIndex, FiniteSetTheorems, WellFoundedInduction, TLAPS

(***************************************************************************)
(* Induction.  The library's theorems about the well-founded order of the  *)
(* naturals speak of sets, and so do these: what is to be proved of a      *)
(* number is that it lies in a set.                                        *)
(***************************************************************************)

\* Every set of numbers with a member has a least one.
LEMMA LeastNumber ==
  ASSUME NEW T \in SUBSET Nat, T # {}
  PROVE  \E n \in T : \A m \in T : n <= m
<1> DEFINE R == OpToRel(<, Nat)
<1>1. IsWellFoundedOn(R, Nat)
  BY NatLessThanWellFounded
<1>2. R = {ss \in Nat \X Nat : ss[1] < ss[2]}
  BY DEF OpToRel
<1> HIDE DEF R
<1>3. \E n \in T : \A m \in T : ~(<<m, n>> \in R)
  BY <1>1, WFMin
<1>4. \A m, n \in Nat : m < n => <<m, n>> \in R
  BY <1>2
<1>5. \A m, n \in T : <<m, n>> \notin R => n <= m
  BY <1>4
<1>6. QED
  BY <1>3, <1>5

\* A set that holds 0, and each number up to n whose predecessor it holds, holds n.
LEMMA InductionUpTo ==
  ASSUME NEW n \in Nat, NEW T, 0 \in T, \A m \in 1 .. n : m - 1 \in T => m \in T
  PROVE  n \in T
<1> DEFINE out == {m \in Nat : m <= n /\ m \notin T}
<1>1. SUFFICES ASSUME out # {} PROVE FALSE
  OBVIOUS
<1>2. PICK m \in out : \A k \in out : m <= k
  BY <1>1, LeastNumber
<1>3. m # 0 /\ m \in 1 .. n
  BY <1>2
<1>4. m - 1 \in Nat /\ m - 1 <= n /\ m - 1 \notin out
  BY <1>2, <1>3
<1>5. QED
  BY <1>2, <1>3, <1>4

\* The largest of some of the first n numbers is one of them.
LEMMA LargestOf ==
  ASSUME NEW n \in Nat, NEW s \in SUBSET (1 .. n), s # {}
  PROVE  Max(s) \in s /\ \A i \in s : i <= Max(s)
<1> DEFINE short == {n - i : i \in s}
<1>1. short \in SUBSET Nat
  OBVIOUS
<1>2. PICK i \in s : TRUE
  OBVIOUS
<1>3. n - i \in short
  OBVIOUS
<1>4. PICK m \in short : \A k \in short : m <= k
  BY <1>1, <1>3, LeastNumber
<1>5. PICK x \in s : m = n - x
  BY <1>4
<1>6. ASSUME NEW j \in s PROVE x >= j
  <2>1. n - j \in short
    OBVIOUS
  <2>2. n - x <= n - j
    BY <1>4, <1>5, <2>1
  <2>3. x \in Nat /\ j \in Nat
    OBVIOUS
  <2>4. QED
    BY <2>2, <2>3
<1>7. Max(s) \in s /\ \A j \in s : Max(s) >= j
  BY <1>6 DEF Max
<1>8. \A j \in s : j \in Nat
  OBVIOUS
<1>9. QED
  BY <1>7, <1>8

(***************************************************************************)
(* Lists: joined, flattened, and cut down to chosen positions.             *)
(***************************************************************************)

LEMMA RangeOfConcatenation ==
  ASSUME NEW V, NEW s \in Seq(V), NEW t \in Seq(V)
  PROVE  s \o t \in Seq(V) /\ Range(s \o t) = Range(s) \cup Range(t)
<1>1. /\ s \o t \in Seq(V) /\ Len(s \o t) = Len(s) + Len(t)
      /\ Len(s) \in Nat /\ Len(t) \in Nat
      /\ DOMAIN s = 1 .. Len(s) /\ DOMAIN t = 1 .. Len(t)
      /\ DOMAIN (s \o t) = 1 .. Len(s) + Len(t)
  OBVIOUS
<1>2. ASSUME NEW i \in 1 .. Len(s) + Len(t)
      PROVE  (s \o t)[i] = IF i <= Len(s) THEN s[i] ELSE t[i - Len(s)]
  OBVIOUS
<1>3. ASSUME NEW i \in DOMAIN (s \o t) PROVE (s \o t)[i] \in Range(s) \cup Range(t)
  <2>1. CASE i <= Len(s)
    BY <1>1, <1>2, <2>1 DEF Range
  <2>2. CASE i > Len(s)
    <3>1. i - Len(s) \in DOMAIN t
      BY <1>1, <2>2
    <3>2. QED
      BY <1>1, <1>2, <2>2, <3>1 DEF Range
  <2>3. QED
    BY <1>1, <2>1, <2>2
<1>4. ASSUME NEW i \in DOMAIN s PROVE s[i] \in Range(s \o t)
  <2>1. i \in DOMAIN (s \o t) /\ (s \o t)[i] = s[i]
    BY <1>1, <1>2
  <2>2. QED
    BY <2>1 DEF Range
<1>5. ASSUME NEW i \in DOMAIN t PROVE t[i] \in Range(s \o t)
  <2>1. Len(s) + i \in DOMAIN (s \o t) /\ (s \o t)[Len(s) + i] = t[i]
    BY <1>1, <1>2
  <2>2. QED
    BY <2>1 DEF Range
<1>6. QED
  BY <1>1, <1>3, <1>4, <1>5 DEF Range

LEMMA RangeOfAppend ==
  ASSUME NEW V, NEW s \in Seq(V), NEW x \in V
  PROVE  /\ Append(s, x) \in Seq(V) /\ Len(Append(s, x)) = Len(s) + 1
         /\ Range(Append(s, x)) = Range(s) \cup {x}
<1>1. /\ Append(s, x) \in Seq(V) /\ Len(Append(s, x)) = Len(s) + 1
      /\ Len(s) \in Nat /\ DOMAIN s = 1 .. Len(s)
      /\ DOMAIN Append(s, x) = 1 .. Len(s) + 1
      /\ Append(s, x)[Len(s) + 1] = x
      /\ \A i \in 1 .. Len(s) : Append(s, x)[i] = s[i]
  OBVIOUS
<1>2. DOMAIN Append(s, x) = DOMAIN s \cup {Len(s) + 1}
  BY <1>1
<1>3. QED
  BY <1>1, <1>2 DEF Range

\* A flattened list holds what its lists hold.
LEMMA RangeOfFlattened ==
  ASSUME NEW V, NEW seqs \in Seq(Seq(V))
  PROVE  /\ FlattenSeq(seqs) \in Seq(V)
         /\ Range(FlattenSeq(seqs)) = UNION {Range(seqs[i]) : i \in DOMAIN seqs}
<1> DEFINE n == Len(seqs)
           Flat(g, m) == g = [i \in 1 .. m |-> IF i = 1 THEN seqs[i] ELSE g[i - 1] \o seqs[i]]
           T == {m \in 0 .. n : \E g : Flat(g, m)}
           flatten[i \in 1 .. n] == IF i = 1 THEN seqs[i] ELSE flatten[i - 1] \o seqs[i]
<1>1. n \in Nat /\ DOMAIN seqs = 1 .. n /\ \A i \in 1 .. n : seqs[i] \in Seq(V)
  OBVIOUS
<1> HIDE DEF n
<1>2. 0 \in T
  <2>1. 1 .. 0 = {}
    OBVIOUS
  <2>2. Flat([i \in 1 .. 0 |-> seqs[i]], 0)
    BY <2>1
  <2> HIDE DEF Flat
  <2>3. \E g : Flat(g, 0)
    BY <2>2
  <2>4. QED
    BY <1>1, <2>3
<1>3. ASSUME NEW m \in 1 .. n, m - 1 \in T PROVE m \in T
  <2>1. PICK g : Flat(g, m - 1)
    BY <1>3
  <2> DEFINE h == [i \in 1 .. m |-> IF i # m THEN g[i]
                                    ELSE IF m = 1 THEN seqs[m] ELSE g[m - 1] \o seqs[m]]
  <2>2. ASSUME NEW i \in 1 .. m
        PROVE  h[i] = IF i = 1 THEN seqs[i] ELSE h[i - 1] \o seqs[i]
    <3>1. CASE i = m
      <4>1. m # 1 => h[m - 1] = g[m - 1]
        BY <1>1
      <4>2. QED
        BY <3>1, <4>1
    <3>2. CASE i # m
      <4>1. i \in 1 .. m - 1 /\ (i # 1 => i - 1 \in 1 .. m /\ i - 1 # m)
        BY <1>1, <3>2
      <4>2. g[i] = IF i = 1 THEN seqs[i] ELSE g[i - 1] \o seqs[i]
        BY <2>1, <4>1
      <4>3. QED
        BY <3>2, <4>1, <4>2
    <3>3. QED
      BY <3>1, <3>2
  <2>3. Flat(h, m)
    <3> DEFINE body == [i \in 1 .. m |-> IF i = 1 THEN seqs[i] ELSE h[i - 1] \o seqs[i]]
    <3>1. DOMAIN h = 1 .. m /\ h = [i \in DOMAIN h |-> h[i]]
      OBVIOUS
    <3>2. h = body
      <4> HIDE DEF h
      <4>1. QED
        BY <2>2, <3>1
    <3>3. QED
      BY <3>2
  <2> HIDE DEF Flat, h
  <2>4. \E k : Flat(k, m)
    BY <2>3
  <2>5. QED
    BY <1>1, <2>4
<1> HIDE DEF T
<1>4. n \in T
  BY <1>1, <1>2, <1>3, InductionUpTo
<1>5. flatten = [i \in 1 .. n |-> IF i = 1 THEN seqs[i] ELSE flatten[i - 1] \o seqs[i]]
  BY <1>4 DEF T
<1> HIDE DEF flatten
<1> DEFINE Done == {m \in 0 .. n : m # 0 =>
                      /\ flatten[m] \in Seq(V)
                      /\ Range(flatten[m]) = UNION {Range(seqs[i]) : i \in 1 .. m}}
<1>6. 0 \in Done
  BY <1>1
<1>7. ASSUME NEW m \in 1 .. n, m - 1 \in Done PROVE m \in Done
  <2>1. seqs[m] \in Seq(V) /\ m \in 0 .. n
    BY <1>1
  <2>2. CASE m = 1
    <3>1. flatten[m] = seqs[1] /\ 1 .. m = {1}
      BY <1>5, <2>2
    <3>2. QED
      BY <2>1, <2>2, <3>1
  <2>3. CASE m # 1
    <3>1. flatten[m] = flatten[m - 1] \o seqs[m]
      BY <1>5, <2>3
    <3>2. /\ m - 1 # 0 /\ flatten[m - 1] \in Seq(V)
          /\ Range(flatten[m - 1]) = UNION {Range(seqs[i]) : i \in 1 .. m - 1}
      BY <1>1, <1>7, <2>3
    <3>3. /\ flatten[m] \in Seq(V)
          /\ Range(flatten[m]) = Range(flatten[m - 1]) \cup Range(seqs[m])
      BY <2>1, <3>1, <3>2, RangeOfConcatenation
    <3>4. 1 .. m = (1 .. m - 1) \cup {m}
      BY <1>1
    <3>5. Range(flatten[m]) = UNION {Range(seqs[i]) : i \in 1 .. m}
      BY <3>2, <3>3, <3>4
    <3>6. QED
      BY <2>1, <3>3, <3>5
  <2>4. QED
    BY <2>2, <2>3
<1> HIDE DEF Done
<1>8. n \in Done
  BY <1>1, <1>6, <1>7, InductionUpTo
<1>9. CASE n = 0
  <2>1. FlattenSeq(seqs) = seqs /\ seqs = <<>>
    BY <1>9, <1>1 DEF FlattenSeq, n
  <2>2. QED
    BY <2>1 DEF Range
<1>10. CASE n # 0
  <2>1. FlattenSeq(seqs) = flatten[n]
    BY <1>10 DEF FlattenSeq, flatten, n
  <2>2. QED
    BY <1>1, <1>8, <1>10, <2>1 DEF Done
<1>11. QED
  BY <1>9, <1>10

\* The entries at the chosen positions are those entries, in the order of the list.
LEMMA EntriesChosen ==
  ASSUME NEW V, NEW list \in Seq(V), NEW chosen \in SUBSET (DOMAIN list)
  PROVE  /\ EntriesAt(list, chosen) \in Seq(V)
         /\ Range(EntriesAt(list, chosen)) = {list[i] : i \in chosen}
         /\ \A p, q \in DOMAIN EntriesAt(list, chosen) : p < q =>
              \E i, j \in chosen : /\ i < j
                                   /\ EntriesAt(list, chosen)[p] = list[i]
                                   /\ EntriesAt(list, chosen)[q] = list[j]
<1> DEFINE n == Len(list)
           Keeps(g, m) == g = [i \in 0 .. m |->
                                 IF i = 0 THEN <<>>
                                 ELSE IF i \in chosen THEN Append(g[i - 1], list[i])
                                 ELSE g[i - 1]]
           T == {m \in 0 .. n : \E g : Keeps(g, m)}
           kept[i \in 0 .. n] == IF i = 0 THEN <<>>
                                 ELSE IF i \in chosen THEN Append(kept[i - 1], list[i])
                                 ELSE kept[i - 1]
<1>1. n \in Nat /\ DOMAIN list = 1 .. n /\ \A i \in 1 .. n : list[i] \in V
  OBVIOUS
<1>2. EntriesAt(list, chosen) = kept[n]
  BY DEF EntriesAt
<1> HIDE DEF n
<1>3. 0 \in T
  <2>1. 0 .. 0 = {0}
    OBVIOUS
  <2>2. Keeps([i \in 0 .. 0 |-> <<>>], 0)
    BY <2>1
  <2> HIDE DEF Keeps
  <2>3. \E g : Keeps(g, 0)
    BY <2>2
  <2>4. QED
    BY <1>1, <2>3
<1>4. ASSUME NEW m \in 1 .. n, m - 1 \in T PROVE m \in T
  <2>1. PICK g : Keeps(g, m - 1)
    BY <1>4
  <2> DEFINE h == [i \in 0 .. m |-> IF i # m THEN g[i]
                                    ELSE IF m \in chosen THEN Append(g[m - 1], list[m])
                                    ELSE g[m - 1]]
  <2>2. ASSUME NEW i \in 0 .. m
        PROVE  h[i] = IF i = 0 THEN <<>>
                      ELSE IF i \in chosen THEN Append(h[i - 1], list[i])
                      ELSE h[i - 1]
    <3>1. CASE i = m
      <4>1. h[m - 1] = g[m - 1] /\ m # 0
        BY <1>1
      <4>2. QED
        BY <3>1, <4>1
    <3>2. CASE i # m
      <4>1. i \in 0 .. m - 1 /\ (i # 0 => i - 1 \in 0 .. m /\ i - 1 # m)
        BY <1>1, <3>2
      <4>2. g[i] = IF i = 0 THEN <<>>
                   ELSE IF i \in chosen THEN Append(g[i - 1], list[i])
                   ELSE g[i - 1]
        BY <2>1, <4>1
      <4>3. QED
        BY <3>2, <4>1, <4>2
    <3>3. QED
      BY <3>1, <3>2
  <2>3. Keeps(h, m)
    <3>1. DOMAIN h = 0 .. m /\ h = [i \in DOMAIN h |-> h[i]]
      OBVIOUS
    <3> HIDE DEF h
    <3>2. QED
      BY <2>2, <3>1
  <2> HIDE DEF Keeps, h
  <2>4. \E k : Keeps(k, m)
    BY <2>3
  <2>5. QED
    BY <1>1, <2>4
<1> HIDE DEF T
<1>5. n \in T
  BY <1>1, <1>3, <1>4, InductionUpTo
<1>6. kept = [i \in 0 .. n |-> IF i = 0 THEN <<>>
                               ELSE IF i \in chosen THEN Append(kept[i - 1], list[i])
                               ELSE kept[i - 1]]
  BY <1>5 DEF T
<1> HIDE DEF kept
<1> DEFINE Some(m) == {i \in chosen : i <= m}
           InTurn(s, m) == \A p, q \in DOMAIN s : p < q =>
                             \E i, j \in Some(m) : i < j /\ s[p] = list[i] /\ s[q] = list[j]
           Done == {m \in 0 .. n : /\ kept[m] \in Seq(V)
                                   /\ Range(kept[m]) = {list[i] : i \in Some(m)}
                                   /\ InTurn(kept[m], m)}
<1>7. 0 \in Done
  <2>1. kept[0] = <<>> /\ 0 \in 0 .. n
    BY <1>1, <1>6
  <2>2. Range(<<>>) = {} /\ <<>> \in Seq(V) /\ DOMAIN <<>> = {}
    BY DEF Range
  <2>3. Some(0) = {}
    BY <1>1
  <2>4. {list[i] : i \in Some(0)} = {} /\ InTurn(<<>>, 0)
    BY <2>2, <2>3
  <2> HIDE DEF InTurn, Some
  <2>5. QED
    BY <2>1, <2>2, <2>4
<1>8. ASSUME NEW m \in 1 .. n, m - 1 \in Done PROVE m \in Done
  <2>1. /\ m \in 0 .. n /\ m # 0 /\ m - 1 \in 0 .. n /\ m \in Nat
        /\ list[m] \in V /\ chosen \subseteq 1 .. n
    BY <1>1
  <2>2. /\ kept[m - 1] \in Seq(V) /\ Range(kept[m - 1]) = {list[i] : i \in Some(m - 1)}
        /\ InTurn(kept[m - 1], m - 1)
    BY <1>8
  <2>3. CASE m \in chosen
    <3>1. kept[m] = Append(kept[m - 1], list[m])
      BY <1>6, <2>1, <2>3
    <3>2. kept[m] \in Seq(V) /\ Range(kept[m]) = Range(kept[m - 1]) \cup {list[m]}
      BY <2>1, <2>2, <3>1, RangeOfAppend
    <3>3. Some(m) = Some(m - 1) \cup {m} /\ \A i \in Some(m - 1) : i < m
      BY <1>1, <2>1, <2>3
    <3>4. Range(kept[m]) = {list[i] : i \in Some(m)}
      <4> HIDE DEF Some
      <4>1. QED
        BY <2>2, <3>2, <3>3
    <3>5. InTurn(kept[m], m)
      <4> DEFINE s == kept[m - 1]
      <4>1. /\ DOMAIN s = 1 .. Len(s) /\ Len(s) \in Nat
            /\ DOMAIN kept[m] = 1 .. Len(s) + 1 /\ kept[m][Len(s) + 1] = list[m]
            /\ \A p \in 1 .. Len(s) : kept[m][p] = s[p]
        BY <2>1, <2>2, <3>1
      <4> SUFFICES ASSUME NEW p \in DOMAIN kept[m], NEW q \in DOMAIN kept[m], p < q
                   PROVE  \E i, j \in Some(m) :
                            i < j /\ kept[m][p] = list[i] /\ kept[m][q] = list[j]
        OBVIOUS
      <4>2. p \in DOMAIN s /\ kept[m][p] = s[p]
        BY <4>1
      <4>3. CASE q = Len(s) + 1
        <5>1. s[p] \in Range(s)
          BY <4>2 DEF Range
        <5> HIDE DEF Some
        <5>2. PICK i \in Some(m - 1) : s[p] = list[i]
          BY <2>2, <5>1
        <5>3. i \in Some(m) /\ m \in Some(m) /\ i < m
          BY <3>3
        <5>4. QED
          BY <4>1, <4>2, <4>3, <5>2, <5>3
      <4>4. CASE q # Len(s) + 1
        <5>1. q \in DOMAIN s /\ kept[m][q] = s[q]
          BY <4>1, <4>4
        <5> HIDE DEF Some
        <5>2. PICK i \in Some(m - 1), j \in Some(m - 1) :
                i < j /\ s[p] = list[i] /\ s[q] = list[j]
          BY <2>2, <4>2, <5>1
        <5>3. i \in Some(m) /\ j \in Some(m)
          BY <3>3
        <5>4. QED
          BY <4>2, <5>1, <5>2, <5>3
      <4>5. QED
        BY <4>3, <4>4
    <3> HIDE DEF InTurn, Some
    <3>6. QED
      BY <2>1, <3>2, <3>4, <3>5
  <2>4. CASE m \notin chosen
    <3>1. kept[m] = kept[m - 1]
      BY <1>6, <2>1, <2>4
    <3>2. Some(m) = Some(m - 1)
      BY <1>1, <2>1, <2>4
    <3>3. InTurn(kept[m - 1], m)
      BY <2>2, <3>2
    <3> HIDE DEF InTurn, Some
    <3>4. QED
      BY <2>1, <2>2, <3>1, <3>2, <3>3
  <2>5. QED
    BY <2>3, <2>4
<1> HIDE DEF Done
<1>9. n \in Done
  BY <1>1, <1>7, <1>8, InductionUpTo
<1>10. Some(n) = chosen
  BY <1>1
<1>11. QED
  BY <1>2, <1>9, <1>10 DEF Done

(***************************************************************************)
(* The index of a set of symbols and a set of edges, with any reference    *)
(* counts, field by field.                                                 *)
(***************************************************************************)
Fields ==
  {"definitions", "edges", "known", "refcounts", "by_name", "by_scip", "by_file",
   "ids_by_scip", "outgoing", "incoming", "snapshot", "sound"}
Shaped(ix) == ix = [x \in Fields |-> ix[x]]

IdsIn(S) == {s.id : s \in S}
KeysIn(E) == {EdgeKey(e) : e \in E}
OneById(S) == \A s, t \in S : s.id = t.id => s = t
OneByKey(E) == \A d, e \in E : EdgeKey(d) = EdgeKey(e) => d = e

Definitions(S) == [id \in IdsIn(S) |-> CHOOSE s \in S : s.id = id]
EdgesByKey(E) == [key \in KeysIn(E) |-> CHOOSE e \in E : EdgeKey(e) = key]
EndsOf(E) == {e.from : e \in E} \cup {e.to : e \in E}
Counts(E) ==
  [id \in EndsOf(E) |-> Cardinality({e \in E : e.from = id})
                          + Cardinality({e \in E : e.to = id})]

\* All fields but those of the known identities.
IsBody(ix, S, E, counts, token) ==
  /\ Shaped(ix)
  /\ ix.definitions = Definitions(S)
  /\ ix.edges = EdgesByKey(E)
  /\ ix.refcounts = counts
  /\ ix.by_name = {<<s.name, s.id>> : s \in S}
  /\ ix.by_scip = {<<Scip(s.id), s.id>> : s \in S}
  /\ ix.by_file = {<<s.file, s.id>> : s \in S}
  /\ ix.outgoing = {<<e.from, EdgeKey(e)>> : e \in E}
  /\ ix.incoming = {<<e.to, EdgeKey(e)>> : e \in E}
  /\ ix.snapshot = token
  /\ ix.sound = TRUE

Knows(ix, known) == ix.known = known /\ ix.ids_by_scip = {<<Scip(id), id>> : id \in known}

IsIndex(ix, S, E, counts, token) ==
  IsBody(ix, S, E, counts, token) /\ Knows(ix, IdsIn(S) \cup DOMAIN counts)

LEMMA BuildIsIndex ==
  ASSUME NEW graph, NEW token, NEW S, NEW E, S = Range(graph.symbols), E = Range(graph.edges)
  PROVE  IsIndex(Build(graph, token), S, E, Counts(E), token)
<1> DEFINE ix == Build(graph, token)
<1>1. Shaped(ix)
  BY DEF Shaped, Fields, Build
<1>2. DOMAIN Counts(E) = EndsOf(E)
  BY DEF Counts
<1>3. /\ ix.definitions = Definitions(S)
      /\ ix.edges = EdgesByKey(E)
      /\ ix.known = IdsIn(S) \cup DOMAIN Counts(E)
      /\ ix.snapshot = token
      /\ ix.sound = TRUE
  BY <1>2 DEF Build, Definitions, EdgesByKey, IdsIn, KeysIn, EndsOf
<1>4. ix.refcounts = Counts(E)
  BY DEF Build, Counts, EndsOf
<1>5. /\ ix.by_name = {<<s.name, s.id>> : s \in S}
      /\ ix.by_scip = {<<Scip(s.id), s.id>> : s \in S}
      /\ ix.by_file = {<<s.file, s.id>> : s \in S}
      /\ ix.ids_by_scip = {<<Scip(id), id>> : id \in IdsIn(S) \cup DOMAIN Counts(E)}
      /\ ix.outgoing = {<<e.from, EdgeKey(e)>> : e \in E}
      /\ ix.incoming = {<<e.to, EdgeKey(e)>> : e \in E}
  BY <1>2 DEF Build, IdsIn, EndsOf
<1>6. QED
  BY <1>1, <1>3, <1>4, <1>5 DEF IsIndex, IsBody, Knows

\* There is one index of given symbols, edges, counts and token.
LEMMA OneIndex ==
  ASSUME NEW ix, NEW jx, NEW S, NEW E, NEW counts, NEW token,
         IsIndex(ix, S, E, counts, token), IsIndex(jx, S, E, counts, token)
  PROVE  ix = jx
<1>1. \A x \in Fields : ix[x] = jx[x]
  BY DEF IsIndex, IsBody, Knows, Fields
<1>2. QED
  BY <1>1 DEF IsIndex, IsBody, Shaped

(***************************************************************************)
(* The bookkeeping of known identities.                                    *)
(***************************************************************************)
LEMMA KnownWhenEnsured ==
  ASSUME NEW ix, NEW S, NEW E, NEW counts, NEW token, IsBody(ix, S, E, counts, token),
         NEW known, Knows(ix, known), NEW id
  PROVE  /\ IsBody(EnsureKnown(ix, id), S, E, counts, token)
         /\ Knows(EnsureKnown(ix, id), known \cup {id})
<1> DEFINE jx == EnsureKnown(ix, id)
<1>1. CASE id \in known
  <2>1. jx = ix /\ known \cup {id} = known
    BY <1>1 DEF EnsureKnown, Knows
  <2>2. QED
    BY <2>1
<1>2. CASE id \notin known
  <2> DEFINE entry == <<Scip(id), id>>
  <2>1. jx = [ix EXCEPT !.known = ix.known \cup {id},
                        !.ids_by_scip = ix.ids_by_scip \cup {entry},
                        !.sound = ix.sound /\ entry \notin ix.ids_by_scip]
    BY <1>2 DEF EnsureKnown, Knows
  <2>2. entry \notin ix.ids_by_scip
    BY <1>2 DEF Knows
  <2> HIDE DEF jx, entry
  <2>3. Shaped(ix)
    BY DEF IsBody
  <2>4. Shaped(jx)
    BY <2>1, <2>3 DEF Shaped, Fields
  <2>5. /\ jx.definitions = ix.definitions /\ jx.edges = ix.edges
        /\ jx.refcounts = ix.refcounts /\ jx.by_name = ix.by_name
        /\ jx.by_scip = ix.by_scip /\ jx.by_file = ix.by_file
        /\ jx.outgoing = ix.outgoing /\ jx.incoming = ix.incoming
        /\ jx.snapshot = ix.snapshot
        /\ jx.known = ix.known \cup {id} /\ jx.ids_by_scip = ix.ids_by_scip \cup {entry}
    BY <2>1, <2>3 DEF Shaped, Fields
  <2>6. jx.sound = TRUE
    BY <2>1, <2>2, <2>3 DEF Shaped, Fields, IsBody
  <2>7. IsBody(jx, S, E, counts, token)
    BY <2>4, <2>5, <2>6 DEF IsBody
  <2>8. Knows(jx, known \cup {id})
    BY <2>5 DEF Knows, entry
  <2>9. QED
    BY <2>7, <2>8 DEF jx
<1>3. QED
  BY <1>1, <1>2

LEMMA KnownWhenReleased ==
  ASSUME NEW ix, NEW S, NEW E, NEW counts, NEW token, IsBody(ix, S, E, counts, token),
         NEW id, Knows(ix, IdsIn(S) \cup DOMAIN counts \cup {id})
  PROVE  IsIndex(RemoveKnownIfUnreferenced(ix, id), S, E, counts, token)
<1> DEFINE jx == RemoveKnownIfUnreferenced(ix, id)
           kept == IdsIn(S) \cup DOMAIN counts
<1>1. DOMAIN ix.definitions = IdsIn(S) /\ DOMAIN ix.refcounts = DOMAIN counts
  BY DEF IsBody, Definitions
<1>2. CASE id \in kept
  <2>1. jx = ix /\ kept \cup {id} = kept
    BY <1>1, <1>2 DEF RemoveKnownIfUnreferenced
  <2>2. QED
    BY <2>1 DEF IsIndex
<1>3. CASE id \notin kept
  <2> DEFINE entry == <<Scip(id), id>>
  <2>1. jx = [ix EXCEPT !.known = ix.known \ {id},
                        !.ids_by_scip = ix.ids_by_scip \ {entry},
                        !.sound = ix.sound /\ id \in ix.known /\ entry \in ix.ids_by_scip]
    BY <1>1, <1>3 DEF RemoveKnownIfUnreferenced
  <2>2. id \in ix.known /\ entry \in ix.ids_by_scip
    BY DEF Knows
  <2> HIDE DEF jx, entry
  <2>3. Shaped(ix)
    BY DEF IsBody
  <2>4. Shaped(jx)
    BY <2>1, <2>3 DEF Shaped, Fields
  <2>5. /\ jx.definitions = ix.definitions /\ jx.edges = ix.edges
        /\ jx.refcounts = ix.refcounts /\ jx.by_name = ix.by_name
        /\ jx.by_scip = ix.by_scip /\ jx.by_file = ix.by_file
        /\ jx.outgoing = ix.outgoing /\ jx.incoming = ix.incoming
        /\ jx.snapshot = ix.snapshot
        /\ jx.known = ix.known \ {id} /\ jx.ids_by_scip = ix.ids_by_scip \ {entry}
    BY <2>1, <2>3 DEF Shaped, Fields
  <2>6. jx.sound = TRUE
    BY <2>1, <2>2, <2>3 DEF Shaped, Fields, IsBody
  <2>7. IsBody(jx, S, E, counts, token)
    BY <2>4, <2>5, <2>6 DEF IsBody
  <2>8. jx.known = kept
    BY <1>3, <2>5 DEF Knows
  <2>9. jx.ids_by_scip = {<<Scip(i), i>> : i \in kept}
    <3>1. ix.ids_by_scip = {<<Scip(i), i>> : i \in kept \cup {id}}
      BY DEF Knows
    <3>2. ASSUME NEW x \in ix.ids_by_scip \ {entry} PROVE x \in {<<Scip(i), i>> : i \in kept}
      BY <3>1 DEF entry
    <3>3. ASSUME NEW x \in {<<Scip(i), i>> : i \in kept} PROVE x \in ix.ids_by_scip \ {entry}
      BY <1>3, <3>1 DEF entry
    <3>4. QED
      BY <2>5, <3>2, <3>3
  <2>10. QED
    BY <2>7, <2>8, <2>9 DEF IsIndex, Knows, jx
<1>4. QED
  BY <1>2, <1>3

(***************************************************************************)
(* One definition less or more.                                            *)
(***************************************************************************)
LEMMA DefinitionOf ==
  ASSUME NEW S, OneById(S), NEW s \in S
  PROVE  Definitions(S)[s.id] = s /\ s.id \in DOMAIN Definitions(S)
BY DEF Definitions, IdsIn, OneById

\* What stands in an index for one definition and what for the others.
LEMMA BucketsWithout ==
  ASSUME NEW S, OneById(S), NEW s \in S
  PROVE  /\ IdsIn(S \ {s}) = IdsIn(S) \ {s.id}
         /\ {<<x.name, x.id>> : x \in S \ {s}} = {<<x.name, x.id>> : x \in S} \ {<<s.name, s.id>>}
         /\ {<<Scip(x.id), x.id>> : x \in S \ {s}}
              = {<<Scip(x.id), x.id>> : x \in S} \ {<<Scip(s.id), s.id>>}
         /\ {<<x.file, x.id>> : x \in S \ {s}} = {<<x.file, x.id>> : x \in S} \ {<<s.file, s.id>>}
         /\ Definitions(S \ {s}) = Without(Definitions(S), s.id)
<1>1. \A x \in S : x.id = s.id => x = s
  BY DEF OneById
<1>2. IdsIn(S \ {s}) = IdsIn(S) \ {s.id}
  BY <1>1 DEF IdsIn
<1>3. {<<x.name, x.id>> : x \in S \ {s}} = {<<x.name, x.id>> : x \in S} \ {<<s.name, s.id>>}
  BY <1>1
<1>4. {<<Scip(x.id), x.id>> : x \in S \ {s}}
        = {<<Scip(x.id), x.id>> : x \in S} \ {<<Scip(s.id), s.id>>}
  BY <1>1
<1>5. {<<x.file, x.id>> : x \in S \ {s}} = {<<x.file, x.id>> : x \in S} \ {<<s.file, s.id>>}
  BY <1>1
<1>6. OneById(S \ {s})
  BY DEF OneById
<1>7. ASSUME NEW id \in IdsIn(S) \ {s.id}
      PROVE  Definitions(S \ {s})[id] = Definitions(S)[id]
  <2>1. PICK x \in S : x.id = id
    BY DEF IdsIn
  <2>2. x \in S \ {s}
    BY <2>1
  <2>3. Definitions(S \ {s})[x.id] = x /\ Definitions(S)[x.id] = x
    BY <1>6, <2>2, DefinitionOf
  <2>4. QED
    BY <2>1, <2>3
<1>8. Definitions(S \ {s}) = Without(Definitions(S), s.id)
  BY <1>2, <1>7 DEF Definitions, Without
<1>9. QED
  BY <1>2, <1>3, <1>4, <1>5, <1>8

\* Taking out a definition leaves the index of the others; an endpoint of an edge
\* stays known (remove_symbol, update.rs).
LEMMA SymbolRemoved ==
  ASSUME NEW ix, NEW S, NEW E, NEW counts, NEW token, IsIndex(ix, S, E, counts, token),
         OneById(S), NEW s \in S
  PROVE  IsIndex(RemoveSymbol(ix, s.id), S \ {s}, E, counts, token)
<1> DEFINE id == s.id
           name == <<ix.definitions[id].name, id>>
           scip == <<Scip(id), id>>
           file == <<ix.definitions[id].file, id>>
           cut == [ix EXCEPT !.definitions = Without(ix.definitions, id),
                             !.by_name = ix.by_name \ {name},
                             !.by_scip = ix.by_scip \ {scip},
                             !.by_file = ix.by_file \ {file},
                             !.sound = ix.sound /\ name \in ix.by_name
                                       /\ scip \in ix.by_scip /\ file \in ix.by_file]
<1>1. RemoveSymbol(ix, id) = RemoveKnownIfUnreferenced(cut, id)
  BY DEF RemoveSymbol
<1>2. ix.definitions[id] = s
  BY DefinitionOf DEF IsIndex, IsBody
<1>3. name = <<s.name, s.id>> /\ scip = <<Scip(s.id), s.id>> /\ file = <<s.file, s.id>>
  BY <1>2
<1>4. name \in ix.by_name /\ scip \in ix.by_scip /\ file \in ix.by_file
  BY <1>3 DEF IsIndex, IsBody
<1>5. Shaped(ix)
  BY DEF IsIndex, IsBody
<1> HIDE DEF name, scip, file
<1>6. Shaped(cut)
  BY <1>5 DEF Shaped, Fields
<1>7. /\ cut.definitions = Without(ix.definitions, id)
      /\ cut.by_name = ix.by_name \ {name}
      /\ cut.by_scip = ix.by_scip \ {scip}
      /\ cut.by_file = ix.by_file \ {file}
      /\ cut.edges = ix.edges /\ cut.refcounts = ix.refcounts
      /\ cut.outgoing = ix.outgoing /\ cut.incoming = ix.incoming
      /\ cut.snapshot = ix.snapshot
      /\ cut.known = ix.known /\ cut.ids_by_scip = ix.ids_by_scip
  BY <1>5 DEF Shaped, Fields
<1>8. cut.sound = TRUE
  BY <1>4, <1>5 DEF Shaped, Fields, IsIndex, IsBody
<1> HIDE DEF cut
<1>9. IsBody(cut, S \ {s}, E, counts, token)
  <2>1. IsBody(ix, S, E, counts, token)
    BY DEF IsIndex
  <2>2. /\ cut.definitions = Definitions(S \ {s})
        /\ cut.by_name = {<<x.name, x.id>> : x \in S \ {s}}
        /\ cut.by_scip = {<<Scip(x.id), x.id>> : x \in S \ {s}}
        /\ cut.by_file = {<<x.file, x.id>> : x \in S \ {s}}
    <3>1. /\ ix.definitions = Definitions(S)
          /\ ix.by_name = {<<x.name, x.id>> : x \in S}
          /\ ix.by_scip = {<<Scip(x.id), x.id>> : x \in S}
          /\ ix.by_file = {<<x.file, x.id>> : x \in S}
      BY <2>1 DEF IsBody
    <3>2. /\ {<<x.name, x.id>> : x \in S \ {s}} = {<<x.name, x.id>> : x \in S} \ {name}
          /\ {<<Scip(x.id), x.id>> : x \in S \ {s}} = {<<Scip(x.id), x.id>> : x \in S} \ {scip}
          /\ {<<x.file, x.id>> : x \in S \ {s}} = {<<x.file, x.id>> : x \in S} \ {file}
          /\ Definitions(S \ {s}) = Without(Definitions(S), s.id)
      BY <1>3, BucketsWithout
    <3>3. QED
      BY <1>7, <3>1, <3>2, Zenon
  <2>3. QED
    BY <1>6, <1>7, <1>8, <2>1, <2>2 DEF IsBody
<1>10. IdsIn(S) \cup DOMAIN counts = IdsIn(S \ {s}) \cup DOMAIN counts \cup {id}
  BY BucketsWithout DEF IdsIn
<1>11. Knows(cut, IdsIn(S \ {s}) \cup DOMAIN counts \cup {id})
  BY <1>7, <1>10 DEF IsIndex, Knows
<1>12. QED
  BY <1>1, <1>9, <1>11, KnownWhenReleased

\* Putting in a definition replaces the one of its identity, if there is one
\* (upsert_symbol, update.rs).
LEMMA SymbolUpserted ==
  ASSUME NEW ix, NEW S, NEW E, NEW counts, NEW token, IsIndex(ix, S, E, counts, token),
         OneById(S), NEW s
  PROVE  LET others == {x \in S : x.id # s.id}
         IN  /\ IsIndex(UpsertSymbol(ix, s), others \cup {s}, E, counts, token)
             /\ OneById(others \cup {s})
<1> DEFINE others == {x \in S : x.id # s.id}
           id == s.id
           name == <<s.name, id>>
           scip == <<Scip(id), id>>
           file == <<s.file, id>>
           less == IF id \in DOMAIN ix.definitions THEN RemoveSymbol(ix, id) ELSE ix
           bare == EnsureKnown(less, id)
           full == [bare EXCEPT !.definitions = With(bare.definitions, id, s),
                                !.by_name = bare.by_name \cup {name},
                                !.by_scip = bare.by_scip \cup {scip},
                                !.by_file = bare.by_file \cup {file},
                                !.sound = bare.sound /\ name \notin bare.by_name
                                          /\ scip \notin bare.by_scip
                                          /\ file \notin bare.by_file]
           all == others \cup {s}
<1>1. UpsertSymbol(ix, s) = full
  BY DEF UpsertSymbol
<1>2. DOMAIN ix.definitions = IdsIn(S)
  BY DEF IsIndex, IsBody, Definitions
<1>3. IsIndex(less, others, E, counts, token)
  <2>1. CASE id \in IdsIn(S)
    <3>1. PICK x \in S : x.id = id
      BY <2>1 DEF IdsIn
    <3>2. others = S \ {x}
      BY <3>1 DEF OneById
    <3>3. less = RemoveSymbol(ix, x.id)
      BY <1>2, <2>1, <3>1
    <3>4. IsIndex(RemoveSymbol(ix, x.id), S \ {x}, E, counts, token)
      BY <3>1, SymbolRemoved
    <3>5. QED
      BY <3>2, <3>3, <3>4
  <2>2. CASE id \notin IdsIn(S)
    <3>1. others = S /\ less = ix
      BY <1>2, <2>2 DEF IdsIn
    <3>2. QED
      BY <3>1
  <2>3. QED
    BY <2>1, <2>2
<1> HIDE DEF less
<1>4. /\ IsBody(bare, others, E, counts, token)
      /\ Knows(bare, IdsIn(others) \cup DOMAIN counts \cup {id})
  BY <1>3, KnownWhenEnsured DEF IsIndex
<1> HIDE DEF bare
<1>5. OneById(all)
  BY DEF OneById
<1>6. name \notin bare.by_name /\ scip \notin bare.by_scip /\ file \notin bare.by_file
  BY <1>4 DEF IsBody
<1>7. Shaped(bare)
  BY <1>4 DEF IsBody
<1> HIDE DEF name, scip, file, others, all
<1>8. Shaped(full)
  BY <1>7 DEF Shaped, Fields
<1>9. /\ full.definitions = With(bare.definitions, id, s)
      /\ full.by_name = bare.by_name \cup {name}
      /\ full.by_scip = bare.by_scip \cup {scip}
      /\ full.by_file = bare.by_file \cup {file}
      /\ full.edges = bare.edges /\ full.refcounts = bare.refcounts
      /\ full.outgoing = bare.outgoing /\ full.incoming = bare.incoming
      /\ full.snapshot = bare.snapshot
      /\ full.known = bare.known /\ full.ids_by_scip = bare.ids_by_scip
  BY <1>7 DEF Shaped, Fields
<1>10. full.sound = TRUE
  BY <1>4, <1>6, <1>7 DEF Shaped, Fields, IsBody
<1> HIDE DEF full
<1>11. others = all \ {s} /\ s \in all
  BY DEF others, all
<1>12. /\ IdsIn(others) = IdsIn(all) \ {id}
       /\ Definitions(others) = Without(Definitions(all), id)
       /\ Definitions(all)[id] = s /\ id \in IdsIn(all)
  <2>1. /\ IdsIn(all \ {s}) = IdsIn(all) \ {s.id}
        /\ Definitions(all \ {s}) = Without(Definitions(all), s.id)
    BY <1>5, <1>11, BucketsWithout
  <2>2. Definitions(all)[s.id] = s /\ s.id \in IdsIn(all)
    BY <1>5, <1>11, DefinitionOf DEF Definitions
  <2>3. QED
    BY <1>11, <2>1, <2>2
<1>13. With(Definitions(others), id, s) = Definitions(all)
  BY <1>12 DEF With, Without, Definitions
<1>14. /\ {<<x.name, x.id>> : x \in all} = {<<x.name, x.id>> : x \in others} \cup {name}
       /\ {<<Scip(x.id), x.id>> : x \in all} = {<<Scip(x.id), x.id>> : x \in others} \cup {scip}
       /\ {<<x.file, x.id>> : x \in all} = {<<x.file, x.id>> : x \in others} \cup {file}
  BY DEF all, name, scip, file
<1>15. IsBody(full, all, E, counts, token)
  BY <1>4, <1>8, <1>9, <1>10, <1>13, <1>14 DEF IsBody
<1>16. IdsIn(others) \cup DOMAIN counts \cup {id} = IdsIn(all) \cup DOMAIN counts
  BY <1>12
<1>17. Knows(full, IdsIn(all) \cup DOMAIN counts)
  BY <1>4, <1>9, <1>16 DEF Knows
<1>18. QED
  BY <1>1, <1>5, <1>15, <1>17 DEF IsIndex, others, all

(***************************************************************************)
(* Reference counts.                                                       *)
(***************************************************************************)
Degree(E, id) == Cardinality({e \in E : e.from = id}) + Cardinality({e \in E : e.to = id})

More(counts, id) ==
  With(counts, id, (IF id \in DOMAIN counts THEN counts[id] ELSE 0) + 1)
Fewer(counts, id) ==
  IF counts[id] > 1 THEN [counts EXCEPT ![id] = @ - 1] ELSE Without(counts, id)

\* An identity is counted when, and as often as, edges end at it.
LEMMA DegreeCounts ==
  ASSUME NEW E, IsFiniteSet(E)
  PROVE  /\ \A id : Degree(E, id) \in Nat /\ (id \in EndsOf(E) <=> Degree(E, id) # 0)
         /\ Counts(E) = [id \in EndsOf(E) |-> Degree(E, id)]
<1>1. ASSUME NEW id
      PROVE  Degree(E, id) \in Nat /\ (id \in EndsOf(E) <=> Degree(E, id) # 0)
  <2> DEFINE out == {e \in E : e.from = id}
             in == {e \in E : e.to = id}
  <2>1. IsFiniteSet(out) /\ IsFiniteSet(in)
    BY FS_Subset
  <2>2. Cardinality(out) \in Nat /\ Cardinality(in) \in Nat
    BY <2>1, FS_CardinalityType
  <2>3. (Cardinality(out) = 0 <=> out = {}) /\ (Cardinality(in) = 0 <=> in = {})
    BY <2>1, FS_EmptySet
  <2>4. id \in EndsOf(E) <=> out # {} \/ in # {}
    BY DEF EndsOf
  <2>5. Degree(E, id) = Cardinality(out) + Cardinality(in)
    BY DEF Degree
  <2> HIDE DEF out, in
  <2>6. QED
    BY <2>2, <2>3, <2>4, <2>5
<1>2. QED
  BY <1>1 DEF Counts, Degree

\* One edge more raises the degree of both its ends, of a single end by two.
LEMMA DegreeWithOneMore ==
  ASSUME NEW E, IsFiniteSet(E), NEW e, e \notin E, NEW id
  PROVE  Degree(E \cup {e}, id)
           = Degree(E, id) + (IF id = e.from THEN 1 ELSE 0) + (IF id = e.to THEN 1 ELSE 0)
<1> DEFINE out == {x \in E : x.from = id}
           in == {x \in E : x.to = id}
           out2 == {x \in E \cup {e} : x.from = id}
           in2 == {x \in E \cup {e} : x.to = id}
<1>1. IsFiniteSet(out) /\ IsFiniteSet(in)
  BY FS_Subset
<1>2. Cardinality(out) \in Nat /\ Cardinality(in) \in Nat
  BY <1>1, FS_CardinalityType
<1>3. Cardinality(out2) = Cardinality(out) + (IF id = e.from THEN 1 ELSE 0)
  <2>1. CASE id = e.from
    <3>1. out2 = out \cup {e} /\ e \notin out
      BY <2>1
    <3>2. Cardinality(out \cup {e}) = Cardinality(out) + 1
      BY <1>1, <3>1, FS_AddElement
    <3>3. QED
      BY <2>1, <3>1, <3>2
  <2>2. CASE id # e.from
    <3>1. out2 = out
      BY <2>2
    <3>2. Cardinality(out2) = Cardinality(out)
      BY <3>1
    <3> HIDE DEF out, out2
    <3>3. QED
      BY <1>2, <2>2, <3>2
  <2>3. QED
    BY <2>1, <2>2
<1>4. Cardinality(in2) = Cardinality(in) + (IF id = e.to THEN 1 ELSE 0)
  <2>1. CASE id = e.to
    <3>1. in2 = in \cup {e} /\ e \notin in
      BY <2>1
    <3>2. Cardinality(in \cup {e}) = Cardinality(in) + 1
      BY <1>1, <3>1, FS_AddElement
    <3>3. QED
      BY <2>1, <3>1, <3>2
  <2>2. CASE id # e.to
    <3>1. in2 = in
      BY <2>2
    <3>2. Cardinality(in2) = Cardinality(in)
      BY <3>1
    <3> HIDE DEF in, in2
    <3>3. QED
      BY <1>2, <2>2, <3>2
  <2>3. QED
    BY <2>1, <2>2
<1>5. /\ Degree(E, id) = Cardinality(out) + Cardinality(in)
      /\ Degree(E \cup {e}, id) = Cardinality(out2) + Cardinality(in2)
  BY DEF Degree
<1> HIDE DEF out, in, out2, in2
<1>6. QED
  BY <1>2, <1>3, <1>4, <1>5

LEMMA CountsWithOneMore ==
  ASSUME NEW E, IsFiniteSet(E), NEW e, e \notin E
  PROVE  Counts(E \cup {e}) = More(More(Counts(E), e.from), e.to)
<1> DEFINE c == Counts(E)
           c1 == More(c, e.from)
           c2 == More(c1, e.to)
           all == E \cup {e}
<1>1. IsFiniteSet(all)
  BY FS_AddElement
<1>2. \A id : Degree(E, id) \in Nat /\ (id \in DOMAIN c <=> Degree(E, id) # 0)
              /\ (id \in DOMAIN c => c[id] = Degree(E, id))
  BY DegreeCounts
<1>3. \A id : Degree(all, id) \in Nat /\ (id \in EndsOf(all) <=> Degree(all, id) # 0)
  BY <1>1, DegreeCounts
<1>4. Counts(all) = [id \in EndsOf(all) |-> Degree(all, id)]
  BY <1>1, DegreeCounts
<1>5. \A id : Degree(all, id) = Degree(E, id) + (IF id = e.from THEN 1 ELSE 0)
                                  + (IF id = e.to THEN 1 ELSE 0)
  BY DegreeWithOneMore
<1> HIDE DEF c, all
<1>6. c1 = [id \in DOMAIN c \cup {e.from} |->
              IF id = e.from THEN (IF id \in DOMAIN c THEN c[id] ELSE 0) + 1 ELSE c[id]]
  BY DEF More, With
<1>7. \A id \in DOMAIN c1 : c1[id] = Degree(E, id) + (IF id = e.from THEN 1 ELSE 0)
  BY <1>2, <1>6
<1>8. DOMAIN c1 = DOMAIN c \cup {e.from}
  BY <1>6
<1> HIDE DEF c1
<1>9. c2 = [id \in DOMAIN c1 \cup {e.to} |->
              IF id = e.to THEN (IF id \in DOMAIN c1 THEN c1[id] ELSE 0) + 1 ELSE c1[id]]
  BY DEF More, With
<1>10. \A id : id \in DOMAIN c2 <=> id \in EndsOf(all)
  BY <1>2, <1>3, <1>5, <1>8, <1>9
<1>11. \A id \in DOMAIN c2 : c2[id] = Degree(all, id)
  BY <1>2, <1>5, <1>7, <1>8, <1>9
<1>12. DOMAIN c2 = EndsOf(all)
  BY <1>10
<1>13. c2 = [id \in DOMAIN c2 |-> c2[id]]
  BY <1>9
<1> HIDE DEF c2
<1>14. c2 = Counts(all)
  BY <1>4, <1>11, <1>12, <1>13
<1>15. QED
  BY <1>14 DEF c, c1, c2, all

LEMMA CountsWithOneLess ==
  ASSUME NEW E, IsFiniteSet(E), NEW e \in E
  PROVE  /\ e.from \in DOMAIN Counts(E)
         /\ e.to \in DOMAIN Fewer(Counts(E), e.from)
         /\ Counts(E \ {e}) = Fewer(Fewer(Counts(E), e.from), e.to)
<1> DEFINE c == Counts(E)
           c1 == Fewer(c, e.from)
           c2 == Fewer(c1, e.to)
           rest == E \ {e}
<1>1. IsFiniteSet(rest) /\ rest \cup {e} = E /\ e \notin rest
  BY FS_RemoveElement
<1>2. \A id : Degree(E, id) \in Nat /\ (id \in DOMAIN c <=> Degree(E, id) # 0)
              /\ (id \in DOMAIN c => c[id] = Degree(E, id))
  BY DegreeCounts
<1>3. \A id : Degree(rest, id) \in Nat /\ (id \in EndsOf(rest) <=> Degree(rest, id) # 0)
  BY <1>1, DegreeCounts
<1>4. Counts(rest) = [id \in EndsOf(rest) |-> Degree(rest, id)]
  BY <1>1, DegreeCounts
<1>5. \A id : Degree(E, id) = Degree(rest, id) + (IF id = e.from THEN 1 ELSE 0)
                                + (IF id = e.to THEN 1 ELSE 0)
  BY <1>1, DegreeWithOneMore
<1>6. c = [id \in DOMAIN c |-> c[id]]
  BY DEF Counts
<1> HIDE DEF c, rest
<1> DEFINE Half(id) == Degree(E, id) - (IF id = e.from THEN 1 ELSE 0)
<1>7. e.from \in DOMAIN c /\ c[e.from] = Degree(E, e.from)
  BY <1>2, <1>3, <1>5
<1>8. \A id : /\ Half(id) \in Nat
              /\ id \in DOMAIN c1 <=> Half(id) # 0
              /\ id \in DOMAIN c1 => c1[id] = Half(id)
  <2>1. \A id : Half(id) \in Nat
    BY <1>2, <1>3, <1>5
  <2>2. CASE c[e.from] > 1
    <3>1. c1 = [c EXCEPT ![e.from] = c[e.from] - 1]
      BY <2>2 DEF Fewer
    <3>2. QED
      BY <1>2, <1>6, <1>7, <2>1, <2>2, <3>1
  <2>3. CASE ~(c[e.from] > 1)
    <3>1. c1 = [id \in DOMAIN c \ {e.from} |-> c[id]]
      BY <2>3 DEF Fewer, Without
    <3>2. c[e.from] = 1
      BY <1>2, <1>7, <2>3
    <3>3. QED
      BY <1>2, <1>7, <2>1, <3>1, <3>2
  <2>4. QED
    BY <2>2, <2>3
<1>9. c1 = [id \in DOMAIN c1 |-> c1[id]]
  BY <1>6 DEF Fewer, Without
<1> HIDE DEF c1
<1>10. e.to \in DOMAIN c1 /\ c1[e.to] = Half(e.to)
  BY <1>3, <1>5, <1>8
<1>11. \A id : /\ id \in DOMAIN c2 <=> Degree(rest, id) # 0
               /\ id \in DOMAIN c2 => c2[id] = Degree(rest, id)
  <2>1. \A id : Degree(rest, id) = Half(id) - (IF id = e.to THEN 1 ELSE 0)
    BY <1>2, <1>3, <1>5
  <2> HIDE DEF Half
  <2>2. CASE c1[e.to] > 1
    <3>1. c2 = [c1 EXCEPT ![e.to] = c1[e.to] - 1]
      BY <2>2 DEF Fewer
    <3>2. DOMAIN c2 = DOMAIN c1 /\ \A id \in DOMAIN c1 : id # e.to => c2[id] = c1[id]
      BY <1>9, <3>1
    <3>3. c2[e.to] = Half(e.to) - 1 /\ Half(e.to) > 1
      BY <1>9, <1>10, <2>2, <3>1
    <3>4. QED
      BY <1>8, <1>10, <2>1, <3>2, <3>3
  <2>3. CASE ~(c1[e.to] > 1)
    <3>1. c2 = [id \in DOMAIN c1 \ {e.to} |-> c1[id]]
      BY <2>3 DEF Fewer, Without
    <3>2. Half(e.to) = 1
      BY <1>8, <1>10, <2>3
    <3>3. DOMAIN c2 = DOMAIN c1 \ {e.to} /\ \A id \in DOMAIN c2 : c2[id] = c1[id]
      BY <3>1
    <3>4. QED
      BY <1>8, <2>1, <3>2, <3>3
  <2>4. QED
    BY <2>2, <2>3
<1>12. c2 = [id \in DOMAIN c2 |-> c2[id]]
  BY <1>9 DEF Fewer, Without
<1>13. DOMAIN c2 = EndsOf(rest)
  BY <1>3, <1>11
<1> HIDE DEF c2
<1>14. c2 = Counts(rest)
  BY <1>4, <1>11, <1>12, <1>13
<1>15. QED
  BY <1>7, <1>10, <1>14 DEF c, c1, c2, rest

\* To replace an edge by one with the same ends changes no count.
LEMMA CountsWithOneReplaced ==
  ASSUME NEW E, IsFiniteSet(E), NEW d \in E, NEW e, e \notin E \ {d},
         e.from = d.from, e.to = d.to
  PROVE  Counts((E \ {d}) \cup {e}) = Counts(E)
<1> DEFINE rest == E \ {d}
           all == rest \cup {e}
<1>1. IsFiniteSet(rest) /\ rest \cup {d} = E /\ d \notin rest
  BY FS_RemoveElement
<1>2. IsFiniteSet(all)
  BY <1>1, FS_AddElement
<1>3. \A id : Degree(all, id) = Degree(E, id)
  <2>1. \A id : Degree(E, id) = Degree(rest, id) + (IF id = d.from THEN 1 ELSE 0)
                                  + (IF id = d.to THEN 1 ELSE 0)
    BY <1>1, DegreeWithOneMore
  <2>2. \A id : Degree(all, id) = Degree(rest, id) + (IF id = e.from THEN 1 ELSE 0)
                                    + (IF id = e.to THEN 1 ELSE 0)
    BY <1>1, DegreeWithOneMore
  <2>3. QED
    BY <2>1, <2>2
<1>4. EndsOf(all) = EndsOf(E)
  BY <1>2, <1>3, DegreeCounts
<1>5. QED
  BY <1>2, <1>3, <1>4, DegreeCounts

(***************************************************************************)
(* One endpoint more or less.                                              *)
(***************************************************************************)
LEMMA EndpointAdded ==
  ASSUME NEW ix, NEW S, NEW E, NEW counts, NEW token, IsIndex(ix, S, E, counts, token),
         NEW id
  PROVE  IsIndex(AddEndpoint(ix, id), S, E, More(counts, id), token)
<1> DEFINE count == IF id \in DOMAIN ix.refcounts THEN ix.refcounts[id] ELSE 0
           jx == [ix EXCEPT !.refcounts = With(ix.refcounts, id, count + 1)]
           known == IdsIn(S) \cup DOMAIN counts
<1>1. AddEndpoint(ix, id) = EnsureKnown(jx, id)
  BY DEF AddEndpoint
<1>2. Shaped(ix) /\ ix.refcounts = counts
  BY DEF IsIndex, IsBody
<1>3. Shaped(jx)
  BY <1>2 DEF Shaped, Fields
<1>4. /\ jx.definitions = ix.definitions /\ jx.edges = ix.edges /\ jx.known = ix.known
      /\ jx.by_name = ix.by_name /\ jx.by_scip = ix.by_scip /\ jx.by_file = ix.by_file
      /\ jx.ids_by_scip = ix.ids_by_scip /\ jx.outgoing = ix.outgoing
      /\ jx.incoming = ix.incoming /\ jx.snapshot = ix.snapshot /\ jx.sound = ix.sound
      /\ jx.refcounts = With(ix.refcounts, id, count + 1)
  BY <1>2 DEF Shaped, Fields
<1> HIDE DEF jx
<1>5. jx.refcounts = More(counts, id)
  BY <1>2, <1>4 DEF More
<1>6. IsBody(jx, S, E, More(counts, id), token) /\ Knows(jx, known)
  BY <1>3, <1>4, <1>5 DEF IsIndex, IsBody, Knows
<1>7. DOMAIN More(counts, id) = DOMAIN counts \cup {id}
  BY DEF More, With
<1>8. IsBody(EnsureKnown(jx, id), S, E, More(counts, id), token)
      /\ Knows(EnsureKnown(jx, id), known \cup {id})
  BY <1>6, KnownWhenEnsured
<1>9. known \cup {id} = IdsIn(S) \cup DOMAIN More(counts, id)
  BY <1>7
<1>10. QED
  BY <1>1, <1>8, <1>9 DEF IsIndex

LEMMA EndpointRemoved ==
  ASSUME NEW ix, NEW S, NEW E, NEW counts, NEW token, IsIndex(ix, S, E, counts, token),
         NEW id \in DOMAIN counts
  PROVE  IsIndex(RemoveEndpoint(ix, id), S, E, Fewer(counts, id), token)
<1> DEFINE known == IdsIn(S) \cup DOMAIN counts
<1>1. Shaped(ix) /\ ix.refcounts = counts
  BY DEF IsIndex, IsBody
<1>2. CASE counts[id] > 1
  <2> DEFINE jx == [ix EXCEPT !.refcounts[id] = ix.refcounts[id] - 1]
  <2>1. RemoveEndpoint(ix, id) = jx
    BY <1>1, <1>2 DEF RemoveEndpoint
  <2>2. Shaped(jx)
    BY <1>1 DEF Shaped, Fields
  <2>3. /\ jx.definitions = ix.definitions /\ jx.edges = ix.edges /\ jx.known = ix.known
        /\ jx.by_name = ix.by_name /\ jx.by_scip = ix.by_scip /\ jx.by_file = ix.by_file
        /\ jx.ids_by_scip = ix.ids_by_scip /\ jx.outgoing = ix.outgoing
        /\ jx.incoming = ix.incoming /\ jx.snapshot = ix.snapshot /\ jx.sound = ix.sound
        /\ jx.refcounts = [ix.refcounts EXCEPT ![id] = ix.refcounts[id] - 1]
    BY <1>1 DEF Shaped, Fields
  <2> HIDE DEF jx
  <2>4. jx.refcounts = Fewer(counts, id)
    BY <1>1, <1>2, <2>3 DEF Fewer
  <2>5. DOMAIN Fewer(counts, id) = DOMAIN counts
    BY <1>2 DEF Fewer
  <2>6. IsIndex(jx, S, E, Fewer(counts, id), token)
    BY <2>2, <2>3, <2>4, <2>5 DEF IsIndex, IsBody, Knows
  <2>7. QED
    BY <2>1, <2>6
<1>3. CASE ~(counts[id] > 1)
  <2> DEFINE jx == [ix EXCEPT !.refcounts = Without(ix.refcounts, id)]
  <2>1. RemoveEndpoint(ix, id) = RemoveKnownIfUnreferenced(jx, id)
    BY <1>1, <1>3 DEF RemoveEndpoint
  <2>2. Shaped(jx)
    BY <1>1 DEF Shaped, Fields
  <2>3. /\ jx.definitions = ix.definitions /\ jx.edges = ix.edges /\ jx.known = ix.known
        /\ jx.by_name = ix.by_name /\ jx.by_scip = ix.by_scip /\ jx.by_file = ix.by_file
        /\ jx.ids_by_scip = ix.ids_by_scip /\ jx.outgoing = ix.outgoing
        /\ jx.incoming = ix.incoming /\ jx.snapshot = ix.snapshot /\ jx.sound = ix.sound
        /\ jx.refcounts = Without(ix.refcounts, id)
    BY <1>1 DEF Shaped, Fields
  <2> HIDE DEF jx
  <2>4. jx.refcounts = Fewer(counts, id)
    BY <1>1, <1>3, <2>3 DEF Fewer
  <2>5. DOMAIN Fewer(counts, id) = DOMAIN counts \ {id}
    BY <1>3 DEF Fewer, Without
  <2>6. known = IdsIn(S) \cup DOMAIN Fewer(counts, id) \cup {id}
    BY <2>5
  <2>7. IsBody(jx, S, E, Fewer(counts, id), token)
    BY <2>2, <2>3, <2>4 DEF IsIndex, IsBody
  <2>8. Knows(jx, IdsIn(S) \cup DOMAIN Fewer(counts, id) \cup {id})
    BY <2>3, <2>6 DEF IsIndex, Knows
  <2>9. QED
    BY <2>1, <2>7, <2>8, KnownWhenReleased
<1>4. QED
  BY <1>2, <1>3

(***************************************************************************)
(* One edge less or more.                                                  *)
(***************************************************************************)
LEMMA EdgeOf ==
  ASSUME NEW E, OneByKey(E), NEW e \in E
  PROVE  EdgesByKey(E)[EdgeKey(e)] = e /\ EdgeKey(e) \in DOMAIN EdgesByKey(E)
BY DEF EdgesByKey, KeysIn, OneByKey

LEMMA KeyEnds ==
  ASSUME NEW e
  PROVE  EdgeKey(e).from = e.from /\ EdgeKey(e).to = e.to
BY DEF EdgeKey

LEMMA EdgesWithout ==
  ASSUME NEW E, OneByKey(E), NEW e \in E
  PROVE  /\ KeysIn(E \ {e}) = KeysIn(E) \ {EdgeKey(e)}
         /\ {<<x.from, EdgeKey(x)>> : x \in E \ {e}}
              = {<<x.from, EdgeKey(x)>> : x \in E} \ {<<e.from, EdgeKey(e)>>}
         /\ {<<x.to, EdgeKey(x)>> : x \in E \ {e}}
              = {<<x.to, EdgeKey(x)>> : x \in E} \ {<<e.to, EdgeKey(e)>>}
         /\ EdgesByKey(E \ {e}) = Without(EdgesByKey(E), EdgeKey(e))
<1>1. \A x \in E : EdgeKey(x) = EdgeKey(e) => x = e
  BY DEF OneByKey
<1>2. KeysIn(E \ {e}) = KeysIn(E) \ {EdgeKey(e)}
  BY <1>1 DEF KeysIn
<1>3. {<<x.from, EdgeKey(x)>> : x \in E \ {e}}
        = {<<x.from, EdgeKey(x)>> : x \in E} \ {<<e.from, EdgeKey(e)>>}
  BY <1>1
<1>4. {<<x.to, EdgeKey(x)>> : x \in E \ {e}}
        = {<<x.to, EdgeKey(x)>> : x \in E} \ {<<e.to, EdgeKey(e)>>}
  BY <1>1
<1>5. OneByKey(E \ {e})
  BY DEF OneByKey
<1>6. ASSUME NEW key \in KeysIn(E) \ {EdgeKey(e)}
      PROVE  EdgesByKey(E \ {e})[key] = EdgesByKey(E)[key]
  <2>1. PICK x \in E : EdgeKey(x) = key
    BY DEF KeysIn
  <2>2. x \in E \ {e}
    BY <2>1
  <2>3. EdgesByKey(E \ {e})[EdgeKey(x)] = x /\ EdgesByKey(E)[EdgeKey(x)] = x
    BY <1>5, <2>2, EdgeOf
  <2>4. QED
    BY <2>1, <2>3
<1>7. EdgesByKey(E \ {e}) = Without(EdgesByKey(E), EdgeKey(e))
  BY <1>2, <1>6 DEF EdgesByKey, Without
<1>8. QED
  BY <1>2, <1>3, <1>4, <1>7

\* Taking out an edge leaves the index of the others, its ends unknown when nothing
\* else speaks of them (remove_edge, update.rs).
LEMMA EdgeRemoved ==
  ASSUME NEW ix, NEW S, NEW E, NEW token, IsFiniteSet(E), OneByKey(E),
         IsIndex(ix, S, E, Counts(E), token), NEW e \in E
  PROVE  IsIndex(RemoveEdge(ix, EdgeKey(e)), S, E \ {e}, Counts(E \ {e}), token)
<1> DEFINE key == EdgeKey(e)
           out == <<key.from, key>>
           in == <<key.to, key>>
           cut == [ix EXCEPT !.edges = Without(ix.edges, key),
                             !.outgoing = ix.outgoing \ {out},
                             !.incoming = ix.incoming \ {in},
                             !.sound = ix.sound /\ out \in ix.outgoing /\ in \in ix.incoming]
           counts == Counts(E)
<1>1. RemoveEdge(ix, key) = RemoveEndpoint(RemoveEndpoint(cut, key.from), key.to)
  BY DEF RemoveEdge
<1>2. key.from = e.from /\ key.to = e.to
  BY KeyEnds
<1>3. IsBody(ix, S, E, counts, token) /\ Shaped(ix)
  BY DEF IsIndex, IsBody
<1>4. out \in ix.outgoing /\ in \in ix.incoming
  BY <1>2, <1>3 DEF IsBody
<1>5. /\ EdgesByKey(E \ {e}) = Without(EdgesByKey(E), key)
      /\ {<<x.from, EdgeKey(x)>> : x \in E \ {e}} = {<<x.from, EdgeKey(x)>> : x \in E} \ {out}
      /\ {<<x.to, EdgeKey(x)>> : x \in E \ {e}} = {<<x.to, EdgeKey(x)>> : x \in E} \ {in}
  BY <1>2, EdgesWithout
<1> HIDE DEF key, out, in, counts
<1>6. Shaped(cut)
  BY <1>3 DEF Shaped, Fields
<1>7. /\ cut.edges = Without(ix.edges, key)
      /\ cut.outgoing = ix.outgoing \ {out}
      /\ cut.incoming = ix.incoming \ {in}
      /\ cut.definitions = ix.definitions /\ cut.refcounts = ix.refcounts
      /\ cut.known = ix.known /\ cut.ids_by_scip = ix.ids_by_scip
      /\ cut.by_name = ix.by_name /\ cut.by_scip = ix.by_scip /\ cut.by_file = ix.by_file
      /\ cut.snapshot = ix.snapshot
  BY <1>3 DEF Shaped, Fields
<1>8. cut.sound = TRUE
  BY <1>3, <1>4 DEF Shaped, Fields, IsBody
<1> HIDE DEF cut
<1>9. /\ cut.edges = EdgesByKey(E \ {e})
      /\ cut.outgoing = {<<x.from, EdgeKey(x)>> : x \in E \ {e}}
      /\ cut.incoming = {<<x.to, EdgeKey(x)>> : x \in E \ {e}}
  <2>1. /\ ix.edges = EdgesByKey(E)
        /\ ix.outgoing = {<<x.from, EdgeKey(x)>> : x \in E}
        /\ ix.incoming = {<<x.to, EdgeKey(x)>> : x \in E}
    BY <1>3 DEF IsBody
  <2>2. QED
    BY <1>5, <1>7, <2>1, Zenon
<1>10. IsBody(cut, S, E \ {e}, counts, token)
  BY <1>3, <1>6, <1>7, <1>8, <1>9 DEF IsBody
<1>11. IsIndex(cut, S, E \ {e}, counts, token)
  BY <1>7, <1>10 DEF IsIndex, Knows, counts
<1>12. /\ e.from \in DOMAIN counts
       /\ e.to \in DOMAIN Fewer(counts, e.from)
       /\ Counts(E \ {e}) = Fewer(Fewer(counts, e.from), e.to)
  BY CountsWithOneLess DEF counts
<1>13. IsIndex(RemoveEndpoint(cut, e.from), S, E \ {e}, Fewer(counts, e.from), token)
  BY <1>11, <1>12, EndpointRemoved
<1>14. IsIndex(RemoveEndpoint(RemoveEndpoint(cut, e.from), e.to), S, E \ {e},
               Fewer(Fewer(counts, e.from), e.to), token)
  BY <1>12, <1>13, EndpointRemoved
<1>15. QED
  BY <1>1, <1>2, <1>12, <1>14 DEF key

\* Putting in an edge replaces the one of its key, if there is one (upsert_edge, update.rs).
LEMMA EdgeUpserted ==
  ASSUME NEW ix, NEW S, NEW E, NEW token, IsFiniteSet(E), OneByKey(E),
         IsIndex(ix, S, E, Counts(E), token), NEW e
  PROVE  LET others == {x \in E : EdgeKey(x) # EdgeKey(e)}
         IN  /\ IsIndex(UpsertEdge(ix, e), S, others \cup {e}, Counts(others \cup {e}), token)
             /\ OneByKey(others \cup {e})
             /\ IsFiniteSet(others \cup {e})
<1> DEFINE others == {x \in E : EdgeKey(x) # EdgeKey(e)}
           all == others \cup {e}
           key == EdgeKey(e)
           out == <<e.from, key>>
           in == <<e.to, key>>
<1>1. OneByKey(all)
  BY DEF OneByKey
<1>2. IsFiniteSet(all)
  <2>1. IsFiniteSet(others)
    BY FS_Subset
  <2>2. QED
    BY <2>1, FS_AddElement
<1>3. IsBody(ix, S, E, Counts(E), token) /\ Shaped(ix) /\ DOMAIN ix.edges = KeysIn(E)
  BY DEF IsIndex, IsBody, EdgesByKey
<1>4. others = all \ {e} /\ e \in all
  OBVIOUS
<1>5. /\ KeysIn(others) = KeysIn(all) \ {key}
      /\ EdgesByKey(others) = Without(EdgesByKey(all), key)
      /\ EdgesByKey(all)[key] = e /\ key \in KeysIn(all)
  <2>1. /\ KeysIn(all \ {e}) = KeysIn(all) \ {EdgeKey(e)}
        /\ EdgesByKey(all \ {e}) = Without(EdgesByKey(all), EdgeKey(e))
    BY <1>1, <1>4, EdgesWithout
  <2>2. EdgesByKey(all)[EdgeKey(e)] = e /\ EdgeKey(e) \in KeysIn(all)
    BY <1>1, <1>4, EdgeOf DEF EdgesByKey
  <2>3. QED
    BY <1>4, <2>1, <2>2
<1>6. CASE key \in KeysIn(E)
  <2> DEFINE jx == [ix EXCEPT !.edges[key] = e]
  <2>1. UpsertEdge(ix, e) = jx
    BY <1>3, <1>6 DEF UpsertEdge
  <2>2. PICK d \in E : EdgeKey(d) = key
    BY <1>6 DEF KeysIn
  <2>3. e.from = d.from /\ e.to = d.to
    BY <2>2, KeyEnds
  <2>4. others = E \ {d}
    BY <2>2 DEF OneByKey
  <2>5. e \notin E \ {d}
    BY <2>4
  <2>6. Counts(all) = Counts(E)
    BY <2>3, <2>4, <2>5, CountsWithOneReplaced
  <2>7. Shaped(jx)
    BY <1>3 DEF Shaped, Fields
  <2>8. /\ jx.edges = [ix.edges EXCEPT ![key] = e]
        /\ jx.definitions = ix.definitions /\ jx.refcounts = ix.refcounts
        /\ jx.known = ix.known /\ jx.ids_by_scip = ix.ids_by_scip
        /\ jx.by_name = ix.by_name /\ jx.by_scip = ix.by_scip /\ jx.by_file = ix.by_file
        /\ jx.outgoing = ix.outgoing /\ jx.incoming = ix.incoming
        /\ jx.snapshot = ix.snapshot /\ jx.sound = ix.sound
    BY <1>3 DEF Shaped, Fields
  <2> HIDE DEF jx
  <2>9. KeysIn(all) = KeysIn(E)
    BY <2>2, <2>4 DEF KeysIn
  <2>10. jx.edges = EdgesByKey(all)
    <3>1. EdgesByKey(others) = Without(EdgesByKey(E), key)
      BY <2>2, <2>4, EdgesWithout
    <3>2. \A k \in KeysIn(E) : k # key => EdgesByKey(all)[k] = EdgesByKey(E)[k]
      BY <1>5, <2>9, <3>1 DEF Without, EdgesByKey
    <3>3. jx.edges = [EdgesByKey(E) EXCEPT ![key] = e]
      BY <1>3, <2>8 DEF IsBody
    <3> DEFINE f == EdgesByKey(all)
               g == EdgesByKey(E)
    <3>4. f = [k \in KeysIn(E) |-> f[k]] /\ g = [k \in KeysIn(E) |-> g[k]]
      BY <2>9 DEF EdgesByKey
    <3>5. f[key] = e
      BY <1>5
    <3> HIDE DEF f, g
    <3>6. [g EXCEPT ![key] = e] = f
      BY <3>2, <3>4, <3>5 DEF f, g
    <3>7. QED
      BY <3>3, <3>6 DEF f, g
  <2>11. /\ {<<x.from, EdgeKey(x)>> : x \in all} = {<<x.from, EdgeKey(x)>> : x \in E}
         /\ {<<x.to, EdgeKey(x)>> : x \in all} = {<<x.to, EdgeKey(x)>> : x \in E}
    <3>1. <<e.from, EdgeKey(e)>> = <<d.from, EdgeKey(d)>>
          /\ <<e.to, EdgeKey(e)>> = <<d.to, EdgeKey(d)>>
      BY <2>2, <2>3
    <3>2. QED
      BY <2>4, <3>1
  <2>12. IsBody(jx, S, all, Counts(E), token)
    BY <1>3, <2>7, <2>8, <2>10, <2>11 DEF IsBody
  <2>13. IsIndex(jx, S, all, Counts(E), token)
    BY <2>8, <2>12 DEF IsIndex, Knows
  <2>14. QED
    BY <1>1, <1>2, <2>1, <2>6, <2>13
<1>7. CASE key \notin KeysIn(E)
  <2> DEFINE ended == AddEndpoint(AddEndpoint(ix, e.from), e.to)
             jx == [ended EXCEPT !.edges = With(ended.edges, key, e),
                                 !.outgoing = ended.outgoing \cup {out},
                                 !.incoming = ended.incoming \cup {in},
                                 !.sound = ended.sound /\ out \notin ended.outgoing
                                           /\ in \notin ended.incoming]
             counts == Counts(all)
  <2>1. UpsertEdge(ix, e) = jx
    BY <1>3, <1>7 DEF UpsertEdge
  <2>2. others = E /\ e \notin E
    BY <1>7 DEF KeysIn
  <2>3. counts = More(More(Counts(E), e.from), e.to)
    BY <2>2, CountsWithOneMore
  <2>4. IsIndex(ended, S, E, counts, token)
    <3>1. IsIndex(AddEndpoint(ix, e.from), S, E, More(Counts(E), e.from), token)
      BY EndpointAdded
    <3>2. IsIndex(ended, S, E, More(More(Counts(E), e.from), e.to), token)
      BY <3>1, EndpointAdded
    <3>3. QED
      BY <2>3, <3>2
  <2> HIDE DEF ended, counts
  <2>5. IsBody(ended, S, E, counts, token) /\ Shaped(ended)
    BY <2>4 DEF IsIndex, IsBody
  <2>6. out \notin ended.outgoing /\ in \notin ended.incoming
    BY <1>7, <2>5 DEF IsBody, KeysIn
  <2> HIDE DEF key, out, in
  <2>7. Shaped(jx)
    BY <2>5 DEF Shaped, Fields
  <2>8. /\ jx.edges = With(ended.edges, key, e)
        /\ jx.outgoing = ended.outgoing \cup {out}
        /\ jx.incoming = ended.incoming \cup {in}
        /\ jx.definitions = ended.definitions /\ jx.refcounts = ended.refcounts
        /\ jx.known = ended.known /\ jx.ids_by_scip = ended.ids_by_scip
        /\ jx.by_name = ended.by_name /\ jx.by_scip = ended.by_scip
        /\ jx.by_file = ended.by_file /\ jx.snapshot = ended.snapshot
    BY <2>5 DEF Shaped, Fields
  <2>9. jx.sound = TRUE
    BY <2>5, <2>6 DEF Shaped, Fields, IsBody
  <2> HIDE DEF jx
  <2>10. jx.edges = EdgesByKey(all)
    <3>1. jx.edges = With(EdgesByKey(others), key, e)
      BY <2>2, <2>5, <2>8 DEF IsBody
    <3>2. With(Without(EdgesByKey(all), key), key, e) = EdgesByKey(all)
      BY <1>5 DEF With, Without, EdgesByKey
    <3>3. QED
      BY <1>5, <3>1, <3>2
  <2>11. /\ {<<x.from, EdgeKey(x)>> : x \in all} = {<<x.from, EdgeKey(x)>> : x \in E} \cup {out}
         /\ {<<x.to, EdgeKey(x)>> : x \in all} = {<<x.to, EdgeKey(x)>> : x \in E} \cup {in}
    BY <2>2 DEF out, in, key
  <2>12. IsBody(jx, S, all, counts, token)
    BY <2>5, <2>7, <2>8, <2>9, <2>10, <2>11 DEF IsBody
  <2>13. IsIndex(jx, S, all, counts, token)
    BY <2>4, <2>8, <2>12 DEF IsIndex, Knows
  <2>14. QED
    BY <1>1, <1>2, <2>1, <2>13 DEF counts
<1>8. QED
  BY <1>6, <1>7

(***************************************************************************)
(* The lists of a delta, one member after the other.  A fold over a list   *)
(* is a function of the places passed so far; for each of the four folds   *)
(* the index of what is left or there by then solves the fold's equation,  *)
(* and by induction no other function agrees with the fold.                *)
(***************************************************************************)
IndexOf(S, E, counts, token) ==
  [definitions |-> Definitions(S), edges |-> EdgesByKey(E),
   known |-> IdsIn(S) \cup DOMAIN counts, refcounts |-> counts,
   by_name |-> {<<s.name, s.id>> : s \in S},
   by_scip |-> {<<Scip(s.id), s.id>> : s \in S},
   by_file |-> {<<s.file, s.id>> : s \in S},
   ids_by_scip |-> {<<Scip(id), id>> : id \in IdsIn(S) \cup DOMAIN counts},
   outgoing |-> {<<e.from, EdgeKey(e)>> : e \in E},
   incoming |-> {<<e.to, EdgeKey(e)>> : e \in E},
   snapshot |-> token, sound |-> TRUE]

LEMMA IndexOfIsIndex ==
  ASSUME NEW S, NEW E, NEW counts, NEW token
  PROVE  /\ IsIndex(IndexOf(S, E, counts, token), S, E, counts, token)
         /\ \A ix : IsIndex(ix, S, E, counts, token) => ix = IndexOf(S, E, counts, token)
<1> DEFINE jx == IndexOf(S, E, counts, token)
<1>1. Shaped(jx)
  BY DEF Shaped, Fields, IndexOf
<1>2. IsBody(jx, S, E, counts, token)
  BY <1>1 DEF IsBody, IndexOf
<1>3. Knows(jx, IdsIn(S) \cup DOMAIN counts)
  BY DEF Knows, IndexOf
<1>4. IsIndex(jx, S, E, counts, token)
  BY <1>2, <1>3 DEF IsIndex
<1> HIDE DEF jx
<1>5. QED
  BY <1>4, OneIndex DEF jx

\* The last of the first m places, and the places before it.
LEMMA LastPlace ==
  ASSUME NEW m \in Nat, m # 0
  PROVE  Max(1 .. m) = m /\ (1 .. m) \ {m} = 1 .. m - 1 /\ 1 .. m # {}
<1>1. m \in 1 .. m /\ 1 .. m \in SUBSET (1 .. m)
  OBVIOUS
<1>2. Max(1 .. m) \in 1 .. m /\ \A i \in 1 .. m : i <= Max(1 .. m)
  BY <1>1, LargestOf
<1>3. Max(1 .. m) = m
  BY <1>1, <1>2
<1>4. QED
  BY <1>1, <1>3

\* Two functions of sets of places that start equal and go on equal end equal.
LEMMA FoldsAgree ==
  ASSUME NEW n \in Nat, NEW f, NEW g, f[{}] = g[{}],
         \A s \in SUBSET (1 .. n) :
           s # {} /\ f[s \ {Max(s)}] = g[s \ {Max(s)}] => f[s] = g[s]
  PROVE  f[1 .. n] = g[1 .. n]
<1> DEFINE T == {m \in 0 .. n : f[1 .. m] = g[1 .. m]}
<1>1. 0 \in T
  <2>1. 1 .. 0 = {}
    OBVIOUS
  <2>2. QED
    BY <2>1
<1>2. ASSUME NEW m \in 1 .. n, m - 1 \in T PROVE m \in T
  <2>1. m \in Nat /\ m # 0 /\ 1 .. m \in SUBSET (1 .. n)
    OBVIOUS
  <2>2. Max(1 .. m) = m /\ (1 .. m) \ {m} = 1 .. m - 1 /\ 1 .. m # {}
    BY <2>1, LastPlace
  <2>3. f[(1 .. m) \ {Max(1 .. m)}] = g[(1 .. m) \ {Max(1 .. m)}]
    BY <1>2, <2>2
  <2>4. f[1 .. m] = g[1 .. m]
    BY <2>1, <2>2, <2>3
  <2>5. QED
    BY <2>4
<1> HIDE DEF T
<1>3. n \in T
  BY <1>1, <1>2, InductionUpTo
<1>4. QED
  BY <1>3 DEF T

LEMMA SymbolsRemoved ==
  ASSUME NEW ix, NEW S, NEW E, NEW counts, NEW token, IsIndex(ix, S, E, counts, token),
         OneById(S), NEW n \in Nat, NEW seq, DOMAIN seq = 1 .. n, Distinct(seq),
         Range(seq) \subseteq IdsIn(S)
  PROVE  IsIndex(FoldLeft(RemoveSymbol, ix, seq), {x \in S : x.id \notin Range(seq)},
                 E, counts, token)
<1> DEFINE Left(s) == {x \in S : \A i \in s : x.id # seq[i]}
           G == [s \in SUBSET (DOMAIN seq) |-> IndexOf(Left(s), E, counts, token)]
           fold[s \in SUBSET (DOMAIN seq)] ==
             IF s = {} THEN ix ELSE RemoveSymbol(fold[s \ {Max(s)}], seq[Max(s)])
<1>1. FoldLeft(RemoveSymbol, ix, seq) = fold[DOMAIN seq]
  BY DEF FoldLeft, MapThenFoldSet
<1>2. \A s \in SUBSET (DOMAIN seq) : IsIndex(G[s], Left(s), E, counts, token)
  BY IndexOfIsIndex
<1>3. G[{}] = ix
  <2>1. Left({}) = S
    OBVIOUS
  <2>2. ix = IndexOf(Left({}), E, counts, token)
    BY <2>1, IndexOfIsIndex
  <2>3. QED
    BY <2>2
<1>4. ASSUME NEW s \in SUBSET (DOMAIN seq), s # {}
      PROVE  G[s] = RemoveSymbol(G[s \ {Max(s)}], seq[Max(s)])
  <2> DEFINE last == Max(s)
             before == s \ {last}
  <2>1. last \in s
    BY <1>4, LargestOf
  <2>2. before \in SUBSET (DOMAIN seq) /\ last \in DOMAIN seq /\ last \notin before
        /\ s = before \cup {last}
    BY <2>1
  <2> HIDE DEF last
  <2>3. PICK y \in S : y.id = seq[last]
    BY <2>2 DEF Range, IdsIn
  <2>4. y \in Left(before)
    BY <2>2, <2>3 DEF Distinct
  <2>5. Left(before) \ {y} = Left(s)
    BY <2>2, <2>3 DEF OneById
  <2>6. OneById(Left(before)) /\ IsIndex(G[before], Left(before), E, counts, token)
    BY <1>2, <2>2 DEF OneById
  <2> HIDE DEF Left, G, before
  <2>7. IsIndex(RemoveSymbol(G[before], y.id), Left(before) \ {y}, E, counts, token)
    BY <2>4, <2>6, SymbolRemoved
  <2>8. IsIndex(G[s], Left(s), E, counts, token)
    BY <1>2
  <2>9. G[s] = RemoveSymbol(G[before], seq[last])
    BY <2>3, <2>5, <2>7, <2>8, OneIndex
  <2>10. QED
    BY <2>9 DEF before, last
<1> HIDE DEF Left
<1>5. G = [s \in SUBSET (DOMAIN seq) |->
             IF s = {} THEN ix ELSE RemoveSymbol(G[s \ {Max(s)}], seq[Max(s)])]
  BY <1>3, <1>4
<1>6. fold = [s \in SUBSET (DOMAIN seq) |->
                IF s = {} THEN ix ELSE RemoveSymbol(fold[s \ {Max(s)}], seq[Max(s)])]
  BY <1>5
<1> HIDE DEF G, fold
<1>7. fold[{}] = G[{}]
  BY <1>3, <1>6
<1>8. ASSUME NEW s \in SUBSET (DOMAIN seq), s # {}, fold[s \ {Max(s)}] = G[s \ {Max(s)}]
      PROVE  fold[s] = G[s]
  BY <1>4, <1>6, <1>8
<1>9. fold[1 .. n] = G[1 .. n]
  BY <1>7, <1>8, FoldsAgree
<1>10. Left(DOMAIN seq) = {x \in S : x.id \notin Range(seq)}
  BY DEF Left, Range
<1>11. QED
  BY <1>1, <1>2, <1>9, <1>10

LEMMA EdgesRemoved ==
  ASSUME NEW ix, NEW S, NEW E, NEW token, IsFiniteSet(E), OneByKey(E),
         IsIndex(ix, S, E, Counts(E), token),
         NEW n \in Nat, NEW seq, DOMAIN seq = 1 .. n, Distinct(seq),
         Range(seq) \subseteq KeysIn(E)
  PROVE  LET left == {x \in E : EdgeKey(x) \notin Range(seq)}
         IN  IsIndex(FoldLeft(RemoveEdge, ix, seq), S, left, Counts(left), token)
<1> DEFINE Left(s) == {x \in E : \A i \in s : EdgeKey(x) # seq[i]}
           G == [s \in SUBSET (DOMAIN seq) |-> IndexOf(S, Left(s), Counts(Left(s)), token)]
           fold[s \in SUBSET (DOMAIN seq)] ==
             IF s = {} THEN ix ELSE RemoveEdge(fold[s \ {Max(s)}], seq[Max(s)])
<1>1. FoldLeft(RemoveEdge, ix, seq) = fold[DOMAIN seq]
  BY DEF FoldLeft, MapThenFoldSet
<1>2. \A s \in SUBSET (DOMAIN seq) : IsIndex(G[s], S, Left(s), Counts(Left(s)), token)
  BY IndexOfIsIndex
<1>3. G[{}] = ix
  <2>1. Left({}) = E
    OBVIOUS
  <2>2. ix = IndexOf(S, Left({}), Counts(Left({})), token)
    BY <2>1, IndexOfIsIndex
  <2>3. QED
    BY <2>2
<1>4. ASSUME NEW s \in SUBSET (DOMAIN seq), s # {}
      PROVE  G[s] = RemoveEdge(G[s \ {Max(s)}], seq[Max(s)])
  <2> DEFINE last == Max(s)
             before == s \ {last}
  <2>1. last \in s
    BY <1>4, LargestOf
  <2>2. before \in SUBSET (DOMAIN seq) /\ last \in DOMAIN seq /\ last \notin before
        /\ s = before \cup {last}
    BY <2>1
  <2> HIDE DEF last
  <2>3. PICK y \in E : EdgeKey(y) = seq[last]
    BY <2>2 DEF Range, KeysIn
  <2>4. y \in Left(before)
    BY <2>2, <2>3 DEF Distinct
  <2>5. Left(before) \ {y} = Left(s)
    BY <2>2, <2>3 DEF OneByKey
  <2>6. OneByKey(Left(before))
        /\ IsIndex(G[before], S, Left(before), Counts(Left(before)), token)
    BY <1>2, <2>2 DEF OneByKey
  <2>7. IsFiniteSet(Left(before))
    BY FS_Subset
  <2> HIDE DEF Left, G, before
  <2>8. IsIndex(RemoveEdge(G[before], EdgeKey(y)), S, Left(before) \ {y},
                Counts(Left(before) \ {y}), token)
    BY <2>4, <2>6, <2>7, EdgeRemoved
  <2>9. IsIndex(G[s], S, Left(s), Counts(Left(s)), token)
    BY <1>2
  <2>10. G[s] = RemoveEdge(G[before], seq[last])
    BY <2>3, <2>5, <2>8, <2>9, OneIndex
  <2>11. QED
    BY <2>10 DEF before, last
<1> HIDE DEF Left
<1>5. G = [s \in SUBSET (DOMAIN seq) |->
             IF s = {} THEN ix ELSE RemoveEdge(G[s \ {Max(s)}], seq[Max(s)])]
  BY <1>3, <1>4
<1>6. fold = [s \in SUBSET (DOMAIN seq) |->
                IF s = {} THEN ix ELSE RemoveEdge(fold[s \ {Max(s)}], seq[Max(s)])]
  BY <1>5
<1> HIDE DEF G, fold
<1>7. fold[{}] = G[{}]
  BY <1>3, <1>6
<1>8. ASSUME NEW s \in SUBSET (DOMAIN seq), s # {}, fold[s \ {Max(s)}] = G[s \ {Max(s)}]
      PROVE  fold[s] = G[s]
  BY <1>4, <1>6, <1>8
<1>9. fold[1 .. n] = G[1 .. n]
  BY <1>7, <1>8, FoldsAgree
<1>10. Left(DOMAIN seq) = {x \in E : EdgeKey(x) \notin Range(seq)}
  BY DEF Left, Range
<1>11. QED
  BY <1>1, <1>2, <1>9, <1>10

LEMMA SymbolsUpserted ==
  ASSUME NEW ix, NEW S, NEW E, NEW counts, NEW token, IsIndex(ix, S, E, counts, token),
         OneById(S), NEW n \in Nat, NEW seq, DOMAIN seq = 1 .. n, Distinct(seq),
         OneById(Range(seq))
  PROVE  IsIndex(FoldLeft(UpsertSymbol, ix, seq),
                 {x \in S : x.id \notin IdsIn(Range(seq))} \cup Range(seq), E, counts, token)
<1> DEFINE There(s) == {x \in S : \A i \in s : x.id # seq[i].id} \cup {seq[i] : i \in s}
           G == [s \in SUBSET (DOMAIN seq) |-> IndexOf(There(s), E, counts, token)]
           fold[s \in SUBSET (DOMAIN seq)] ==
             IF s = {} THEN ix ELSE UpsertSymbol(fold[s \ {Max(s)}], seq[Max(s)])
<1>1. FoldLeft(UpsertSymbol, ix, seq) = fold[DOMAIN seq]
  BY DEF FoldLeft, MapThenFoldSet
<1>2. \A s \in SUBSET (DOMAIN seq) : IsIndex(G[s], There(s), E, counts, token)
  BY IndexOfIsIndex
<1>3. G[{}] = ix
  <2>1. There({}) = S
    OBVIOUS
  <2>2. ix = IndexOf(There({}), E, counts, token)
    BY <2>1, IndexOfIsIndex
  <2>3. QED
    BY <2>2
<1>4. \A i, j \in DOMAIN seq : seq[i].id = seq[j].id => i = j
  <2>1. \A i \in DOMAIN seq : seq[i] \in Range(seq)
    BY DEF Range
  <2>2. QED
    BY <2>1 DEF OneById, Distinct
<1>5. ASSUME NEW s \in SUBSET (DOMAIN seq), s # {}
      PROVE  G[s] = UpsertSymbol(G[s \ {Max(s)}], seq[Max(s)])
  <2> DEFINE last == Max(s)
             before == s \ {last}
             new == seq[last]
             others == {x \in There(before) : x.id # new.id}
  <2>1. last \in s
    BY <1>5, LargestOf
  <2>2. before \in SUBSET (DOMAIN seq) /\ last \in DOMAIN seq /\ last \notin before
        /\ s = before \cup {last}
    BY <2>1
  <2> HIDE DEF last
  <2>3. others \cup {new} = There(s)
    <3>1. \A i \in before : seq[i].id # new.id
      BY <1>4, <2>2
    <3>2. QED
      BY <2>2, <3>1
  <2>4. OneById(There(before))
    <3>1. \A i, j \in before : seq[i].id = seq[j].id => i = j
      BY <1>4, <2>2
    <3>2. QED
      BY <3>1 DEF OneById
  <2>5. IsIndex(G[before], There(before), E, counts, token)
    BY <1>2, <2>2
  <2> HIDE DEF There, G, before, new
  <2>6. IsIndex(UpsertSymbol(G[before], new), others \cup {new}, E, counts, token)
    BY <2>4, <2>5, SymbolUpserted
  <2>7. IsIndex(G[s], There(s), E, counts, token)
    BY <1>2
  <2>8. G[s] = UpsertSymbol(G[before], new)
    BY <2>3, <2>6, <2>7, OneIndex
  <2>9. QED
    BY <2>8 DEF before, last, new
<1> HIDE DEF There
<1>6. G = [s \in SUBSET (DOMAIN seq) |->
             IF s = {} THEN ix ELSE UpsertSymbol(G[s \ {Max(s)}], seq[Max(s)])]
  BY <1>3, <1>5
<1>7. fold = [s \in SUBSET (DOMAIN seq) |->
                IF s = {} THEN ix ELSE UpsertSymbol(fold[s \ {Max(s)}], seq[Max(s)])]
  BY <1>6
<1> HIDE DEF G, fold
<1>8. fold[{}] = G[{}]
  BY <1>3, <1>7
<1>9. ASSUME NEW s \in SUBSET (DOMAIN seq), s # {}, fold[s \ {Max(s)}] = G[s \ {Max(s)}]
      PROVE  fold[s] = G[s]
  BY <1>5, <1>7, <1>9
<1>10. fold[1 .. n] = G[1 .. n]
  BY <1>8, <1>9, FoldsAgree
<1>11. There(DOMAIN seq) = {x \in S : x.id \notin IdsIn(Range(seq))} \cup Range(seq)
  BY DEF There, Range, IdsIn
<1>12. QED
  BY <1>1, <1>2, <1>10, <1>11

LEMMA ImageIsFinite ==
  ASSUME NEW s, IsFiniteSet(s), NEW f
  PROVE  IsFiniteSet({f[i] : i \in s})
<1> DEFINE image == {f[i] : i \in s}
           onto == [i \in s |-> f[i]]
<1>1. onto \in Surjection(s, image)
  BY DEF Surjection
<1>2. QED
  BY <1>1, FS_Surjection

LEMMA EdgesUpserted ==
  ASSUME NEW ix, NEW S, NEW E, NEW token, IsFiniteSet(E), OneByKey(E),
         IsIndex(ix, S, E, Counts(E), token),
         NEW n \in Nat, NEW seq, DOMAIN seq = 1 .. n, Distinct(seq), OneByKey(Range(seq))
  PROVE  LET there == {x \in E : EdgeKey(x) \notin KeysIn(Range(seq))} \cup Range(seq)
         IN  IsIndex(FoldLeft(UpsertEdge, ix, seq), S, there, Counts(there), token)
<1> DEFINE There(s) == {x \in E : \A i \in s : EdgeKey(x) # EdgeKey(seq[i])}
                         \cup {seq[i] : i \in s}
           G == [s \in SUBSET (DOMAIN seq) |-> IndexOf(S, There(s), Counts(There(s)), token)]
           fold[s \in SUBSET (DOMAIN seq)] ==
             IF s = {} THEN ix ELSE UpsertEdge(fold[s \ {Max(s)}], seq[Max(s)])
<1>1. FoldLeft(UpsertEdge, ix, seq) = fold[DOMAIN seq]
  BY DEF FoldLeft, MapThenFoldSet
<1>2. \A s \in SUBSET (DOMAIN seq) : IsIndex(G[s], S, There(s), Counts(There(s)), token)
  BY IndexOfIsIndex
<1>3. G[{}] = ix
  <2>1. There({}) = E
    OBVIOUS
  <2>2. ix = IndexOf(S, There({}), Counts(There({})), token)
    BY <2>1, IndexOfIsIndex
  <2>3. QED
    BY <2>2
<1>4. \A i, j \in DOMAIN seq : EdgeKey(seq[i]) = EdgeKey(seq[j]) => i = j
  <2>1. \A i \in DOMAIN seq : seq[i] \in Range(seq)
    BY DEF Range
  <2>2. QED
    BY <2>1 DEF OneByKey, Distinct
<1>5. ASSUME NEW s \in SUBSET (DOMAIN seq), s # {}
      PROVE  G[s] = UpsertEdge(G[s \ {Max(s)}], seq[Max(s)])
  <2> DEFINE last == Max(s)
             before == s \ {last}
             new == seq[last]
             others == {x \in There(before) : EdgeKey(x) # EdgeKey(new)}
  <2>1. last \in s
    BY <1>5, LargestOf
  <2>2. before \in SUBSET (DOMAIN seq) /\ last \in DOMAIN seq /\ last \notin before
        /\ s = before \cup {last}
    BY <2>1
  <2> HIDE DEF last
  <2>3. others \cup {new} = There(s)
    <3>1. \A i \in before : EdgeKey(seq[i]) # EdgeKey(new)
      BY <1>4, <2>2
    <3>2. QED
      BY <2>2, <3>1
  <2>4. OneByKey(There(before))
    <3>1. \A i, j \in before : EdgeKey(seq[i]) = EdgeKey(seq[j]) => i = j
      BY <1>4, <2>2
    <3>2. QED
      BY <3>1 DEF OneByKey
  <2>5. IsFiniteSet(There(before))
    <3>1. IsFiniteSet({x \in E : \A i \in before : EdgeKey(x) # EdgeKey(seq[i])})
      BY FS_Subset
    <3>2. IsFiniteSet(before)
      BY <2>2, FS_Interval, FS_Subset
    <3>3. IsFiniteSet({seq[i] : i \in before})
      BY <3>2, ImageIsFinite
    <3>4. QED
      BY <3>1, <3>3, FS_Union
  <2>6. IsIndex(G[before], S, There(before), Counts(There(before)), token)
    BY <1>2, <2>2
  <2> HIDE DEF There, G, before, new
  <2>7. IsIndex(UpsertEdge(G[before], new), S, others \cup {new}, Counts(others \cup {new}),
                token)
    BY <2>4, <2>5, <2>6, EdgeUpserted
  <2>8. IsIndex(G[s], S, There(s), Counts(There(s)), token)
    BY <1>2
  <2>9. G[s] = UpsertEdge(G[before], new)
    BY <2>3, <2>7, <2>8, OneIndex
  <2>10. QED
    BY <2>9 DEF before, last, new
<1> HIDE DEF There
<1>6. G = [s \in SUBSET (DOMAIN seq) |->
             IF s = {} THEN ix ELSE UpsertEdge(G[s \ {Max(s)}], seq[Max(s)])]
  BY <1>3, <1>5
<1>7. fold = [s \in SUBSET (DOMAIN seq) |->
                IF s = {} THEN ix ELSE UpsertEdge(fold[s \ {Max(s)}], seq[Max(s)])]
  BY <1>6
<1> HIDE DEF G, fold
<1>8. fold[{}] = G[{}]
  BY <1>3, <1>7
<1>9. ASSUME NEW s \in SUBSET (DOMAIN seq), s # {}, fold[s \ {Max(s)}] = G[s \ {Max(s)}]
      PROVE  fold[s] = G[s]
  BY <1>5, <1>7, <1>9
<1>10. fold[1 .. n] = G[1 .. n]
  BY <1>8, <1>9, FoldsAgree
<1>11. There(DOMAIN seq) = {x \in E : EdgeKey(x) \notin KeysIn(Range(seq))} \cup Range(seq)
  BY DEF There, Range, KeysIn
<1>12. QED
  BY <1>1, <1>2, <1>10, <1>11

(***************************************************************************)
(* A delta as a whole.                                                     *)
(***************************************************************************)

\* A change of the token is a change of nothing else.
LEMMA TokenReplaced ==
  ASSUME NEW ix, NEW S, NEW E, NEW counts, NEW token, IsIndex(ix, S, E, counts, token), NEW new
  PROVE  IsIndex([ix EXCEPT !.snapshot = new], S, E, counts, new)
<1> DEFINE jx == [ix EXCEPT !.snapshot = new]
<1>1. ix = [x \in Fields |-> ix[x]]
  BY DEF IsIndex, IsBody, Shaped
<1>2. DOMAIN ix = Fields
  BY <1>1
<1>3. jx = [x \in Fields |-> IF x = "snapshot" THEN new ELSE ix[x]]
  BY <1>2
<1> HIDE DEF jx
<1>4. Shaped(jx)
  BY <1>3 DEF Shaped
<1>5. /\ jx.definitions = ix.definitions /\ jx.edges = ix.edges
      /\ jx.known = ix.known /\ jx.refcounts = ix.refcounts
      /\ jx.by_name = ix.by_name /\ jx.by_scip = ix.by_scip /\ jx.by_file = ix.by_file
      /\ jx.ids_by_scip = ix.ids_by_scip /\ jx.outgoing = ix.outgoing
      /\ jx.incoming = ix.incoming /\ jx.sound = ix.sound /\ jx.snapshot = new
  BY <1>3 DEF Fields
<1>6. IsIndex(jx, S, E, counts, new)
  BY <1>4, <1>5, Zenon DEF IsIndex, IsBody, Knows
<1>7. QED
  BY <1>6 DEF jx

\* A list: what the source hands over as a vector.
IsList(seq) == \E n \in Nat : DOMAIN seq = 1 .. n

\* The delta is the whole difference of two graphs, each change named once.
IsDifference(delta, S, E, S2, E2) ==
  /\ IsList(delta.removed_symbols) /\ Distinct(delta.removed_symbols)
  /\ Range(delta.removed_symbols) = IdsIn(S) \ IdsIn(S2)
  /\ IsList(delta.upserted_symbols) /\ Distinct(delta.upserted_symbols)
  /\ Range(delta.upserted_symbols) = S2 \ S
  /\ IsList(delta.removed_edges) /\ Distinct(delta.removed_edges)
  /\ Range(delta.removed_edges) = KeysIn(E) \ KeysIn(E2)
  /\ IsList(delta.upserted_edges) /\ Distinct(delta.upserted_edges)
  /\ Range(delta.upserted_edges) = E2 \ E

LEMMA ReplacementIsIndex ==
  ASSUME NEW ix, NEW S, NEW E, NEW token, IsIndex(ix, S, E, Counts(E), token),
         NEW S2, NEW E2, IsFiniteSet(E),
         OneById(S), OneById(S2), OneByKey(E), OneByKey(E2),
         NEW delta, IsDifference(delta, S, E, S2, E2)
  PROVE  IsIndex(Replacement(ix, delta), S2, E2, Counts(E2), delta.snapshot)
<1> DEFINE lessS == {x \in S : x.id \notin Range(delta.removed_symbols)}
           lessE == {x \in E : EdgeKey(x) \notin Range(delta.removed_edges)}
           ix1 == FoldLeft(RemoveSymbol, ix, delta.removed_symbols)
           ix2 == FoldLeft(RemoveEdge, ix1, delta.removed_edges)
           ix3 == FoldLeft(UpsertSymbol, ix2, delta.upserted_symbols)
           ix4 == FoldLeft(UpsertEdge, ix3, delta.upserted_edges)
<1>1. IsIndex(ix1, lessS, E, Counts(E), token)
  <2>1. PICK n \in Nat : DOMAIN delta.removed_symbols = 1 .. n
    BY DEF IsDifference, IsList
  <2>2. Distinct(delta.removed_symbols) /\ Range(delta.removed_symbols) \subseteq IdsIn(S)
    BY DEF IsDifference
  <2>3. QED
    BY <2>1, <2>2, SymbolsRemoved
<1> HIDE DEF lessS, ix1
<1>2. IsIndex(ix2, lessS, lessE, Counts(lessE), token)
  <2>1. PICK n \in Nat : DOMAIN delta.removed_edges = 1 .. n
    BY DEF IsDifference, IsList
  <2>2. Distinct(delta.removed_edges) /\ Range(delta.removed_edges) \subseteq KeysIn(E)
    BY DEF IsDifference
  <2>3. QED
    BY <1>1, <2>1, <2>2, EdgesRemoved
<1> HIDE DEF lessE, ix2
<1>3. /\ lessS = {x \in S : x.id \in IdsIn(S2)}
      /\ {x \in lessS : x.id \notin IdsIn(S2 \ S)} \cup (S2 \ S) = S2
      /\ OneById(lessS) /\ OneById(S2 \ S)
  <2>1. lessS = {x \in S : x.id \in IdsIn(S2)}
    BY DEF lessS, IsDifference, IdsIn
  <2>2. OneById(lessS) /\ OneById(S2 \ S)
    BY DEF lessS, OneById
  <2>3. ASSUME NEW x \in lessS, x.id \notin IdsIn(S2 \ S)
        PROVE  x \in S2
    <3>1. PICK y \in S2 : y.id = x.id
      BY <2>1, <2>3 DEF IdsIn
    <3>2. y \in S
      BY <2>3, <3>1 DEF IdsIn
    <3>3. QED
      BY <2>1, <3>1, <3>2 DEF OneById
  <2>4. ASSUME NEW x \in S2, x \in S
        PROVE  x \in lessS /\ x.id \notin IdsIn(S2 \ S)
    BY <2>1, <2>4 DEF IdsIn, OneById
  <2>5. QED
    BY <2>1, <2>2, <2>3, <2>4
<1>4. /\ lessE = {x \in E : EdgeKey(x) \in KeysIn(E2)}
      /\ {x \in lessE : EdgeKey(x) \notin KeysIn(E2 \ E)} \cup (E2 \ E) = E2
      /\ OneByKey(lessE) /\ OneByKey(E2 \ E) /\ IsFiniteSet(lessE)
  <2>1. lessE = {x \in E : EdgeKey(x) \in KeysIn(E2)}
    BY DEF lessE, IsDifference, KeysIn
  <2>2. OneByKey(lessE) /\ OneByKey(E2 \ E)
    BY DEF lessE, OneByKey
  <2>3. ASSUME NEW x \in lessE, EdgeKey(x) \notin KeysIn(E2 \ E)
        PROVE  x \in E2
    <3>1. PICK y \in E2 : EdgeKey(y) = EdgeKey(x)
      BY <2>1, <2>3 DEF KeysIn
    <3>2. y \in E
      BY <2>3, <3>1 DEF KeysIn
    <3>3. QED
      BY <2>1, <3>1, <3>2 DEF OneByKey
  <2>4. ASSUME NEW x \in E2, x \in E
        PROVE  x \in lessE /\ EdgeKey(x) \notin KeysIn(E2 \ E)
    BY <2>1, <2>4 DEF KeysIn, OneByKey
  <2>5. lessE \in SUBSET E
    BY <2>1
  <2>6. IsFiniteSet(lessE)
    BY <2>5, FS_Subset
  <2>7. QED
    BY <2>1, <2>2, <2>3, <2>4, <2>6
<1>5. IsIndex(ix3, S2, lessE, Counts(lessE), token)
  <2>1. PICK n \in Nat : DOMAIN delta.upserted_symbols = 1 .. n
    BY DEF IsDifference, IsList
  <2>2. Distinct(delta.upserted_symbols) /\ Range(delta.upserted_symbols) = S2 \ S
    BY DEF IsDifference
  <2>3. IsIndex(ix3, {x \in lessS : x.id \notin IdsIn(Range(delta.upserted_symbols))}
                       \cup Range(delta.upserted_symbols), lessE, Counts(lessE), token)
    BY <1>2, <1>3, <2>1, <2>2, SymbolsUpserted
  <2>4. QED
    BY <1>3, <2>2, <2>3
<1> HIDE DEF ix3
<1>6. IsIndex(ix4, S2, E2, Counts(E2), token)
  <2> DEFINE there == {x \in lessE : EdgeKey(x) \notin KeysIn(Range(delta.upserted_edges))}
                        \cup Range(delta.upserted_edges)
  <2>1. PICK n \in Nat : DOMAIN delta.upserted_edges = 1 .. n
    BY DEF IsDifference, IsList
  <2>2. Distinct(delta.upserted_edges) /\ Range(delta.upserted_edges) = E2 \ E
    BY DEF IsDifference
  <2>3. IsIndex(ix4, S2, there, Counts(there), token)
    BY <1>4, <1>5, <2>1, <2>2, EdgesUpserted
  <2>4. there = E2
    BY <1>4, <2>2
  <2>5. QED
    BY <2>3, <2>4
<1> HIDE DEF ix4
<1>7. IsIndex([ix4 EXCEPT !.snapshot = delta.snapshot], S2, E2, Counts(E2), delta.snapshot)
  BY <1>6, TokenReplaced
<1>8. Replacement(ix, delta) = [ix4 EXCEPT !.snapshot = delta.snapshot]
  BY DEF Replacement, ix1, ix2, ix3, ix4
<1>9. QED
  BY <1>7, <1>8

\* A difference that continues from the token of an index is accepted.
LEMMA DifferenceIsAccepted ==
  ASSUME NEW ix, NEW S, NEW E, NEW counts, NEW token, IsIndex(ix, S, E, counts, token),
         NEW S2, NEW E2, OneById(S2), OneByKey(E2),
         NEW delta, IsDifference(delta, S, E, S2, E2),
         delta.base = token, delta.snapshot # token
  PROVE  DeltaFault(ix, delta) = "None"
<1> DEFINE upserted ==
             [i \in DOMAIN delta.upserted_symbols |-> delta.upserted_symbols[i].id]
           keys == [i \in DOMAIN delta.upserted_edges |-> EdgeKey(delta.upserted_edges[i])]
<1>1. ix.snapshot = token /\ DOMAIN ix.definitions = IdsIn(S) /\ DOMAIN ix.edges = KeysIn(E)
  BY DEF IsIndex, IsBody, Definitions, EdgesByKey
<1>2. /\ Distinct(delta.removed_symbols) /\ Range(delta.removed_symbols) \subseteq IdsIn(S)
      /\ Distinct(delta.removed_edges) /\ Range(delta.removed_edges) \subseteq KeysIn(E)
  BY DEF IsDifference
<1>3. Distinct(upserted)
  <2>1. \A i \in DOMAIN delta.upserted_symbols : delta.upserted_symbols[i] \in S2
    BY DEF IsDifference, Range
  <2>2. Distinct(delta.upserted_symbols)
    BY DEF IsDifference
  <2>3. QED
    BY <2>1, <2>2 DEF Distinct, OneById
<1>4. Distinct(keys)
  <2>1. \A i \in DOMAIN delta.upserted_edges : delta.upserted_edges[i] \in E2
    BY DEF IsDifference, Range
  <2>2. Distinct(delta.upserted_edges)
    BY DEF IsDifference
  <2>3. QED
    BY <2>1, <2>2 DEF Distinct, OneByKey
<1> HIDE DEF upserted, keys
<1>5. DeltaFault(ix, delta) =
        IF delta.base # ix.snapshot THEN "SnapshotMismatch"
        ELSE IF delta.snapshot = ix.snapshot THEN "DoesNotAdvance"
        ELSE IF ~Distinct(delta.removed_symbols) THEN "DuplicateRemovedSymbol"
        ELSE IF ~(Range(delta.removed_symbols) \subseteq DOMAIN ix.definitions)
        THEN "MissingRemovedSymbol"
        ELSE IF ~Distinct(upserted) THEN "DuplicateUpsertedSymbol"
        ELSE IF ~Distinct(delta.removed_edges) THEN "DuplicateRemovedEdge"
        ELSE IF ~(Range(delta.removed_edges) \subseteq DOMAIN ix.edges)
        THEN "MissingRemovedEdge"
        ELSE IF ~Distinct(keys) THEN "DuplicateUpsertedEdge"
        ELSE "None"
  BY DEF DeltaFault, upserted, keys
<1>6. QED
  BY <1>1, <1>2, <1>3, <1>4, <1>5

LEMMA DifferenceIsApplied ==
  ASSUME NEW ix, NEW S, NEW E, NEW token, IsIndex(ix, S, E, Counts(E), token),
         NEW S2, NEW E2, IsFiniteSet(E),
         OneById(S), OneById(S2), OneByKey(E), OneByKey(E2),
         NEW delta, IsDifference(delta, S, E, S2, E2),
         delta.base = token, delta.snapshot # token
  PROVE  /\ ApplyScopeDelta(ix, delta)
              = [verdict |-> "Applied", index |-> Replacement(ix, delta)]
         /\ IsIndex(Replacement(ix, delta), S2, E2, Counts(E2), delta.snapshot)
<1>1. IsIndex(Replacement(ix, delta), S2, E2, Counts(E2), delta.snapshot)
  BY ReplacementIsIndex
<1>2. Replacement(ix, delta).sound = TRUE
  BY <1>1 DEF IsIndex, IsBody
<1>3. DeltaFault(ix, delta) = "None"
  BY DifferenceIsAccepted
<1>4. QED
  BY <1>1, <1>2, <1>3 DEF ApplyScopeDelta

\* A graph the query index can be built of, in which the edges are a list.
IsGraph(graph) == IsList(graph.edges) /\ ~BuildRefuses(graph)

LEMMA GraphNamesOnce ==
  ASSUME NEW graph, IsGraph(graph)
  PROVE  /\ OneById(Range(graph.symbols)) /\ OneByKey(Range(graph.edges))
         /\ IsFiniteSet(Range(graph.edges))
<1>1. OneById(Range(graph.symbols)) /\ OneByKey(Range(graph.edges))
  BY DEF IsGraph, BuildRefuses, OneById, OneByKey, Range
<1>2. PICK n \in Nat : DOMAIN graph.edges = 1 .. n
  BY DEF IsGraph, IsList
<1>3. IsFiniteSet(DOMAIN graph.edges)
  BY <1>2, FS_Interval
<1>4. Range(graph.edges) = {graph.edges[i] : i \in DOMAIN graph.edges}
  BY DEF Range
<1>5. QED
  BY <1>1, <1>3, <1>4, ImageIsFinite

\* Applying the whole difference of two graphs to the index of the one is building the
\* index of the other: no bucket, count or known identity keeps a trace of the way
\* (apply_scope_delta, update.rs, against from_scope_graph, build.rs).
THEOREM DeltaIsRebuild ==
  ASSUME NEW graph, NEW graph2, NEW delta, IsGraph(graph), IsGraph(graph2),
         IsDifference(delta, Range(graph.symbols), Range(graph.edges),
                      Range(graph2.symbols), Range(graph2.edges)),
         delta.base # delta.snapshot
  PROVE  ApplyScopeDelta(Build(graph, delta.base), delta)
           = [verdict |-> "Applied", index |-> Build(graph2, delta.snapshot)]
<1> DEFINE S == Range(graph.symbols)
           E == Range(graph.edges)
           S2 == Range(graph2.symbols)
           E2 == Range(graph2.edges)
           ix == Build(graph, delta.base)
<1>1. /\ OneById(S) /\ OneByKey(E) /\ IsFiniteSet(E)
      /\ OneById(S2) /\ OneByKey(E2)
  BY GraphNamesOnce
<1>2. IsIndex(ix, S, E, Counts(E), delta.base)
  BY BuildIsIndex
<1>3. IsIndex(Build(graph2, delta.snapshot), S2, E2, Counts(E2), delta.snapshot)
  BY BuildIsIndex
<1>4. IsDifference(delta, S, E, S2, E2)
  OBVIOUS
<1> HIDE DEF S, E, S2, E2, ix
<1>5. /\ ApplyScopeDelta(ix, delta)
           = [verdict |-> "Applied", index |-> Replacement(ix, delta)]
      /\ IsIndex(Replacement(ix, delta), S2, E2, Counts(E2), delta.snapshot)
  BY <1>1, <1>2, <1>4, DifferenceIsApplied
<1>6. Replacement(ix, delta) = Build(graph2, delta.snapshot)
  BY <1>3, <1>5, OneIndex
<1>7. QED
  BY <1>5, <1>6 DEF ix
=============================================================================
