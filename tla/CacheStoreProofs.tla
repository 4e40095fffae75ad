-------------------------- MODULE CacheStoreProofs --------------------------
(***************************************************************************)
(* Proofs about CacheStore, for any processes, builds, candidates, tiers   *)
(* and numbers of transactions: the tables stay consistent under the keys  *)
(* of the schema and under the loader's checks, the collector leaves no    *)
(* superseded snapshot or candidate, and a reader never sees a recycled    *)
(* snapshot.                                                               *)
(***************************************************************************)
EXTENDS CacheStore, TLAPS

-----------------------------------------------------------------------------
\* Type correctness.

LEMMA RowsAreTyped ==
  ASSUME NEW c \in Candidates
  PROVE  /\ c.grade \in Grades /\ c.subgraphs \in BOOLEAN
         /\ NewCandidateRow(c) \in CandidateRow
         /\ [id |-> CompatibilityId(c), fingerprints |-> c.fingerprints] \in CompatibilityRow
         /\ \A r \in CandidateRow : UpdatedRow(r, c) \in CandidateRow
<1>1. c.grade \in Grades /\ c.subgraphs \in BOOLEAN
  BY StoreAssumption
<1>2. \A r \in CandidateRow : UpdatedRow(r, c) \in CandidateRow
  BY <1>1 DEF UpdatedRow, CandidateRow
<1> QED
  BY <1>1, <1>2 DEF NewCandidateRow, CandidateRow, CompatibilityRow

\* A table may be replaced by any set of its rows.
LEMMA TablesAreTyped ==
  ASSUME NEW t \in Tables
  PROVE  /\ \A rows \in SUBSET CandidateRow : [t EXCEPT !.candidates = rows] \in Tables
         /\ \A rows \in SUBSET ActiveRow : [t EXCEPT !.active = rows] \in Tables
         /\ \A rows \in SUBSET SnapshotRow, slots \in SUBSET ActiveRow :
              [t EXCEPT !.snapshots = rows, !.active = slots] \in Tables
BY DEF Tables

LEMMA SlotsAreTyped ==
  ASSUME NEW active \in SUBSET ActiveRow, NEW tier \in Tiers, NEW grade \in Grades,
         NEW n \in Nat \ {0}
  PROVE  Activate(active, tier, grade, n) \in SUBSET ActiveRow
BY DEF Activate, ActiveRow

LEMMA InitIsTyped == Init => StoreTyped
  BY StoreAssumption
  DEF Init, StoreTyped, TypeOK, JobAdmitted, ViewSelected, InTransaction, Tables, NoTables, NoJob, Labels

\* A transaction that ends leaves typed variables, whatever it has done.
LEMMA EndIsTyped ==
  ASSUME StoreTyped, NEW h \in Handles, EndTransaction(h), db' \in Tables,
         UNCHANGED <<view, begun>>
  PROVE  StoreTyped'
BY DEF StoreTyped, TypeOK, JobAdmitted, ViewSelected, EndTransaction, Goto, Labels, InTransaction,
       Tables, NoTables, NoJob

LEMMA TypeStep == StoreTyped /\ [Next]_vars => StoreTyped'
<1> SUFFICES ASSUME StoreTyped, [Next]_vars PROVE StoreTyped'
  OBVIOUS
<1> USE DEF StoreTyped, TypeOK, JobAdmitted, ViewSelected, Goto, Labels, InTransaction
<1>1. ASSUME NEW h \in Handles, Begin(h) PROVE StoreTyped'
  <2>1. PICK c \in Candidates, tiers \in TierSets :
          /\ job' = [job EXCEPT ![h] = [candidate |-> c, tiers |-> tiers]]
          /\ "scope" \in tiers => c.subgraphs
    BY <1>1 DEF Begin
  <2>2. tiers \in SUBSET Tiers
    BY StoreAssumption
  <2> QED
    BY <1>1, <2>1, <2>2, StoreAssumption DEF Begin
<1>2. ASSUME NEW h \in Handles, InsertCompatibility(h) PROVE StoreTyped'
  <2>1. work' \in Tables
    BY <1>2, RowsAreTyped DEF InsertCompatibility, Tables
  <2> QED
    BY <1>2, <2>1 DEF InsertCompatibility
<1>3. ASSUME NEW h \in Handles, PutCandidate(h) PROVE StoreTyped'
  <2>1. PICK rows \in SUBSET CandidateRow : work' = [work EXCEPT !.candidates = rows]
    <3> DEFINE c == job[h].candidate
               stored == {r \in work.candidates : r.id = CandidateId(c)}
               rows == IF stored = {} THEN work.candidates \cup {NewCandidateRow(c)}
                       ELSE (work.candidates \ stored) \cup {UpdatedRow(r, c) : r \in stored}
    <3>1. work' = [work EXCEPT !.candidates = rows]
      BY <1>3 DEF PutCandidate
    <3>2. c \in Candidates /\ work.candidates \in SUBSET CandidateRow
      BY <1>3 DEF PutCandidate, Tables
    <3>3. rows \in SUBSET CandidateRow
      BY <3>2, RowsAreTyped, ZenonT(40)
    <3> QED
      BY <3>1, <3>3
  <2>2. work' \in Tables
    BY <2>1, TablesAreTyped
  <2> QED
    BY <1>3, <2>2 DEF PutCandidate, ViewSelected
<1>4. ASSUME NEW h \in Handles, InsertGraph(h) PROVE StoreTyped'
  <2>1. PICK tier \in job[h].tiers, row \in work.candidates, n \in NextRowids(work.snapshots) :
          /\ work' = [work EXCEPT
               !.snapshots = @ \cup {[snapshot |-> n, candidate |-> row.id, tier |-> tier,
                                      graph |-> job[h].candidate.facts,
                                      created |-> row.created]},
               !.active = Activate(@, tier, job[h].candidate.grade, n)]
          /\ TierDone(h, tier)
    BY <1>4 DEF InsertGraph, StampedByStore
  <2>2. n \in Nat \ {0} /\ tier \in Tiers
    BY DEF NextRowids, Tables, SnapshotRow
  <2>3. job[h].candidate.facts \in {c.facts : c \in Candidates}
        /\ job[h].candidate.grade \in Grades
    BY <1>4, RowsAreTyped DEF InsertGraph
  <2>4. [snapshot |-> n, candidate |-> row.id, tier |-> tier,
         graph |-> job[h].candidate.facts, created |-> row.created] \in SnapshotRow
    BY <2>2, <2>3 DEF SnapshotRow, Tables, CandidateRow
  <2>5. /\ work.snapshots \in SUBSET SnapshotRow
        /\ Activate(work.active, tier, job[h].candidate.grade, n) \in SUBSET ActiveRow
    BY <2>2, <2>3, SlotsAreTyped DEF Tables
  <2>6. work' \in Tables
    BY <2>1, <2>4, <2>5, TablesAreTyped
  <2> QED
    BY <1>4, <2>1, <2>6 DEF InsertGraph, TierDone
<1>5. ASSUME NEW h \in Handles, ReuseGraph(h) PROVE StoreTyped'
  <2>1. PICK tier \in job[h].tiers, s \in work.snapshots :
          /\ work' = [work EXCEPT
               !.active = Activate(@, tier, job[h].candidate.grade, s.snapshot)]
          /\ TierDone(h, tier)
    BY <1>5 DEF ReuseGraph, StoredGraphs
  <2>2. Activate(work.active, tier, job[h].candidate.grade, s.snapshot) \in SUBSET ActiveRow
    BY <1>5, RowsAreTyped, SlotsAreTyped DEF ReuseGraph, Tables, SnapshotRow
  <2>3. work' \in Tables
    BY <2>1, <2>2, TablesAreTyped
  <2> QED
    BY <1>5, <2>1, <2>3 DEF ReuseGraph, TierDone
<1>6. ASSUME NEW h \in Handles, Collect(h) PROVE StoreTyped'
  BY <1>6 DEF Collect, CollectGarbage, Tables
<1>7. ASSUME NEW h \in Handles, Commit(h) PROVE StoreTyped'
  BY <1>7, EndIsTyped DEF Commit
<1>8. ASSUME NEW h \in Handles, Rollback(h) PROVE StoreTyped'
  BY <1>8, EndIsTyped DEF Rollback
<1>9. ASSUME NEW h \in Handles, Condemn(h) PROVE StoreTyped'
  BY <1>9 DEF Condemn
<1>10. ASSUME NEW h \in Handles, InvalidateDerived(h) PROVE StoreTyped'
  <2>1. \A g \in Handles :
          /\ view'[g] \in View \cup {NoSnapshot}
          /\ view[g] \in View => view'[g] \in View
    BY <1>10, ViewAssumption DEF InvalidateDerived, View
  <2>2. view' \in [Handles -> View \cup {NoSnapshot}]
    BY <1>10, <2>1 DEF InvalidateDerived
  <2>3. \A g \in Handles : ViewSelected(g)'
    BY <1>10, <2>1 DEF InvalidateDerived, ViewSelected
  <2> QED
    BY <1>10, <2>2, <2>3, StoreAssumption DEF InvalidateDerived, Tables, NoTables
<1>11. ASSUME NEW h \in Handles, Select(h) PROVE StoreTyped'
  <2>1. PICK v \in View : view' = [view EXCEPT ![h] = v]
    BY <1>11 DEF Select, Joined, View, Tables, ActiveRow, CandidateRow
  <2> QED
    BY <1>11, <2>1 DEF Select, ViewSelected
<1>12. ASSUME NEW h \in Handles, OpenReader(h) PROVE StoreTyped'
  <2>1. view[h] \in View
    BY <1>12 DEF OpenReader, ViewSelected
  <2>2. CASE pc' = [pc EXCEPT ![h] = "idle"] /\ view' = [view EXCEPT ![h] = NoSnapshot]
    BY <1>12, <2>2 DEF OpenReader, ViewSelected
  <2>3. CASE /\ pc' = [pc EXCEPT ![h] = "paging"]
             /\ \E s \in db.snapshots :
                  view' = [view EXCEPT ![h].snapshot = s.snapshot,
                                       ![h].graph = s.graph, ![h].invalidated = FALSE]
    <3>1. PICK v \in View : view' = [view EXCEPT ![h] = v]
      BY <2>1, <2>3, ZenonT(40) DEF View, Tables, SnapshotRow
    <3> QED
      BY <1>12, <2>3, <3>1 DEF OpenReader, ViewSelected
  <2> QED
    BY <1>12, <2>2, <2>3 DEF OpenReader
<1>13. ASSUME NEW h \in Handles, Leave(h) PROVE StoreTyped'
  BY <1>13 DEF Leave, ViewSelected
<1>14. CASE Exhausted \/ UNCHANGED vars
  BY <1>14 DEF Exhausted, vars, ViewSelected
<1> QED
  BY <1>1, <1>2, <1>3, <1>4, <1>5, <1>6, <1>7, <1>8, <1>9, <1>10, <1>11, <1>12,
     <1>13, <1>14 DEF Next

-----------------------------------------------------------------------------
\* Each statement of a publication keeps the tables consistent.

\* No two ids of compatibility rows meet unless their fingerprints do.
LEMMA CompatibilityStaysConsistent ==
  ASSUME StoreTyped, Consistent(work), NEW h \in Handles, InsertCompatibility(h)
  PROVE  /\ Consistent(work')
         /\ work'.candidates = work.candidates
         /\ work'.snapshots = work.snapshots
         /\ work'.active = work.active
<1> DEFINE c == job[h].candidate
           row == [id |-> CompatibilityId(c), fingerprints |-> c.fingerprints]
<1>1. CASE \E r \in work.compatibility : r.fingerprints = c.fingerprints
  BY <1>1 DEF InsertCompatibility
<1>2. CASE ~ \E r \in work.compatibility : r.fingerprints = c.fingerprints
  <2>1. work' = [work EXCEPT !.compatibility = @ \cup {row}]
    BY <1>2 DEF InsertCompatibility
  <2>2. /\ work'.compatibility = work.compatibility \cup {row}
        /\ work'.candidates = work.candidates
        /\ work'.snapshots = work.snapshots
        /\ work'.active = work.active
    BY <2>1 DEF StoreTyped, TypeOK, Tables
  <2>3. row.id[2] = row.fingerprints
    BY DEF CompatibilityId
  <2> QED
    BY <1>2, <2>2, <2>3 DEF Consistent, KeysHold, RowsBelongTogether
<1> QED
  BY <1>1, <1>2

\* The row put in place keeps the id, the facts and the date of the one before.
LEMMA CandidateStaysConsistent ==
  ASSUME StoreTyped, Consistent(work), NEW h \in Handles, PutCandidate(h)
  PROVE  /\ Consistent(work')
         /\ work'.snapshots = work.snapshots
         /\ work'.active = work.active
         /\ \A r \in work'.candidates :
              r.id = CandidateId(job[h].candidate) =>
                /\ r.facts = job[h].candidate.facts
                /\ job[h].candidate.subgraphs => r.subgraphs
<1> DEFINE c == job[h].candidate
           stored == {r \in work.candidates : r.id = CandidateId(c)}
<1>1. c \in Candidates
  BY DEF StoreTyped, JobAdmitted, PutCandidate, InTransaction
<1>2. \A r \in stored : r.facts = c.facts
  BY DEF PutCandidate, SameFacts
<1>3. /\ work'.compatibility = work.compatibility
      /\ work'.snapshots = work.snapshots
      /\ work'.active = work.active
  BY DEF PutCandidate, StoreTyped, TypeOK, Tables
<1>4. work.candidates \in SUBSET CandidateRow
  BY DEF StoreTyped, TypeOK, Tables
<1>5. CASE stored = {}
  <2> DEFINE row == NewCandidateRow(c)
  <2>1. work'.candidates = work.candidates \cup {row}
    BY <1>5 DEF PutCandidate, StoreTyped, TypeOK, Tables
  <2>2. /\ row.id = CandidateId(c) /\ row.id[4] = row.grade
        /\ row.facts = c.facts /\ row.subgraphs = c.subgraphs
        /\ row.compatibility = CompatibilityId(c)
    BY DEF NewCandidateRow, CandidateId
  <2>3. \A r \in work.candidates : r.id # row.id
    BY <1>5, <2>2
  <2>4. \A s \in work.snapshots : s.candidate # row.id
    BY <2>3 DEF Consistent, KeysHold
  <2>5. \E r \in work.compatibility : r.id = row.compatibility
    BY <2>2 DEF PutCandidate, CompatibilityStored
  <2>6. KeysHold(work')
    BY <1>3, <2>1, <2>3, <2>5 DEF Consistent, KeysHold
  <2>7. RowsBelongTogether(work')
    BY <1>3, <2>1, <2>2, <2>4 DEF Consistent, RowsBelongTogether
  <2> QED
    BY <1>3, <2>1, <2>2, <2>3, <2>6, <2>7 DEF Consistent
<1>6. CASE stored # {}
  <2>1. PICK old \in work.candidates : old.id = CandidateId(c)
    BY <1>6
  <2> DEFINE row == UpdatedRow(old, c)
  <2>2. stored = {old}
    BY <2>1 DEF Consistent, KeysHold
  <2>3. work'.candidates = (work.candidates \ {old}) \cup {row}
    BY <1>6, <2>2 DEF PutCandidate, StoreTyped, TypeOK, Tables
  <2>4. /\ row.id = old.id /\ row.compatibility = old.compatibility
        /\ row.grade = old.grade /\ row.facts = old.facts
        /\ row.created = old.created
        /\ row.subgraphs <=> old.subgraphs \/ c.subgraphs
    BY <1>1, <1>4, RowsAreTyped DEF UpdatedRow, CandidateRow
  <2>5. \A r \in work.candidates \ {old} : r.id # row.id
    BY <2>1, <2>4 DEF Consistent, KeysHold
  <2>6. KeysHold(work')
    BY <1>3, <2>3, <2>4, <2>5 DEF Consistent, KeysHold
  <2>7. RowsBelongTogether(work')
    BY <1>3, <2>3, <2>4 DEF Consistent, RowsBelongTogether
  <2>8. row.facts = c.facts
    BY <1>2, <2>1, <2>4
  <2> QED
    BY <1>3, <2>1, <2>3, <2>4, <2>5, <2>6, <2>7, <2>8 DEF Consistent
<1> QED
  BY <1>5, <1>6

\* A new snapshot has the largest row id, and the slot that displaces another one.
LEMMA GraphStaysConsistent ==
  ASSUME StoreTyped, Consistent(work), NEW h \in Handles, pc[h] = "graphs",
         CandidateInPlace(h),
         NEW tier \in job[h].tiers, NEW row \in work.candidates,
         NEW n \in NextRowids(work.snapshots),
         StoredGraphs(job[h].candidate, tier) = {},
         row.id = CandidateId(job[h].candidate),
         NEW s, s = [snapshot |-> n, candidate |-> row.id, tier |-> tier,
                     graph |-> job[h].candidate.facts, created |-> row.created],
         work' = [work EXCEPT
           !.snapshots = @ \cup {s},
           !.active = Activate(@, tier, job[h].candidate.grade, n)]
  PROVE  /\ Consistent(work')
         /\ work'.snapshots = work.snapshots \cup {s}
         /\ work'.active = {a \in work.active :
                              ~(a.tier = tier /\ a.grade = job[h].candidate.grade)}
              \cup {[tier |-> tier, grade |-> job[h].candidate.grade, snapshot |-> n]}
         /\ \A r \in work.snapshots : r.snapshot < n
<1> DEFINE c == job[h].candidate
           a == [tier |-> tier, grade |-> c.grade, snapshot |-> n]
           kept == {x \in work.active : ~(x.tier = tier /\ x.grade = c.grade)}
<1>1. c \in Candidates /\ ("scope" \in job[h].tiers => c.subgraphs)
  BY DEF StoreTyped, JobAdmitted, InTransaction
<1>2. /\ work.snapshots \in SUBSET SnapshotRow
      /\ work.active \in SUBSET ActiveRow
      /\ work.candidates \in SUBSET CandidateRow
  BY DEF StoreTyped, TypeOK, Tables
<1>3. /\ work'.compatibility = work.compatibility
      /\ work'.candidates = work.candidates
      /\ work'.snapshots = work.snapshots \cup {s}
      /\ work'.active = kept \cup {a}
  BY DEF StoreTyped, TypeOK, Tables, Activate
<1>4. n \in Nat \ {0} /\ \A r \in work.snapshots : r.snapshot < n
  BY <1>2 DEF NextRowids, SnapshotRow
<1>5. \A x \in work.active : \E r \in work.snapshots : r.snapshot = x.snapshot
  BY DEF Consistent, KeysHold
<1>6. \A x \in work.active : x.snapshot < n
  BY <1>4, <1>5
<1>7. \A r \in work.snapshots : ~(r.candidate = s.candidate /\ r.tier = s.tier)
  BY DEF StoredGraphs
<1>8. KeysHold(work')
  <2>1. \A p, q \in work'.snapshots :
          p.snapshot = q.snapshot \/ (p.candidate = q.candidate /\ p.tier = q.tier) => p = q
    BY <1>2, <1>3, <1>4, <1>7 DEF Consistent, KeysHold, SnapshotRow
  <2>2. \A p, q \in work'.active : p.tier = q.tier /\ p.grade = q.grade => p = q
    BY <1>3 DEF Consistent, KeysHold
  <2>3. \A x \in work'.active : \E r \in work'.snapshots : r.snapshot = x.snapshot
    BY <1>3, <1>5
  <2> QED
    BY <1>3, <2>1, <2>2, <2>3 DEF Consistent, KeysHold
<1>9. row.facts = c.facts /\ (c.subgraphs => row.subgraphs) /\ row.id[4] = c.grade
  BY DEF CandidateInPlace, CandidateId
<1>10. RowsBelongTogether(work')
  <2>1. \A r \in work'.snapshots, d \in work'.candidates :
          r.candidate = d.id =>
            r.graph = d.facts /\ r.created = d.created /\ (r.tier = "scope" => d.subgraphs)
    <3>1. \A d \in work.candidates : s.candidate = d.id => d = row
      BY DEF Consistent, KeysHold
    <3> QED
      BY <1>1, <1>3, <1>9, <3>1 DEF Consistent, RowsBelongTogether
  <2>2. \A x \in work'.active, r \in work'.snapshots :
          x.snapshot = r.snapshot => x.tier = r.tier /\ x.grade = r.candidate[4]
    <3>1. \A r \in work.snapshots : r.snapshot # n
      BY <1>2, <1>4 DEF SnapshotRow
    <3>2. \A x \in work.active : x.snapshot # n
      BY <1>2, <1>6 DEF ActiveRow
    <3> QED
      BY <1>3, <1>9, <3>1, <3>2 DEF Consistent, RowsBelongTogether
  <2>3. \A r \in work'.snapshots : r.snapshot <= a.snapshot
    BY <1>2, <1>3, <1>4 DEF SnapshotRow
  <2> QED
    BY <1>3, <2>1, <2>2, <2>3 DEF Consistent, RowsBelongTogether
<1> QED
  BY <1>3, <1>4, <1>8, <1>10 DEF Consistent

\* A graph that is there already is in its slot already.
LEMMA ReuseChangesNothing ==
  ASSUME StoreTyped, Consistent(work), NEW h \in Handles, pc[h] = "graphs",
         TiersUntouched(h),
         NEW tier \in job[h].tiers, NEW s \in StoredGraphs(job[h].candidate, tier),
         work' = [work EXCEPT
           !.active = Activate(@, tier, job[h].candidate.grade, s.snapshot)]
  PROVE  work' = work
<1> DEFINE c == job[h].candidate
<1>1. s \in work.snapshots /\ s.candidate = CandidateId(c) /\ s.tier = tier
  BY DEF StoredGraphs
<1>2. PICK a \in work.active : a.snapshot = s.snapshot
  BY <1>1 DEF TiersUntouched
<1>3. a.tier = tier /\ a.grade = c.grade
  BY <1>1, <1>2 DEF Consistent, RowsBelongTogether, CandidateId
<1>4. a = [tier |-> tier, grade |-> c.grade, snapshot |-> s.snapshot]
  BY <1>2, <1>3 DEF StoreTyped, TypeOK, Tables, ActiveRow
<1>5. \A x \in work.active : x.tier = tier /\ x.grade = c.grade => x = a
  BY <1>3 DEF Consistent, KeysHold
<1>6. Activate(work.active, tier, c.grade, s.snapshot) = work.active
  BY <1>4, <1>5 DEF Activate
<1> QED
  BY <1>6 DEF StoreTyped, TypeOK, Tables

\* The collector takes no row that another row needs, and not the largest row id.
LEMMA CollectorStaysConsistent ==
  ASSUME StoreTyped, Consistent(work)
  PROVE  /\ Consistent(CollectGarbage(work))
         /\ Collected(CollectGarbage(work))
         /\ CollectGarbage(work).snapshots \subseteq work.snapshots
         /\ \A s \in work.snapshots :
              \E r \in CollectGarbage(work).snapshots : s.snapshot <= r.snapshot
<1> DEFINE left == CollectGarbage(work)
           live == {s \in work.snapshots : \E a \in work.active : a.snapshot = s.snapshot}
<1>1. /\ left.compatibility = work.compatibility
      /\ left.active = work.active
      /\ left.snapshots = live
      /\ left.candidates = {c \in work.candidates : \E s \in live : s.candidate = c.id}
  BY DEF CollectGarbage, StoreTyped, TypeOK, Tables
<1>2. \A a \in work.active : \E s \in live : s.snapshot = a.snapshot
  BY DEF Consistent, KeysHold
<1>3. KeysHold(left)
  BY <1>1, <1>2 DEF Consistent, KeysHold
<1>4. \A s \in work.snapshots : \E a \in work.active : s.snapshot <= a.snapshot
  BY DEF Consistent, RowsBelongTogether
<1>5. RowsBelongTogether(left)
  BY <1>1, <1>4 DEF Consistent, RowsBelongTogether
<1>6. Collected(left)
  BY <1>1 DEF Collected
<1>7. \A s \in work.snapshots : \E r \in live : s.snapshot <= r.snapshot
  BY <1>2, <1>4
<1> QED
  BY <1>1, <1>3, <1>5, <1>6, <1>7 DEF Consistent

LEMMA NoTablesConsistent == Consistent(NoTables) /\ Collected(NoTables)
  BY DEF NoTables, Consistent, KeysHold, RowsBelongTogether, Collected

-----------------------------------------------------------------------------
\* The inductive invariant.

LEMMA InitIsSound == Init => StoreInv
  BY NoTablesConsistent, StoreAssumption
  DEF Init, StoreInv, OneWriter, RowidsGrow, Transaction, CandidateInPlace,
      TiersUntouched, ReaderPinned, InTransaction

\* While one handle writes, the others are in no transaction.
LEMMA OthersAreIdle ==
  ASSUME StoreTyped, OneWriter, NEW h \in Handles, pc[h] \in InTransaction
  PROVE  writer = h /\ writer # NoHandle
         /\ \A g \in Handles : g # h => pc[g] \notin InTransaction
BY StoreAssumption DEF OneWriter

\* A step of the writer within its transaction leaves the committed tables and
\* the readers alone.
LEMMA WriterStep ==
  ASSUME StoreTyped, StoreInv, NEW h \in Handles, pc[h] \in InTransaction,
         NEW l \in InTransaction, pc' = [pc EXCEPT ![h] = l],
         UNCHANGED <<db, writer, view>>,
         Consistent(work'), RowidsGrow', Transaction(h)'
  PROVE  StoreInv'
<1>1. /\ writer = h /\ writer # NoHandle
      /\ \A g \in Handles : g # h => pc[g] \notin InTransaction
  BY OthersAreIdle DEF StoreInv
<1>2. \A g \in Handles : g # h => pc'[g] = pc[g] /\ pc'[g] \notin InTransaction
  BY <1>1 DEF StoreTyped, TypeOK
<1>3. pc'[h] = l
  BY DEF StoreTyped, TypeOK
<1>4. OneWriter'
  BY <1>1, <1>2, <1>3 DEF OneWriter
<1>5. \A g \in Handles : Transaction(g)'
  <2>1. ASSUME NEW g \in Handles, g # h PROVE Transaction(g)'
    BY <1>2, <2>1 DEF Transaction, CandidateInPlace, TiersUntouched, InTransaction
  <2> QED
    BY <2>1
<1>6. \A g \in Handles : ReaderPinned(g)'
  <2>1. l # "paging" /\ \A g \in Handles : pc'[g] = "paging" => pc[g] = "paging"
    BY <1>2, <1>3 DEF InTransaction
  <2> QED
    BY <2>1 DEF StoreInv, ReaderPinned
<1> QED
  BY <1>4, <1>5, <1>6 DEF StoreInv

LEMMA BeginStep ==
  ASSUME StoreTyped, StoreInv, NEW h \in Handles, Begin(h)
  PROVE  StoreInv'
<1>1. /\ pc[h] = "idle" /\ writer = NoHandle /\ writer' = h /\ work' = db
      /\ pc' = [pc EXCEPT ![h] = "compatibility"]
      /\ UNCHANGED <<db, view>>
  BY DEF Begin, Goto
<1>2. h # NoHandle /\ \A g \in Handles : pc[g] \notin InTransaction
  BY <1>1, StoreAssumption DEF StoreInv, OneWriter
<1>3. pc'[h] = "compatibility" /\ \A g \in Handles : g # h => pc'[g] = pc[g]
  BY <1>1 DEF StoreTyped, TypeOK
<1>4. OneWriter'
  BY <1>1, <1>2, <1>3 DEF OneWriter, InTransaction
<1>5. RowidsGrow'
  <2>1. \A r \in db.snapshots : r.snapshot <= r.snapshot
    BY DEF StoreTyped, TypeOK, Tables, SnapshotRow
  <2> QED
    BY <1>1, <2>1 DEF RowidsGrow
<1>6. TiersUntouched(h)'
  BY <1>1 DEF TiersUntouched, StoreInv, Collected
<1>7. \A g \in Handles : Transaction(g)'
  BY <1>2, <1>3, <1>6 DEF Transaction, CandidateInPlace, TiersUntouched, InTransaction
<1>8. \A g \in Handles : ReaderPinned(g)'
  BY <1>1, <1>3 DEF StoreInv, ReaderPinned
<1> QED
  BY <1>1, <1>4, <1>5, <1>7, <1>8 DEF StoreInv

LEMMA InsertGraphStep ==
  ASSUME StoreTyped, StoreInv, NEW h \in Handles, InsertGraph(h)
  PROVE  StoreInv'
<1> DEFINE c == job[h].candidate
<1>1. pc[h] = "graphs" /\ UNCHANGED <<db, writer, view>>
  BY DEF InsertGraph
<1>2. PICK tier \in job[h].tiers, row \in work.candidates, n \in NextRowids(work.snapshots) :
        /\ StoredGraphs(c, tier) = {} /\ row.id = CandidateId(c)
        /\ work' = [work EXCEPT
             !.snapshots = @ \cup {[snapshot |-> n, candidate |-> row.id, tier |-> tier,
                                    graph |-> c.facts, created |-> row.created]},
             !.active = Activate(@, tier, c.grade, n)]
        /\ TierDone(h, tier)
  BY DEF InsertGraph, StampedByStore
<1> DEFINE s == [snapshot |-> n, candidate |-> row.id, tier |-> tier,
                 graph |-> c.facts, created |-> row.created]
           a == [tier |-> tier, grade |-> c.grade, snapshot |-> n]
<1>3. /\ Consistent(work')
      /\ work'.snapshots = work.snapshots \cup {s}
      /\ work'.active = {x \in work.active : ~(x.tier = tier /\ x.grade = c.grade)} \cup {a}
      /\ \A r \in work.snapshots : r.snapshot < n
  BY <1>1, <1>2, GraphStaysConsistent DEF StoreInv, Transaction
<1>4. n \in Nat /\ work.snapshots \in SUBSET SnapshotRow /\ db.snapshots \in SUBSET SnapshotRow
  BY <1>2 DEF NextRowids, StoreTyped, TypeOK, Tables, SnapshotRow
<1>5. RowidsGrow'
  <2>1. writer # NoHandle
    BY <1>1, OthersAreIdle DEF StoreInv, InTransaction
  <2>2. \A r \in db.snapshots : r.snapshot < n
    <3> TAKE r \in db.snapshots
    <3>1. PICK q \in work.snapshots : r.snapshot <= q.snapshot
      BY <2>1 DEF StoreInv, RowidsGrow
    <3> QED
      BY <1>3, <1>4, <3>1 DEF SnapshotRow
  <2> QED
    BY <1>1, <1>3, <2>1, <2>2 DEF StoreInv, RowidsGrow
<1>6. /\ job'[h].candidate = c
      /\ job'[h].tiers = job[h].tiers \ {tier}
      /\ pc' = [pc EXCEPT ![h] = pc'[h]] /\ pc'[h] \in {"collect", "graphs"}
  BY <1>2 DEF TierDone, Goto, StoreTyped, TypeOK
<1>7. TiersUntouched(h)'
  <2> SUFFICES ASSUME NEW r \in work'.snapshots, r.tier \in job[h].tiers \ {tier}
               PROVE  \E x \in work'.active : x.snapshot = r.snapshot
    BY <1>6 DEF TiersUntouched
  <2>1. r \in work.snapshots
    BY <1>3
  <2>2. PICK x \in work.active : x.snapshot = r.snapshot
    BY <1>1, <2>1 DEF StoreInv, Transaction, TiersUntouched
  <2>3. x.tier = r.tier
    BY <2>1, <2>2 DEF StoreInv, Consistent, RowsBelongTogether
  <2> QED
    BY <1>3, <2>2, <2>3
<1>8. work'.candidates = work.candidates
  BY <1>2 DEF StoreTyped, TypeOK, Tables
<1>9. Transaction(h)'
  BY <1>1, <1>6, <1>7, <1>8 DEF StoreInv, Transaction, CandidateInPlace
<1> QED
  BY <1>1, <1>3, <1>5, <1>6, <1>9, WriterStep DEF InTransaction

LEMMA ReuseGraphStep ==
  ASSUME StoreTyped, StoreInv, NEW h \in Handles, ReuseGraph(h)
  PROVE  StoreInv'
<1>1. pc[h] = "graphs" /\ UNCHANGED <<db, writer, view>>
  BY DEF ReuseGraph
<1>2. PICK tier \in job[h].tiers, s \in work.snapshots :
        /\ s \in StoredGraphs(job[h].candidate, tier)
        /\ work' = [work EXCEPT
             !.active = Activate(@, tier, job[h].candidate.grade, s.snapshot)]
        /\ TierDone(h, tier)
  BY DEF ReuseGraph, StoredGraphs
<1>3. work' = work
  BY <1>1, <1>2, ReuseChangesNothing DEF StoreInv, Transaction
<1>4. /\ job'[h].candidate = job[h].candidate
      /\ job'[h].tiers \subseteq job[h].tiers
      /\ pc' = [pc EXCEPT ![h] = pc'[h]] /\ pc'[h] \in {"collect", "graphs"}
  BY <1>2 DEF TierDone, Goto, StoreTyped, TypeOK
<1>5. Transaction(h)'
  BY <1>1, <1>3, <1>4 DEF StoreInv, Transaction, CandidateInPlace, TiersUntouched
<1>6. Consistent(work') /\ RowidsGrow'
  BY <1>1, <1>3 DEF StoreInv, RowidsGrow
<1> QED
  BY <1>1, <1>4, <1>5, <1>6, WriterStep DEF InTransaction

LEMMA CollectStep ==
  ASSUME StoreTyped, StoreInv, NEW h \in Handles, Collect(h)
  PROVE  StoreInv'
<1>1. /\ pc[h] = "collect" /\ UNCHANGED <<db, writer, view>>
      /\ work' = CollectGarbage(work)
      /\ pc' = [pc EXCEPT ![h] = "commit"]
  BY DEF Collect, Goto
<1>2. /\ Consistent(work') /\ Collected(work')
      /\ work'.snapshots \subseteq work.snapshots
      /\ \A s \in work.snapshots : \E r \in work'.snapshots : s.snapshot <= r.snapshot
  BY <1>1, CollectorStaysConsistent DEF StoreInv
<1>3. RowidsGrow'
  <2>1. writer # NoHandle
    BY <1>1, OthersAreIdle DEF StoreInv, InTransaction
  <2>2. \A r \in db.snapshots : \E q \in work'.snapshots : r.snapshot <= q.snapshot
    <3> TAKE r \in db.snapshots
    <3>1. PICK s \in work.snapshots : r.snapshot <= s.snapshot
      BY <2>1 DEF StoreInv, RowidsGrow
    <3>2. PICK q \in work'.snapshots : s.snapshot <= q.snapshot
      BY <1>2
    <3>3. r \in SnapshotRow /\ s \in SnapshotRow /\ q \in SnapshotRow
      BY <1>2 DEF StoreTyped, TypeOK, Tables
    <3> QED
      BY <3>1, <3>2, <3>3 DEF SnapshotRow
  <2> QED
    BY <1>1, <1>2, <2>1, <2>2 DEF StoreInv, RowidsGrow
<1>4. Transaction(h)'
  BY <1>1, <1>2 DEF Transaction, CandidateInPlace, TiersUntouched, StoreTyped, TypeOK
<1> QED
  BY <1>1, <1>2, <1>3, <1>4, WriterStep DEF InTransaction

\* The end of a transaction leaves no writer and nobody else in a transaction.
LEMMA EndLeavesNoWriter ==
  ASSUME StoreTyped, StoreInv, NEW h \in Handles, pc[h] \in InTransaction, EndTransaction(h)
  PROVE  /\ OneWriter' /\ RowidsGrow' /\ Consistent(work')
         /\ \A g \in Handles : Transaction(g)'
         /\ \A g \in Handles : pc'[g] = "paging" => pc[g] = "paging"
<1>1. /\ pc' = [pc EXCEPT ![h] = "idle"] /\ writer' = NoHandle /\ work' = NoTables
  BY DEF EndTransaction, Goto
<1>2. \A g \in Handles : g # h => pc[g] \notin InTransaction
  BY OthersAreIdle DEF StoreInv
<1>3. \A g \in Handles : pc'[g] = (IF g = h THEN "idle" ELSE pc[g])
  BY <1>1 DEF StoreTyped, TypeOK
<1>4. \A g \in Handles : pc'[g] \notin InTransaction
  BY <1>2, <1>3 DEF InTransaction
<1>5. OneWriter' /\ RowidsGrow'
  BY <1>1, <1>4, StoreAssumption DEF OneWriter, RowidsGrow
<1>6. \A g \in Handles : Transaction(g)'
  BY <1>4 DEF Transaction, CandidateInPlace, TiersUntouched, InTransaction
<1> QED
  BY <1>1, <1>3, <1>5, <1>6, NoTablesConsistent

\* What a commit shows to a reader is its own row or none: new rows have ids
\* above every committed one.
LEMMA CommitStep ==
  ASSUME StoreTyped, StoreInv, NEW h \in Handles, Commit(h)
  PROVE  StoreInv'
<1>1. pc[h] = "commit" /\ EndTransaction(h) /\ db' = work /\ UNCHANGED view
  BY DEF Commit
<1>2. /\ OneWriter' /\ RowidsGrow' /\ Consistent(work')
      /\ \A g \in Handles : Transaction(g)'
      /\ \A g \in Handles : pc'[g] = "paging" => pc[g] = "paging"
  BY <1>1, EndLeavesNoWriter DEF InTransaction
<1>3. Consistent(db') /\ Collected(db')
  BY <1>1 DEF StoreInv, Transaction
<1>4. writer # NoHandle
  BY <1>1, OthersAreIdle DEF StoreInv, InTransaction
<1>5. ASSUME NEW g \in Handles PROVE ReaderPinned(g)'
  <2> SUFFICES ASSUME pc[g] = "paging", ~view[g].invalidated
               PROVE  /\ \A s \in work.snapshots :
                           s.snapshot = view[g].snapshot => s.graph = view[g].graph
                      /\ \E s \in work.snapshots : view[g].snapshot <= s.snapshot
    BY <1>1, <1>2 DEF ReaderPinned
  <2>1. PICK r \in db.snapshots : view[g].snapshot <= r.snapshot
    BY DEF StoreInv, ReaderPinned
  <2>2. PICK q \in work.snapshots : r.snapshot <= q.snapshot
    BY <1>4 DEF StoreInv, RowidsGrow
  <2>3. /\ view[g] \in View
        /\ db.snapshots \in SUBSET SnapshotRow /\ work.snapshots \in SUBSET SnapshotRow
    BY DEF StoreTyped, ViewSelected, TypeOK, Tables
  <2>4. view[g].snapshot <= q.snapshot
    BY <2>1, <2>2, <2>3 DEF View, SnapshotRow
  <2>5. ASSUME NEW s \in work.snapshots, s.snapshot = view[g].snapshot
        PROVE  s.graph = view[g].graph
    <3>1. ~ (r.snapshot < s.snapshot)
      BY <2>1, <2>3, <2>5 DEF View, SnapshotRow
    <3>2. s \in db.snapshots
      BY <1>4, <3>1 DEF StoreInv, RowidsGrow
    <3> QED
      BY <2>5, <3>2 DEF StoreInv, ReaderPinned
  <2> QED
    BY <2>4, <2>5
<1> QED
  BY <1>2, <1>3, <1>5 DEF StoreInv

LEMMA RollbackStep ==
  ASSUME StoreTyped, StoreInv, NEW h \in Handles, Rollback(h)
  PROVE  StoreInv'
<1>1. pc[h] \in InTransaction /\ EndTransaction(h) /\ UNCHANGED <<db, view>>
  BY DEF Rollback
<1>2. /\ OneWriter' /\ RowidsGrow' /\ Consistent(work')
      /\ \A g \in Handles : Transaction(g)'
      /\ \A g \in Handles : pc'[g] = "paging" => pc[g] = "paging"
  BY <1>1, EndLeavesNoWriter
<1>3. \A g \in Handles : ReaderPinned(g)'
  BY <1>1, <1>2 DEF StoreInv, ReaderPinned
<1> QED
  BY <1>1, <1>2, <1>3 DEF StoreInv

\* An invalidation marks every view that it takes the snapshot of.
LEMMA InvalidateStep ==
  ASSUME StoreTyped, StoreInv, NEW h \in Handles, InvalidateDerived(h)
  PROVE  StoreInv'
<1>1. /\ pc[h] = "condemned" /\ writer = NoHandle /\ db' = NoTables
      /\ pc' = [pc EXCEPT ![h] = "idle"] /\ UNCHANGED <<work, writer>>
  BY DEF InvalidateDerived, Goto
<1>2. \A g \in Handles : pc[g] \notin InTransaction
  BY <1>1, StoreAssumption DEF StoreInv, OneWriter
<1>3. \A g \in Handles : pc'[g] = (IF g = h THEN "idle" ELSE pc[g])
  BY <1>1 DEF StoreTyped, TypeOK
<1>4. \A g \in Handles : pc'[g] \notin InTransaction
  BY <1>2, <1>3 DEF InTransaction
<1>5. OneWriter' /\ RowidsGrow'
  BY <1>1, <1>4, StoreAssumption DEF StoreInv, OneWriter, RowidsGrow
<1>6. \A g \in Handles : Transaction(g)'
  BY <1>4 DEF Transaction, CandidateInPlace, TiersUntouched, InTransaction
<1>7. ASSUME NEW g \in Handles, pc'[g] = "paging" PROVE view'[g].invalidated = TRUE
  <2>1. view[g] \in View /\ view[g] # NoSnapshot
    BY <1>3, <1>7, ViewAssumption DEF StoreTyped, ViewSelected
  <2> QED
    BY <2>1 DEF InvalidateDerived, View
<1> QED
  BY <1>1, <1>5, <1>6, <1>7, NoTablesConsistent DEF StoreInv, ReaderPinned

\* Commands that only read: they change their own view and label.
LEMMA ReadOnlyStep ==
  ASSUME StoreTyped, StoreInv, NEW h \in Handles, pc[h] \notin InTransaction,
         NEW l \in Labels \ InTransaction, pc' = [pc EXCEPT ![h] = l],
         UNCHANGED <<db, work, writer, job>>,
         \A g \in Handles : g # h => view'[g] = view[g],
         ReaderPinned(h)'
  PROVE  StoreInv'
<1>1. \A g \in Handles : pc'[g] = (IF g = h THEN l ELSE pc[g])
  BY DEF StoreTyped, TypeOK
<1>2. OneWriter' /\ RowidsGrow'
  BY <1>1 DEF StoreInv, OneWriter, RowidsGrow
<1>3. \A g \in Handles : Transaction(g)'
  BY <1>1 DEF StoreInv, Transaction, CandidateInPlace, TiersUntouched, InTransaction
<1>4. \A g \in Handles : ReaderPinned(g)'
  BY <1>1 DEF StoreInv, ReaderPinned
<1> QED
  BY <1>2, <1>3, <1>4 DEF StoreInv

LEMMA OpenReaderStep ==
  ASSUME StoreTyped, StoreInv, NEW h \in Handles, OpenReader(h)
  PROVE  StoreInv'
<1>1. pc[h] = "selected" /\ view[h] \in View /\ UNCHANGED <<db, work, writer, job>>
  BY DEF OpenReader, StoreTyped, ViewSelected
<1>2. CASE pc' = [pc EXCEPT ![h] = "idle"] /\ view' = [view EXCEPT ![h] = NoSnapshot]
  <2>1. pc'[h] = "idle" /\ \A g \in Handles : g # h => view'[g] = view[g]
    BY <1>2 DEF StoreTyped, TypeOK
  <2> QED
    BY <1>1, <1>2, <2>1, ReadOnlyStep DEF ReaderPinned, Labels, InTransaction
<1>3. CASE /\ pc' = [pc EXCEPT ![h] = "paging"]
           /\ \E s \in db.snapshots :
                view' = [view EXCEPT ![h].snapshot = s.snapshot,
                                     ![h].graph = s.graph, ![h].invalidated = FALSE]
  <2>1. PICK s \in db.snapshots :
          view' = [view EXCEPT ![h].snapshot = s.snapshot,
                               ![h].graph = s.graph, ![h].invalidated = FALSE]
    BY <1>3
  <2>2. /\ view'[h].snapshot = s.snapshot /\ view'[h].graph = s.graph
        /\ \A g \in Handles : g # h => view'[g] = view[g]
    BY <1>1, <2>1 DEF StoreTyped, TypeOK, View
  <2>3. s.snapshot <= s.snapshot
    BY DEF StoreTyped, TypeOK, Tables, SnapshotRow
  <2>4. \A r \in db.snapshots : r.snapshot = s.snapshot => r = s
    BY DEF StoreInv, Consistent, KeysHold
  <2>5. ReaderPinned(h)'
    BY <1>1, <2>2, <2>3, <2>4 DEF ReaderPinned
  <2> QED
    BY <1>1, <1>3, <2>2, <2>5, ReadOnlyStep DEF Labels, InTransaction
<1> QED
  BY <1>2, <1>3 DEF OpenReader, Goto

LEMMA StoreStep == StoreTyped /\ StoreInv /\ [Next]_vars => StoreInv'
<1> SUFFICES ASSUME StoreTyped, StoreInv, [Next]_vars PROVE StoreInv'
  OBVIOUS
<1>1. ASSUME NEW h \in Handles, InsertCompatibility(h) PROVE StoreInv'
  <2>1. /\ pc[h] = "compatibility" /\ pc' = [pc EXCEPT ![h] = "candidate"]
        /\ UNCHANGED <<db, writer, job, view>>
    BY <1>1 DEF InsertCompatibility, Goto
  <2>2. /\ Consistent(work') /\ work'.snapshots = work.snapshots
        /\ work'.active = work.active
    BY <1>1, CompatibilityStaysConsistent DEF StoreInv
  <2>3. RowidsGrow'
    BY <2>1, <2>2 DEF StoreInv, RowidsGrow
  <2>4. Transaction(h)'
    BY <2>1, <2>2
    DEF StoreInv, Transaction, CandidateInPlace, TiersUntouched, StoreTyped, TypeOK
  <2> QED
    BY <2>1, <2>2, <2>3, <2>4, WriterStep DEF InTransaction
<1>2. ASSUME NEW h \in Handles, PutCandidate(h) PROVE StoreInv'
  <2>1. /\ pc[h] = "candidate" /\ pc' = [pc EXCEPT ![h] = "graphs"]
        /\ UNCHANGED <<db, writer, job, view>>
    BY <1>2 DEF PutCandidate, Goto
  <2>2. /\ Consistent(work') /\ work'.snapshots = work.snapshots
        /\ work'.active = work.active
        /\ \A r \in work'.candidates :
             r.id = CandidateId(job[h].candidate) =>
               /\ r.facts = job[h].candidate.facts
               /\ job[h].candidate.subgraphs => r.subgraphs
    BY <1>2, CandidateStaysConsistent DEF StoreInv
  <2>3. RowidsGrow'
    BY <2>1, <2>2 DEF StoreInv, RowidsGrow
  <2>4. Transaction(h)'
    BY <2>1, <2>2
    DEF StoreInv, Transaction, CandidateInPlace, TiersUntouched, StoreTyped, TypeOK
  <2> QED
    BY <2>1, <2>2, <2>3, <2>4, WriterStep DEF InTransaction
<1>3. ASSUME NEW h \in Handles,
             Begin(h) \/ InsertGraph(h) \/ ReuseGraph(h) \/ Collect(h) \/ Commit(h)
               \/ Rollback(h) \/ InvalidateDerived(h) \/ OpenReader(h)
      PROVE  StoreInv'
  BY <1>3, BeginStep, InsertGraphStep, ReuseGraphStep, CollectStep, CommitStep,
     RollbackStep, InvalidateStep, OpenReaderStep
<1>4. ASSUME NEW h \in Handles, Condemn(h) \/ Select(h) \/ Leave(h) PROVE StoreInv'
  <2>1. /\ pc[h] \in {"idle", "condemned", "selected", "paging"}
        /\ \E l \in {"condemned", "selected", "idle"} : pc' = [pc EXCEPT ![h] = l]
        /\ UNCHANGED <<db, work, writer, job>>
        /\ \A g \in Handles : g # h => view'[g] = view[g]
    BY <1>4 DEF Condemn, Select, Leave, Goto, StoreTyped, TypeOK
  <2>2. ReaderPinned(h)'
    BY <2>1 DEF ReaderPinned, StoreTyped, TypeOK
  <2> QED
    BY <2>1, <2>2, ReadOnlyStep DEF Labels, InTransaction
<1>5. CASE Exhausted \/ UNCHANGED vars
  BY <1>5
  DEF Exhausted, vars, StoreInv, OneWriter, RowidsGrow, Transaction, CandidateInPlace,
      TiersUntouched, ReaderPinned
<1> QED
  BY <1>1, <1>2, <1>3, <1>4, <1>5 DEF Next

LEMMA StoreIsSound == Spec => [](StoreTyped /\ StoreInv)
<1>1. Init => StoreTyped /\ StoreInv
  BY InitIsTyped, InitIsSound
<1>2. StoreTyped /\ StoreInv /\ [Next]_vars => StoreTyped' /\ StoreInv'
  BY TypeStep, StoreStep
<1> QED
  BY <1>1, <1>2, PTL DEF Spec

-----------------------------------------------------------------------------
\* The properties.

\* Every variable keeps its type; in particular what a transaction works on is
\* always a set of tables of the schema.
THEOREM TypeCorrect == Spec => []TypeOK
<1>1. StoreTyped => TypeOK
  BY DEF StoreTyped
<1> QED
  BY <1>1, StoreIsSound, PTL

\* No publication ever meets a constraint of the schema by its own statements, and
\* a candidate id means one set of facts in every tier (publish_candidate_detailed).
THEOREM RowsAlwaysAgree == Spec => []RowsAgree
<1>1. StoreInv => RowsAgree
  BY DEF StoreInv, Consistent, RowsBelongTogether, RowsAgree, ConstraintsHold,
         OneTruthPerCandidate
<1> QED
  BY <1>1, StoreIsSound, PTL

\* The loader never finds what it refuses as corrupt, whatever builds share the
\* cache (load_active_inner).
THEOREM LoadsAreSound == Spec => []LoadsFindNoCorruption
<1>1. StoreInv => LoadsFindNoCorruption
  <2> SUFFICES ASSUME StoreInv, NEW a \in db.active, NEW s \in db.snapshots,
                      NEW c \in db.candidates, Joined(db, a, s, c)
               PROVE  ~Corrupt(db, a, s, c)
    BY DEF LoadsFindNoCorruption
  <2>1. a.snapshot = s.snapshot /\ s.candidate = c.id
    BY DEF Joined
  <2>2. s.tier = a.tier /\ c.grade = a.grade
    BY <2>1 DEF StoreInv, Consistent, RowsBelongTogether
  <2> QED
    BY <2>2 DEF Corrupt, StoreInv, Consistent, RowsBelongTogether
<1> QED
  BY <1>1, StoreIsSound, PTL

\* In the committed tables every snapshot is active and every candidate has a
\* snapshot (the garbage collection of publish_candidate). Compatibility rows stay.
THEOREM CollectorIsComplete == Spec => []NothingSupersededIsKept
<1>1. StoreInv => NothingSupersededIsKept
  BY DEF StoreInv, NothingSupersededIsKept
<1> QED
  BY <1>1, StoreIsSound, PTL

\* Row ids are recycled, but never under a reader: as long as no invalidation comes
\* between, every page is of the graph the reader was opened on.
THEOREM ReadersSeeOneGraph == Spec => []PagesNeverMix
<1>1. StoreInv => PagesNeverMix
  BY DEF StoreInv, ReaderPinned, PagesNeverMix, Page
<1> QED
  BY <1>1, StoreIsSound, PTL

-----------------------------------------------------------------------------
\* The cache implements its slots.

\* Nobody but the writer publishes.
LEMMA OthersPublishNothing ==
  ASSUME StoreTyped, NEW h \in Handles, NEW l \in Labels, pc' = [pc EXCEPT ![h] = l],
         \A g \in Handles : g # h => pc[g] \notin InTransaction,
         l \in InTransaction => PublishedSoFar(h)'
  PROVE  SlotsFollow'
<1>1. \A g \in Handles : pc'[g] = (IF g = h THEN l ELSE pc[g])
  BY DEF StoreTyped, TypeOK
<1>2. ASSUME NEW g \in Handles, pc'[g] \notin InTransaction PROVE PublishedSoFar(g)'
  BY <1>2 DEF PublishedSoFar, InTransaction
<1> QED
  BY <1>1, <1>2 DEF SlotsFollow

LEMMA InsertGraphFollows ==
  ASSUME StoreTyped, StoreInv, SlotsFollow, NEW h \in Handles, InsertGraph(h)
  PROVE  PublishedSoFar(h)'
<1> DEFINE c == job[h].candidate
<1>1. pc[h] = "graphs" /\ UNCHANGED db /\ PublishedSoFar(h)
  BY DEF InsertGraph, SlotsFollow
<1>2. PICK tier \in job[h].tiers, row \in work.candidates, n \in NextRowids(work.snapshots) :
        /\ StoredGraphs(c, tier) = {} /\ row.id = CandidateId(c)
        /\ work' = [work EXCEPT
             !.snapshots = @ \cup {[snapshot |-> n, candidate |-> row.id, tier |-> tier,
                                    graph |-> c.facts, created |-> row.created]},
             !.active = Activate(@, tier, c.grade, n)]
        /\ TierDone(h, tier)
  BY DEF InsertGraph, StampedByStore
<1> DEFINE s == [snapshot |-> n, candidate |-> row.id, tier |-> tier,
                 graph |-> c.facts, created |-> row.created]
           a == [tier |-> tier, grade |-> c.grade, snapshot |-> n]
<1>3. /\ work'.snapshots = work.snapshots \cup {s}
      /\ work'.active = {x \in work.active : ~(x.tier = tier /\ x.grade = c.grade)} \cup {a}
  BY <1>2 DEF StoreTyped, TypeOK, Tables, Activate
<1>4. job'[h].candidate = c /\ pc'[h] \in {"collect", "graphs"}
  BY <1>2 DEF TierDone, Goto, StoreTyped, TypeOK
<1>5. \A x \in work'.active : x \in db'.active \/ OwnSlot(h, x)'
  <2>1. OwnSlot(h, a)'
    <3>1. s \in work'.snapshots /\ s.snapshot = a.snapshot /\ s.candidate = CandidateId(c)
          /\ s.graph = c.facts
      BY <1>2, <1>3
    <3> QED
      BY <1>4, <3>1 DEF OwnSlot
  <2>2. ASSUME NEW x \in work.active PROVE x \in db.active \/ OwnSlot(h, x)'
    BY <1>1, <1>3, <1>4 DEF PublishedSoFar, OwnSlot, InTransaction
  <2>3. ASSUME NEW x \in work'.active PROVE x \in db'.active \/ OwnSlot(h, x)'
    <3>1. CASE x \in work.active
      BY <1>1, <2>2, <3>1
    <3>2. CASE x = a
      BY <1>4, <2>1, <3>2 DEF OwnSlot
    <3> QED
      BY <1>3, <3>1, <3>2
  <2> QED
    BY <2>3
<1>6. \A x \in db'.active : \E b \in work'.active : b.tier = x.tier /\ b.grade = x.grade
  <2> SUFFICES ASSUME NEW x \in db.active
               PROVE  \E b \in work'.active : b.tier = x.tier /\ b.grade = x.grade
    BY <1>1
  <2>1. PICK b \in work.active : b.tier = x.tier /\ b.grade = x.grade
    BY <1>1 DEF PublishedSoFar, InTransaction
  <2>2. CASE b.tier = tier /\ b.grade = c.grade
    <3>1. a \in work'.active /\ a.tier = x.tier /\ a.grade = x.grade
      BY <1>3, <2>1, <2>2
    <3> QED
      BY <3>1
  <2>3. CASE ~(b.tier = tier /\ b.grade = c.grade)
    <3>1. b \in work'.active
      BY <1>3, <2>3
    <3> QED
      BY <2>1, <3>1
  <2> QED
    BY <2>2, <2>3
<1>7. \A r \in db'.candidates : r.id = CandidateId(c) => r.facts = c.facts
  BY <1>1 DEF PublishedSoFar, InTransaction
<1> QED
  BY <1>4, <1>5, <1>6, <1>7 DEF PublishedSoFar

LEMMA FollowStep == StoreTyped /\ StoreInv /\ SlotsFollow /\ [Next]_vars => SlotsFollow'
<1> SUFFICES ASSUME StoreTyped, StoreInv, SlotsFollow, [Next]_vars PROVE SlotsFollow'
  OBVIOUS
<1>1. \A h \in Handles : pc[h] \in InTransaction =>
        \A g \in Handles : g # h => pc[g] \notin InTransaction
  BY OthersAreIdle DEF StoreInv
<1>2. writer = NoHandle => \A g \in Handles : pc[g] \notin InTransaction
  BY StoreAssumption DEF StoreInv, OneWriter
<1>3. ASSUME NEW h \in Handles, Begin(h) PROVE SlotsFollow'
  <2>1. /\ writer = NoHandle /\ UNCHANGED db /\ work' = db
        /\ pc' = [pc EXCEPT ![h] = "compatibility"]
    BY <1>3 DEF Begin, Goto
  <2>2. pc'[h] = "compatibility"
    BY <2>1 DEF StoreTyped, TypeOK
  <2>3. PublishedSoFar(h)'
    BY <2>1, <2>2 DEF PublishedSoFar
  <2> QED
    BY <1>2, <2>1, <2>3, OthersPublishNothing DEF Labels, InTransaction
<1>4. ASSUME NEW h \in Handles, InsertCompatibility(h) PROVE SlotsFollow'
  <2>1. /\ pc[h] = "compatibility" /\ pc' = [pc EXCEPT ![h] = "candidate"]
        /\ UNCHANGED <<db, job>>
    BY <1>4 DEF InsertCompatibility, Goto
  <2>2. /\ work'.candidates = work.candidates
        /\ work'.snapshots = work.snapshots /\ work'.active = work.active
    BY <1>4, CompatibilityStaysConsistent DEF StoreInv
  <2>3. pc'[h] = "candidate" /\ PublishedSoFar(h)
    BY <2>1 DEF StoreTyped, TypeOK, SlotsFollow
  <2>4. PublishedSoFar(h)'
    BY <2>1, <2>2, <2>3 DEF PublishedSoFar, OwnSlot, InTransaction
  <2> QED
    BY <1>1, <2>1, <2>4, OthersPublishNothing DEF Labels, InTransaction
<1>5. ASSUME NEW h \in Handles, PutCandidate(h) PROVE SlotsFollow'
  <2>1. /\ pc[h] = "candidate" /\ pc' = [pc EXCEPT ![h] = "graphs"]
        /\ UNCHANGED <<db, job>>
    BY <1>5 DEF PutCandidate, Goto
  <2>2. work'.snapshots = work.snapshots /\ work'.active = work.active
    BY <1>5, CandidateStaysConsistent DEF StoreInv
  <2>3. pc'[h] = "graphs" /\ PublishedSoFar(h)
    BY <2>1 DEF StoreTyped, TypeOK, SlotsFollow
  <2>4. \A r \in db.candidates :
          r.id = CandidateId(job[h].candidate) => r.facts = job[h].candidate.facts
    BY <1>5, <2>1, <2>3 DEF PublishedSoFar, PutCandidate, SameFacts
  <2>5. PublishedSoFar(h)'
    BY <2>1, <2>2, <2>3, <2>4 DEF PublishedSoFar, OwnSlot, InTransaction
  <2> QED
    BY <1>1, <2>1, <2>5, OthersPublishNothing DEF Labels, InTransaction
<1>6. ASSUME NEW h \in Handles, InsertGraph(h) PROVE SlotsFollow'
  <2>1. pc[h] = "graphs" /\ \E l \in {"collect", "graphs"} : pc' = [pc EXCEPT ![h] = l]
    BY <1>6 DEF InsertGraph, TierDone, Goto
  <2> QED
    BY <1>1, <1>6, <2>1, InsertGraphFollows, OthersPublishNothing DEF Labels, InTransaction
<1>7. ASSUME NEW h \in Handles, ReuseGraph(h) PROVE SlotsFollow'
  <2>1. pc[h] = "graphs" /\ UNCHANGED db
    BY <1>7 DEF ReuseGraph
  <2>2. PICK tier \in job[h].tiers, s \in work.snapshots :
          /\ s \in StoredGraphs(job[h].candidate, tier)
          /\ work' = [work EXCEPT
               !.active = Activate(@, tier, job[h].candidate.grade, s.snapshot)]
          /\ TierDone(h, tier)
    BY <1>7 DEF ReuseGraph, StoredGraphs
  <2>3. work' = work
    BY <2>1, <2>2, ReuseChangesNothing DEF StoreInv, Transaction
  <2>4. PICK l \in {"collect", "graphs"} : pc' = [pc EXCEPT ![h] = l]
    BY <2>2 DEF TierDone, Goto
  <2>5. job'[h].candidate = job[h].candidate /\ pc'[h] = l /\ PublishedSoFar(h)
    BY <2>2, <2>4 DEF TierDone, StoreTyped, TypeOK, SlotsFollow
  <2>6. PublishedSoFar(h)'
    BY <2>1, <2>3, <2>5 DEF PublishedSoFar, OwnSlot, InTransaction
  <2> QED
    BY <1>1, <2>1, <2>4, <2>6, OthersPublishNothing DEF Labels, InTransaction
<1>8. ASSUME NEW h \in Handles, Collect(h) PROVE SlotsFollow'
  <2>1. /\ pc[h] = "collect" /\ pc' = [pc EXCEPT ![h] = "commit"]
        /\ UNCHANGED <<db, job>> /\ work' = CollectGarbage(work)
    BY <1>8 DEF Collect, Goto
  <2>2. /\ work'.active = work.active
        /\ work'.snapshots =
             {s \in work.snapshots : \E a \in work.active : a.snapshot = s.snapshot}
    BY <2>1 DEF CollectGarbage, StoreTyped, TypeOK, Tables
  <2>3. pc'[h] = "commit" /\ PublishedSoFar(h)
    BY <2>1 DEF StoreTyped, TypeOK, SlotsFollow
  <2>4. \A a \in work.active : OwnSlot(h, a) => OwnSlot(h, a)'
    BY <2>1, <2>2 DEF OwnSlot
  <2>5. PublishedSoFar(h)'
    BY <2>1, <2>2, <2>3, <2>4 DEF PublishedSoFar, InTransaction
  <2> QED
    BY <1>1, <2>1, <2>5, OthersPublishNothing DEF Labels, InTransaction
<1>9. ASSUME NEW h \in Handles, Commit(h) \/ Rollback(h) PROVE SlotsFollow'
  <2>1. pc[h] \in InTransaction /\ pc' = [pc EXCEPT ![h] = "idle"]
    BY <1>9 DEF Commit, Rollback, EndTransaction, Goto, InTransaction
  <2> QED
    BY <1>1, <2>1, OthersPublishNothing DEF Labels, InTransaction
<1>10. ASSUME NEW h \in Handles, InvalidateDerived(h) PROVE SlotsFollow'
  <2>1. writer = NoHandle /\ pc' = [pc EXCEPT ![h] = "idle"]
    BY <1>10 DEF InvalidateDerived, Goto
  <2> QED
    BY <1>2, <2>1, OthersPublishNothing DEF Labels, InTransaction
<1>11. ASSUME NEW h \in Handles, Condemn(h) \/ Select(h) \/ OpenReader(h) \/ Leave(h)
       PROVE  SlotsFollow'
  <2>1. /\ \E l \in Labels \ InTransaction : pc' = [pc EXCEPT ![h] = l]
        /\ UNCHANGED <<db, work, job>>
    BY <1>11 DEF Condemn, Select, OpenReader, Leave, Goto, Labels, InTransaction
  <2>2. \A g \in Handles : pc'[g] \in InTransaction => pc'[g] = pc[g]
    BY <2>1 DEF StoreTyped, TypeOK
  <2> QED
    BY <2>1, <2>2 DEF SlotsFollow, PublishedSoFar, OwnSlot, InTransaction
<1>12. CASE Exhausted \/ UNCHANGED vars
  BY <1>12 DEF Exhausted, vars, SlotsFollow, PublishedSoFar, OwnSlot
<1> QED
  BY <1>3, <1>4, <1>5, <1>6, <1>7, <1>8, <1>9, <1>10, <1>11, <1>12 DEF Next

\* A slot shows the snapshot its active row names, and nothing without one.
LEMMA SlotShows ==
  ASSUME NEW t \in Tables, KeysHold(t), NEW tier \in Tiers, NEW grade \in Grades
  PROVE  /\ \A a \in t.active, s \in t.snapshots :
              a.tier = tier /\ a.grade = grade /\ a.snapshot = s.snapshot
                => SlotIn(t, tier, grade) = [candidate |-> s.candidate, facts |-> s.graph]
         /\ (\A a \in t.active : ~(a.tier = tier /\ a.grade = grade))
              => SlotIn(t, tier, grade) = NoSnapshot
<1> DEFINE rows == {s \in t.snapshots : [tier |-> tier, grade |-> grade,
                                         snapshot |-> s.snapshot] \in t.active}
<1>1. t.active \in SUBSET ActiveRow
  BY DEF Tables
<1>2. ASSUME NEW a \in t.active, NEW s \in t.snapshots,
             a.tier = tier, a.grade = grade, a.snapshot = s.snapshot
      PROVE  SlotIn(t, tier, grade) = [candidate |-> s.candidate, facts |-> s.graph]
  <2>1. a = [tier |-> tier, grade |-> grade, snapshot |-> s.snapshot]
    BY <1>1, <1>2 DEF ActiveRow
  <2>2. ASSUME NEW r \in rows PROVE r = s
    <3> DEFINE b == [tier |-> tier, grade |-> grade, snapshot |-> r.snapshot]
    <3>1. b \in t.active /\ b.tier = a.tier /\ b.grade = a.grade
      BY <1>2
    <3>2. b = a
      BY <3>1 DEF KeysHold
    <3>3. r.snapshot = s.snapshot
      BY <2>1, <3>2
    <3> QED
      BY <3>3 DEF KeysHold
  <2>3. rows = {s}
    BY <2>1, <2>2
  <2> QED
    BY <2>3 DEF SlotIn
<1>3. ASSUME \A a \in t.active : ~(a.tier = tier /\ a.grade = grade)
      PROVE  SlotIn(t, tier, grade) = NoSnapshot
  <2>1. rows = {}
    BY <1>3
  <2> QED
    BY <2>1 DEF SlotIn
<1> QED
  BY <1>2, <1>3

\* A commit changes the slots of its tiers, in the class of its candidate.
LEMMA CommitPublishes ==
  ASSUME StoreTyped, StoreInv, SlotsFollow, NEW h \in Handles, Commit(h)
  PROVE  Promise!Publish(job[h].candidate.grade,
                         [candidate |-> CandidateId(job[h].candidate),
                          facts |-> job[h].candidate.facts])
<1> DEFINE c == job[h].candidate
           own == [candidate |-> CandidateId(c), facts |-> c.facts]
<1>1. /\ pc[h] = "commit" /\ db' = work /\ PublishedSoFar(h)
      /\ db \in Tables /\ work \in Tables /\ KeysHold(db) /\ KeysHold(work)
      /\ writer # NoHandle
  BY OthersAreIdle
  DEF Commit, SlotsFollow, StoreTyped, TypeOK, StoreInv, Consistent, InTransaction
<1>2. ASSUME NEW tier \in Tiers, NEW grade \in Grades,
             SlotIn(db, tier, grade) # NoSnapshot,
             SlotIn(db, tier, grade).candidate = own.candidate
      PROVE  SlotIn(db, tier, grade) = own
  <2>1. PICK a \in db.active : a.tier = tier /\ a.grade = grade
    BY <1>1, <1>2, SlotShows
  <2>2. PICK s \in db.snapshots : s.snapshot = a.snapshot
    BY <1>1 DEF KeysHold
  <2>3. SlotIn(db, tier, grade) = [candidate |-> s.candidate, facts |-> s.graph]
    BY <1>1, <2>1, <2>2, SlotShows
  <2>4. PICK r \in db.candidates : r.id = s.candidate
    BY <1>1 DEF KeysHold
  <2>5. s.graph = r.facts /\ s.candidate = CandidateId(c)
    BY <1>2, <2>3, <2>4 DEF StoreInv, Consistent, RowsBelongTogether
  <2>6. r.facts = c.facts
    BY <1>1, <2>4, <2>5 DEF PublishedSoFar, InTransaction
  <2> QED
    BY <2>3, <2>5, <2>6
<1>3. ASSUME NEW tier \in Tiers, NEW grade \in Grades,
             SlotIn(work, tier, grade) # SlotIn(db, tier, grade)
      PROVE  grade = c.grade /\ SlotIn(work, tier, grade) = own
  <2>1. PICK a \in work.active : a.tier = tier /\ a.grade = grade
    <3>1. CASE \A a \in work.active : ~(a.tier = tier /\ a.grade = grade)
      <4>1. \A a \in db.active : ~(a.tier = tier /\ a.grade = grade)
        BY <1>1, <3>1 DEF PublishedSoFar, InTransaction
      <4> QED
        BY <1>1, <1>3, <3>1, <4>1, SlotShows
    <3> QED
      BY <3>1
  <2>2. a \notin db.active
    <3> SUFFICES ASSUME a \in db.active PROVE FALSE
      OBVIOUS
    <3>1. PICK s \in work.snapshots : s.snapshot = a.snapshot
      BY <1>1 DEF KeysHold
    <3>2. PICK r \in db.snapshots : r.snapshot = a.snapshot
      BY <1>1 DEF KeysHold
    <3>3. ~(r.snapshot < s.snapshot)
      BY <1>1, <3>1, <3>2 DEF Tables, SnapshotRow
    <3>4. s \in db.snapshots
      BY <1>1, <3>3 DEF StoreInv, RowidsGrow
    <3>5. /\ SlotIn(work, tier, grade) = [candidate |-> s.candidate, facts |-> s.graph]
          /\ SlotIn(db, tier, grade) = [candidate |-> s.candidate, facts |-> s.graph]
      BY <1>1, <2>1, <3>1, <3>4, SlotShows
    <3> QED
      BY <1>3, <3>5
  <2>3. OwnSlot(h, a)
    BY <1>1, <2>2 DEF PublishedSoFar, InTransaction
  <2>4. PICK s \in work.snapshots :
          s.snapshot = a.snapshot /\ s.candidate = CandidateId(c) /\ s.graph = c.facts
    BY <2>3 DEF OwnSlot
  <2>5. SlotIn(work, tier, grade) = [candidate |-> s.candidate, facts |-> s.graph]
    BY <1>1, <2>1, <2>4, SlotShows
  <2> QED
    BY <2>1, <2>3, <2>4, <2>5 DEF OwnSlot
<1> QED
  BY <1>1, <1>2, <1>3 DEF Promise!Publish, Promise!Slots

\* Every step of the cache publishes, invalidates or shows nothing.
LEMMA SlotStep ==
  StoreTyped /\ StoreInv /\ SlotsFollow /\ [Next]_vars
    => [Promise!Next]_[s \in Tiers \X Grades |-> SlotIn(db, s[1], s[2])]
<1> SUFFICES ASSUME StoreTyped, StoreInv, SlotsFollow, [Next]_vars
             PROVE  [Promise!Next]_[s \in Tiers \X Grades |-> SlotIn(db, s[1], s[2])]
  OBVIOUS
<1>1. ASSUME NEW h \in Handles, Commit(h)
      PROVE  [Promise!Next]_[s \in Tiers \X Grades |-> SlotIn(db, s[1], s[2])]
  <2>1. job[h].candidate \in Candidates
    BY <1>1 DEF Commit, StoreTyped, JobAdmitted, InTransaction
  <2>2. job[h].candidate.grade \in Grades
    BY <2>1, RowsAreTyped
  <2> QED
    BY <1>1, <2>1, <2>2, CommitPublishes DEF Promise!Next
<1>2. ASSUME NEW h \in Handles, InvalidateDerived(h)
      PROVE  [Promise!Next]_[s \in Tiers \X Grades |-> SlotIn(db, s[1], s[2])]
  <2>1. \A tier \in Tiers, grade \in Grades : SlotIn(db', tier, grade) = NoSnapshot
    BY <1>2 DEF InvalidateDerived, SlotIn, NoTables
  <2>2. Promise!Invalidate
    BY <2>1 DEF Promise!Invalidate, Promise!Slots
  <2> QED
    BY <2>2 DEF Promise!Next
<1>3. ASSUME UNCHANGED db
      PROVE  [Promise!Next]_[s \in Tiers \X Grades |-> SlotIn(db, s[1], s[2])]
  BY <1>3
<1>4. ASSUME NEW h \in Handles,
             Begin(h) \/ InsertCompatibility(h) \/ PutCandidate(h) \/ InsertGraph(h)
               \/ ReuseGraph(h) \/ Collect(h) \/ Rollback(h) \/ Condemn(h) \/ Select(h)
               \/ OpenReader(h) \/ Leave(h)
      PROVE  UNCHANGED db
  BY <1>4 DEF Begin, InsertCompatibility, PutCandidate, InsertGraph, ReuseGraph, Collect,
     Rollback, Condemn, Select, OpenReader, Leave
<1>5. ASSUME Exhausted \/ UNCHANGED vars PROVE UNCHANGED db
  BY <1>5 DEF Exhausted, vars
<1> QED
  BY <1>1, <1>2, <1>3, <1>4, <1>5 DEF Next

\* However processes interleave, crash and collect, each slot of the cache is
\* replaced whole, with one candidate and its facts, or emptied with all others
\* (publish_candidate_detailed, invalidate_derived).
THEOREM CacheImplementsSlots == Spec => PublishesWholeSlots
<1>1. Init => SlotsFollow
  BY DEF Init, SlotsFollow, PublishedSoFar, InTransaction
<1>2. StoreTyped /\ StoreInv /\ SlotsFollow /\ [Next]_vars => SlotsFollow'
  BY FollowStep
<1>3. Init => Promise!Init
  BY DEF Init, NoTables, SlotIn, Promise!Init, Promise!Slots
<1>4. StoreTyped /\ StoreInv /\ SlotsFollow /\ [Next]_vars
        => [Promise!Next]_[s \in Tiers \X Grades |-> SlotIn(db, s[1], s[2])]
  BY SlotStep
<1> QED
  BY <1>1, <1>2, <1>3, <1>4, StoreIsSound, PTL DEF Spec, PublishesWholeSlots, Promise!Spec
=============================================================================
