----------------------------- MODULE CacheStore -----------------------------
(***************************************************************************)
(* The SQLite project cache shared by every `code2graph` process that      *)
(* works on one project (cli/src/cache/store.rs, store/*_publication.rs    *)
(* and cli/src/execution/cache_policy.rs): publication of a candidate in   *)
(* one write transaction, garbage collection of superseded snapshots,      *)
(* invalidation of a cache that cannot be loaded, and the query commands   *)
(* that select a snapshot once and then read it page by page, each page in *)
(* a read transaction of its own.                                          *)
(*                                                                         *)
(* A table is a set of rows, so that the keys of the schema are something  *)
(* to check.  The rows of candidate_files are folded into their candidate  *)
(* and the rows of a graph into its snapshot.  SQLite itself is trusted:   *)
(* one writer at a time, readers see the last committed tables, and a      *)
(* transaction that does not commit leaves no trace.                       *)
(***************************************************************************)
EXTENDS Integers, FiniteSets

CONSTANTS
  Handles,     \* open writable stores, one per running process
  RecipeOf,    \* per handle: crate version, cache epoch and schema versions
  Candidates,  \* the candidates that refreshes may come to publish
  TierSets,    \* the sets of tiers one publication may carry graphs for
  NoHandle,    \* nobody holds the write lock
  NoSnapshot,  \* a slot without an active snapshot
  MaxBegun     \* bound: write transactions begun

Tiers == {"name", "scope", "dense"}
Grades == {"complete", "partial"}

\* What a refresh hands to the store.  `fingerprints` stands for the language
\* and package fingerprints, `input` for the digest of (path, language, content
\* hash) and the omissions; `facts` is what extraction made of those inputs and
\* determines the graph of every tier.
ASSUME StoreAssumption ==
  /\ NoHandle \notin Handles
  /\ MaxBegun \in Nat
  /\ TierSets \subseteq SUBSET Tiers \ {{}}
  /\ \A c \in Candidates :
       /\ DOMAIN c = {"recipe", "fingerprints", "input", "grade", "facts",
                      "subgraphs", "created", "mtimes"}
       /\ c.grade \in Grades
       /\ c.subgraphs \in BOOLEAN

\* Identities are digests: the compatibility of the recipe and fingerprints,
\* the candidate of the compatibility, inputs, omissions and completeness.
\* Neither covers the facts.
CompatibilityId(c) == <<c.recipe, c.fingerprints>>
CandidateId(c) == <<c.recipe, c.fingerprints, c.input, c.grade>>

VARIABLES
  db,      \* the committed tables
  work,    \* the tables as the transaction of the writer has them
  writer,  \* the handle whose BEGIN IMMEDIATE succeeded
  pc,      \* where each handle is
  job,     \* per handle: the candidate it publishes and the tiers left to do
  view,    \* per handle: the snapshot its query command has selected
  begun    \* write transactions begun, counted up to MaxBegun

vars == <<db, work, writer, pc, job, view, begun>>

NoTables ==
  [compatibility |-> {}, candidates |-> {}, snapshots |-> {}, active |-> {}]

\* The handle publishes nothing.
NoJob == [candidate |-> NoSnapshot, tiers |-> {}]

InTransaction == {"compatibility", "candidate", "graphs", "collect", "commit"}
Labels == {"idle", "condemned", "selected", "paging"} \cup InTransaction

Init ==
  /\ db = NoTables
  /\ work = NoTables
  /\ writer = NoHandle
  /\ pc = [h \in Handles |-> "idle"]
  /\ job = [h \in Handles |-> NoJob]
  /\ view = [h \in Handles |-> NoSnapshot]
  /\ begun = 0

-----------------------------------------------------------------------------
\* Publication: `publish_candidate_detailed`.

Goto(h, label) == pc' = [pc EXCEPT ![h] = label]

\* `PreparedCandidate::new` refuses a Scope graph without every file's subgraph
\* before BEGIN IMMEDIATE takes the lock.  A lock that stays busy is an error
\* and changes nothing.
Begin(h) ==
  /\ pc[h] = "idle"
  /\ writer = NoHandle
  /\ begun < MaxBegun
  /\ \E c \in Candidates, tiers \in TierSets :
       /\ c.recipe = RecipeOf[h]
       /\ "scope" \in tiers => c.subgraphs
       /\ job' = [job EXCEPT ![h] = [candidate |-> c, tiers |-> tiers]]
  /\ writer' = h
  /\ work' = db
  /\ begun' = begun + 1
  /\ Goto(h, "compatibility")
  /\ UNCHANGED <<db, view>>

\* INSERT OR IGNORE: nothing is inserted beside a row with the same id or, as
\* the pair of fingerprints is UNIQUE too, the same fingerprints.
InsertCompatibility(h) ==
  /\ pc[h] = "compatibility"
  /\ LET c == job[h].candidate IN
     work' = IF \E r \in work.compatibility : r.fingerprints = c.fingerprints
             THEN work
             ELSE [work EXCEPT !.compatibility = @ \cup
                     {[id |-> CompatibilityId(c), fingerprints |-> c.fingerprints]}]
  /\ Goto(h, "candidate")
  /\ UNCHANGED <<db, writer, job, view, begun>>

\* The row the insert above was meant to leave behind.
CompatibilityStored(h) ==
  \E r \in work.compatibility : r.id = CompatibilityId(job[h].candidate)

NewCandidateRow(c) ==
  [id |-> CandidateId(c), compatibility |-> CompatibilityId(c),
   grade |-> c.grade, facts |-> c.facts, subgraphs |-> c.subgraphs,
   created |-> c.created, mtimes |-> c.mtimes]

\* `verify_existing_candidate`: the facts must agree, missing subgraphs are
\* filled in, modification times are brought up to date.
KeepsNullSubgraphs(r, c) == [r EXCEPT !.mtimes = c.mtimes]
UpdatedRow(r, c) == [r EXCEPT !.subgraphs = @ \/ c.subgraphs,
                              !.mtimes = c.mtimes]

AcceptsAnyFacts(r, c) == TRUE
SameFacts(r, c) == r.facts = c.facts

PutCandidate(h) ==
  /\ pc[h] = "candidate"
  /\ CompatibilityStored(h)
  /\ LET c == job[h].candidate
         stored == {r \in work.candidates : r.id = CandidateId(c)}
     IN  /\ \A r \in stored : SameFacts(r, c)
         /\ work' = [work EXCEPT !.candidates =
              IF stored = {} THEN @ \cup {NewCandidateRow(c)}
              ELSE (@ \ stored) \cup {UpdatedRow(r, c) : r \in stored}]
  /\ Goto(h, "graphs")
  /\ UNCHANGED <<db, writer, job, view, begun>>

\* A rowid table without AUTOINCREMENT: one more than the largest rowid in use.
FreeRowids(snapshots) ==
  {n \in {1} \cup {s.snapshot + 1 : s \in snapshots} :
     \A s \in snapshots : s.snapshot # n}
NextRowids(snapshots) ==
  {n \in {1} \cup {s.snapshot + 1 : s \in snapshots} :
     \A s \in snapshots : s.snapshot < n}

\* A new snapshot carries the creation time the store gave its candidate, not
\* the one of the refresh that publishes it.
StampedByRefresh(row, c) == c.created
StampedByStore(row, c) == row.created

\* INSERT ... ON CONFLICT (resolver_tier, completeness) DO UPDATE.
ActivateForTier(active, tier, grade, snapshot) ==
  {a \in active : a.tier # tier}
    \cup {[tier |-> tier, grade |-> grade, snapshot |-> snapshot]}
Activate(active, tier, grade, snapshot) ==
  {a \in active : ~(a.tier = tier /\ a.grade = grade)}
    \cup {[tier |-> tier, grade |-> grade, snapshot |-> snapshot]}

\* After the graph of its last tier a publication collects garbage.
TierDone(h, tier) ==
  /\ job' = [job EXCEPT ![h].tiers = @ \ {tier}]
  /\ Goto(h, IF job[h].tiers = {tier} THEN "collect" ELSE "graphs")

StoredGraphs(c, tier) ==
  {s \in work.snapshots : s.candidate = CandidateId(c) /\ s.tier = tier}

InsertGraph(h) ==
  /\ pc[h] = "graphs"
  /\ \E tier \in job[h].tiers, row \in work.candidates :
       LET c == job[h].candidate IN
       /\ StoredGraphs(c, tier) = {}
       /\ row.id = CandidateId(c)
       /\ \E n \in NextRowids(work.snapshots) :
            work' = [work EXCEPT
              !.snapshots = @ \cup {[snapshot |-> n, candidate |-> row.id,
                                     tier |-> tier, graph |-> c.facts,
                                     created |-> StampedByStore(row, c)]},
              !.active = Activate(@, tier, c.grade, n)]
       /\ TierDone(h, tier)
  /\ UNCHANGED <<db, writer, view, begun>>

\* `verify_existing_graph`: an existing graph of the tier must be the same.
ReuseGraph(h) ==
  /\ pc[h] = "graphs"
  /\ \E tier \in job[h].tiers :
       LET c == job[h].candidate IN
       \E s \in StoredGraphs(c, tier) :
         /\ s.graph = c.facts
         /\ work' = [work EXCEPT !.active = Activate(@, tier, c.grade, s.snapshot)]
         /\ TierDone(h, tier)
  /\ UNCHANGED <<db, writer, view, begun>>

\* Garbage collection: snapshots no slot names, then candidates no snapshot
\* names; their rows in the other tables cascade.
CollectsCandidatesFirst(tables) ==
  [tables EXCEPT
     !.snapshots = {s \in @ : \E a \in tables.active : a.snapshot = s.snapshot},
     !.candidates = {c \in @ : \E s \in tables.snapshots : s.candidate = c.id}]

CollectGarbage(tables) ==
  LET live == {s \in tables.snapshots :
                 \E a \in tables.active : a.snapshot = s.snapshot}
  IN  [tables EXCEPT
         !.snapshots = live,
         !.candidates = {c \in @ : \E s \in live : s.candidate = c.id}]

Collect(h) ==
  /\ pc[h] = "collect"
  /\ work' = CollectGarbage(work)
  /\ Goto(h, "commit")
  /\ UNCHANGED <<db, writer, job, view, begun>>

EndTransaction(h) ==
  /\ writer' = NoHandle
  /\ work' = NoTables
  /\ job' = [job EXCEPT ![h] = NoJob]
  /\ Goto(h, "idle")

Commit(h) ==
  /\ pc[h] = "commit"
  /\ db' = work
  /\ EndTransaction(h)
  /\ UNCHANGED <<view, begun>>

\* A conflict, an expired deadline, an SQLite error, or the end of the process:
\* whatever the transaction did is gone.
Rollback(h) ==
  /\ pc[h] \in InTransaction
  /\ EndTransaction(h)
  /\ UNCHANGED <<db, view, begun>>

-----------------------------------------------------------------------------
\* Loading: `load_active_inner` and `load_candidate_inner`.

\* The join every load goes through.
Joined(tables, a, s, c) ==
  /\ a \in tables.active /\ s \in tables.snapshots /\ c \in tables.candidates
  /\ a.snapshot = s.snapshot
  /\ s.candidate = c.id

\* What the loader calls corrupt in the slot's row and its candidate.
Corrupt(tables, a, s, c) ==
  \/ s.tier # a.tier \/ c.grade # a.grade
  \/ \E g \in tables.snapshots : g.candidate = c.id /\ g.created # c.created
  \/ /\ \E g \in tables.snapshots : g.candidate = c.id /\ g.tier = "scope"
     /\ ~c.subgraphs

\* The stored compatibility is underivable by this build.
Incompatible(c, recipe) == c.compatibility[1] # recipe

\* `load_or_invalidate`: the load condemns the cache in its read transaction,
\* the invalidation takes the write lock later.
Condemn(h) ==
  /\ pc[h] = "idle"
  /\ \E a \in db.active, s \in db.snapshots, c \in db.candidates :
       /\ Joined(db, a, s, c)
       /\ Corrupt(db, a, s, c) \/ Incompatible(c, RecipeOf[h])
  /\ Goto(h, "condemned")
  /\ UNCHANGED <<db, work, writer, job, view, begun>>

\* `invalidate_derived`: candidates and compatibility, and with them by cascade
\* every other row.  Views opened before it are marked.
InvalidateDerived(h) ==
  /\ pc[h] = "condemned"
  /\ writer = NoHandle
  /\ begun < MaxBegun
  /\ begun' = begun + 1
  /\ db' = NoTables
  /\ view' = [g \in Handles |->
                IF view[g] = NoSnapshot THEN NoSnapshot
                ELSE [view[g] EXCEPT !.invalidated = TRUE]]
  /\ Goto(h, "idle")
  /\ UNCHANGED <<work, writer, job>>

-----------------------------------------------------------------------------
\* Query commands: `execute_query_backend`.

\* `active_metadata`: one read transaction.  A snapshot of another build is not
\* visible.
Select(h) ==
  /\ pc[h] = "idle"
  /\ \E a \in db.active, s \in db.snapshots, c \in db.candidates :
       /\ Joined(db, a, s, c)
       /\ ~Incompatible(c, RecipeOf[h])
       /\ view' = [view EXCEPT ![h] =
            [candidate |-> c.id, tier |-> a.tier, snapshot |-> 0,
             graph |-> NoSnapshot, invalidated |-> FALSE]]
  /\ Goto(h, "selected")
  /\ UNCHANGED <<db, work, writer, job, begun>>

\* `graph_reader`: looks the snapshot up again, by candidate and tier.  A
\* missing row ends the command with SnapshotMissing.
OpenReader(h) ==
  /\ pc[h] = "selected"
  /\ LET rows == {s \in db.snapshots : s.candidate = view[h].candidate
                                       /\ s.tier = view[h].tier}
     IN  IF rows = {}
         THEN /\ view' = [view EXCEPT ![h] = NoSnapshot]
              /\ Goto(h, "idle")
         ELSE /\ \E s \in rows :
                   view' = [view EXCEPT ![h].snapshot = s.snapshot,
                                        ![h].graph = s.graph,
                                        ![h].invalidated = FALSE]
              /\ Goto(h, "paging")
  /\ UNCHANGED <<db, work, writer, job, begun>>

\* Every further page is `SELECT ... WHERE snapshot_id = ?`: the rows the
\* reader would be given now.
Page(h) == {s.graph : s \in {r \in db.snapshots : r.snapshot = view[h].snapshot}}

\* A command ends: its query is answered, or it failed.
Leave(h) ==
  /\ pc[h] \in {"condemned", "selected", "paging"}
  /\ view' = [view EXCEPT ![h] = NoSnapshot]
  /\ Goto(h, "idle")
  /\ UNCHANGED <<db, work, writer, job, begun>>

\* Every process is between commands and the bound is used up.
Exhausted ==
  /\ begun = MaxBegun
  /\ \A h \in Handles : pc[h] = "idle"
  /\ UNCHANGED vars

Next ==
  \/ Exhausted
  \/ \E h \in Handles :
    \/ Begin(h) \/ InsertCompatibility(h) \/ PutCandidate(h)
    \/ InsertGraph(h) \/ ReuseGraph(h) \/ Collect(h) \/ Commit(h) \/ Rollback(h)
    \/ Condemn(h) \/ InvalidateDerived(h)
    \/ Select(h) \/ OpenReader(h) \/ Leave(h)

Spec == Init /\ [][Next]_vars

-----------------------------------------------------------------------------
\* Properties.

CompatibilityRow == [id : {CompatibilityId(c) : c \in Candidates},
                     fingerprints : {c.fingerprints : c \in Candidates}]
CandidateRow == [id : {CandidateId(c) : c \in Candidates},
                 compatibility : {CompatibilityId(c) : c \in Candidates},
                 grade : Grades, facts : {c.facts : c \in Candidates},
                 subgraphs : BOOLEAN, created : {c.created : c \in Candidates},
                 mtimes : {c.mtimes : c \in Candidates}]
SnapshotRow == [snapshot : Nat \ {0}, candidate : {CandidateId(c) : c \in Candidates},
                tier : Tiers, graph : {c.facts : c \in Candidates},
                created : {c.created : c \in Candidates}]
ActiveRow == [tier : Tiers, grade : Grades, snapshot : Nat \ {0}]
Tables == [compatibility : SUBSET CompatibilityRow,
           candidates : SUBSET CandidateRow,
           snapshots : SUBSET SnapshotRow,
           active : SUBSET ActiveRow]
View == [candidate : {CandidateId(c) : c \in Candidates}, tier : Tiers,
         snapshot : Nat,
         graph : {c.facts : c \in Candidates} \cup {NoSnapshot},
         invalidated : BOOLEAN]

TypeOK ==
  /\ db \in Tables
  /\ work \in Tables
  /\ writer \in Handles \cup {NoHandle}
  /\ pc \in [Handles -> Labels]
  /\ job \in [Handles -> [candidate : Candidates \cup {NoSnapshot},
                          tiers : SUBSET Tiers]]
  /\ view \in [Handles -> View \cup {NoSnapshot}]
  /\ begun \in 0 .. MaxBegun

\* The primary, unique and foreign keys of the schema.
KeysHold(tables) ==
  /\ \A p, q \in tables.compatibility :
       p.id = q.id \/ p.fingerprints = q.fingerprints => p = q
  /\ \A p, q \in tables.candidates : p.id = q.id => p = q
  /\ \A p, q \in tables.snapshots :
       \/ p.snapshot = q.snapshot
       \/ p.candidate = q.candidate /\ p.tier = q.tier
       => p = q
  /\ \A p, q \in tables.active :
       p.tier = q.tier /\ p.grade = q.grade => p = q
  /\ \A c \in tables.candidates :
       \E r \in tables.compatibility : r.id = c.compatibility
  /\ \A s \in tables.snapshots :
       \E c \in tables.candidates : c.id = s.candidate
  /\ \A a \in tables.active :
       \E s \in tables.snapshots : s.snapshot = a.snapshot

\* No statement of a publication meets a constraint of the schema, so a
\* publication fails for a conflict of content, a deadline or the disk, and
\* never because an upsert, a recycled id or the collector broke a key.
ConstraintsHold == KeysHold(db) /\ KeysHold(work)

\* Whatever publications, collections and invalidations went before, the slots
\* hold nothing the loader refuses as corrupt: no snapshot in a slot of another
\* tier or class, no graph dated differently from its candidate, no Scope graph
\* over files without subgraphs.
LoadsFindNoCorruption ==
  \A a \in db.active, s \in db.snapshots, c \in db.candidates :
    Joined(db, a, s, c) => ~Corrupt(db, a, s, c)

\* "Without this, snapshots and their edge/symbol rows accumulate forever":
\* every committed snapshot is active and every candidate has a snapshot. A
\* publication does not collect the compatibility rows.
Collected(tables) ==
  /\ \A s \in tables.snapshots : \E a \in tables.active : a.snapshot = s.snapshot
  /\ \A c \in tables.candidates : \E s \in tables.snapshots : s.candidate = c.id
NothingSupersededIsKept == Collected(db)

\* One candidate id means one set of facts, in all tiers and for all builds
\* that publish it, although the id does not cover the facts.
OneTruthPerCandidate ==
  \A s \in db.snapshots, c \in db.candidates :
    s.candidate = c.id => s.graph = c.facts

\* What a publication writes agrees with what is there, by keys and by facts.
RowsAgree == ConstraintsHold /\ OneTruthPerCandidate

\* A query pages through the graph its reader was opened on, or finds it gone:
\* as long as no invalidation comes between, a recycled row id never makes one
\* answer out of two graphs.
PagesNeverMix ==
  \A h \in Handles :
    pc[h] = "paging" /\ ~view[h].invalidated => Page(h) \subseteq {view[h].graph}

\* Every publication, garbage collection included, changes exactly the slots of
\* its tiers and class, in one step, and a failed or interrupted one none.
SlotIn(tables, tier, grade) ==
  LET rows == {s \in tables.snapshots : [tier |-> tier, grade |-> grade,
                                         snapshot |-> s.snapshot] \in tables.active}
  IN  IF rows = {} THEN NoSnapshot
      ELSE LET s == CHOOSE r \in rows : TRUE
           IN  [candidate |-> s.candidate, facts |-> s.graph]

Promise == INSTANCE SnapshotSlots WITH
  Empty <- NoSnapshot,
  Snapshots <- {[candidate |-> CandidateId(c), facts |-> c.facts] : c \in Candidates},
  slot <- [s \in Tiers \X Grades |-> SlotIn(db, s[1], s[2])]
PublishesWholeSlots == Promise!Spec

\* What another build left in the cache is invisible to this one: a refresh
\* that found no snapshot of its own can publish one.
OtherBuildsAreInvisible ==
  \A h \in Handles : pc[h] = "candidate" => CompatibilityStored(h)

-----------------------------------------------------------------------------
\* The inductive invariant behind these properties.

\* A view is told from the lack of one.
ASSUME ViewAssumption == NoSnapshot \notin View

\* What the rows of one state of the tables say of each other, beyond the keys
\* of the schema: the id of a candidate tells its class, a graph has the facts and
\* the date of its candidate, a slot holds a graph of its own tier and class, and
\* the snapshot with the largest row id is active.
RowsBelongTogether(tables) ==
  /\ \A r \in tables.compatibility : r.id[2] = r.fingerprints
  /\ \A c \in tables.candidates : c.id[4] = c.grade
  /\ \A s \in tables.snapshots, c \in tables.candidates :
       s.candidate = c.id =>
         s.graph = c.facts /\ s.created = c.created /\ (s.tier = "scope" => c.subgraphs)
  /\ \A a \in tables.active, s \in tables.snapshots :
       a.snapshot = s.snapshot => a.tier = s.tier /\ a.grade = s.candidate[4]
  /\ \A s \in tables.snapshots : \E a \in tables.active : s.snapshot <= a.snapshot

Consistent(tables) == KeysHold(tables) /\ RowsBelongTogether(tables)

\* Only the writer is in a transaction, and there is nothing left of the last one.
OneWriter ==
  /\ \A h \in Handles : pc[h] \in InTransaction <=> writer = h
  /\ writer = NoHandle => work = NoTables

\* What a transaction publishes is a candidate, one with subgraphs if a Scope
\* graph is still to come.
JobAdmitted(h) ==
  pc[h] \in InTransaction =>
    /\ job[h].candidate \in Candidates
    /\ "scope" \in job[h].tiers => job[h].candidate.subgraphs

\* The row it finds in place of that candidate has the same facts, and its
\* subgraphs.
CandidateInPlace(h) ==
  pc[h] = "graphs" =>
    \A r \in work.candidates :
      r.id = CandidateId(job[h].candidate) =>
        /\ r.facts = job[h].candidate.facts
        /\ job[h].candidate.subgraphs => r.subgraphs

\* The snapshots of the tiers a publication has not come to are still active.
TiersUntouched(h) ==
  pc[h] \in {"compatibility", "candidate", "graphs"} =>
    \A s \in work.snapshots :
      s.tier \in job[h].tiers => \E a \in work.active : a.snapshot = s.snapshot

\* A transaction gives new row ids only, and leaves one at least as large as the
\* largest before.
RowidsGrow ==
  writer # NoHandle =>
    /\ \A s \in work.snapshots :
         s \in db.snapshots \/ \A r \in db.snapshots : r.snapshot < s.snapshot
    /\ \A r \in db.snapshots : \E s \in work.snapshots : r.snapshot <= s.snapshot

Transaction(h) ==
  /\ CandidateInPlace(h)
  /\ TiersUntouched(h)
  /\ pc[h] = "commit" => Collected(work)

\* A reader's row is its own or gone, and its id is not to be given again.
ReaderPinned(h) ==
  pc[h] = "paging" /\ ~view[h].invalidated =>
    /\ \A s \in db.snapshots :
         s.snapshot = view[h].snapshot => s.graph = view[h].graph
    /\ \E s \in db.snapshots : view[h].snapshot <= s.snapshot

\* A command past its selection has a view.
ViewSelected(h) == pc[h] \in {"selected", "paging"} => view[h] \in View

StoreTyped == TypeOK /\ \A h \in Handles : JobAdmitted(h) /\ ViewSelected(h)

StoreInv ==
  /\ Consistent(db) /\ Consistent(work)
  /\ Collected(db)
  /\ OneWriter
  /\ RowidsGrow
  /\ \A h \in Handles : Transaction(h) /\ ReaderPinned(h)

\* What a transaction has done so far, seen from the slots: each one is as it was
\* or holds the graph of this candidate in its class, none has been emptied, and
\* the candidate has the facts of the committed row with its id.
OwnSlot(h, a) ==
  /\ a.grade = job[h].candidate.grade
  /\ \E s \in work.snapshots :
       /\ s.snapshot = a.snapshot
       /\ s.candidate = CandidateId(job[h].candidate)
       /\ s.graph = job[h].candidate.facts

PublishedSoFar(h) ==
  /\ pc[h] \in {"compatibility", "candidate"} =>
       work.candidates = db.candidates /\ work.active = db.active
  /\ pc[h] \in InTransaction \ {"compatibility", "candidate"} =>
       \A r \in db.candidates :
         r.id = CandidateId(job[h].candidate) => r.facts = job[h].candidate.facts
  /\ pc[h] \in InTransaction =>
       /\ \A a \in work.active : a \in db.active \/ OwnSlot(h, a)
       /\ \A a \in db.active :
            \E b \in work.active : b.tier = a.tier /\ b.grade = a.grade

SlotsFollow == \A h \in Handles : PublishedSoFar(h)
=============================================================================
