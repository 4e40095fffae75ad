---------------------------- MODULE SourceIndex ----------------------------
(***************************************************************************)
(* The commands of the CLI over a source tree that is being edited         *)
(* (cli/src/execution/lifecycle.rs, cli/src/refresh): a command selects    *)
(* the active snapshot, decides whether it is current, and otherwise       *)
(* prepares a candidate, revalidates it against the tree, publishes it and *)
(* answers from what is then active.  Nothing locks the tree: every file   *)
(* is listed, read and re-read at a moment of its own.                     *)
(*                                                                         *)
(* One resolver tier; a slot per completeness class stands for the cache,  *)
(* whose transactions module CacheStore checks.  The graph of a snapshot   *)
(* is determined by the facts of its files and is left out.                *)
(***************************************************************************)
EXTENDS Integers, FiniteSets

CONSTANTS
  Files,        \* paths an extractor exists for
  Contents,     \* what a file may contain
  NatureOf,     \* what discovery and extraction make of each content
  Rules,        \* query-binding rules a code2graph.toml may state
  Procs,        \* processes that run commands
  Commands,     \* the commands they may run
  StampsTell,   \* every edit of a file changes its size, mtime or inode
  Absent,       \* no file at a path
  None,         \* no snapshot
  MaxAttempts,  \* MAX_REFRESH_ATTEMPTS
  MaxEdits,     \* bound: edits of the tree, the manifest and the rules
  MaxCommands   \* bound: commands started

Natures == {"extracts", "fails", "invalid", "binary", "oversized"}
Grades == {"complete", "partial"}

ASSUME IndexAssumption ==
  /\ NatureOf \in [Contents -> Natures]
  /\ StampsTell \in BOOLEAN
  /\ MaxAttempts \in Nat \ {0} /\ MaxEdits \in Nat /\ MaxCommands \in Nat
  /\ \A c \in Commands :
       /\ DOMAIN c = {"kind", "force", "trust", "partial", "stale"}
       /\ c.kind \in {"index", "query"}
       /\ {c.force, c.trust, c.partial, c.stale} \subseteq BOOLEAN
  /\ IsFiniteSet(Files)
  /\ None \notin Commands
  /\ Absent \notin [content : Contents, stamp : Nat] \cup [stamp : Nat, big : BOOLEAN]

VARIABLES
  tree,       \* the source files: content and stamp (size, mtime, inode)
  manifest,   \* the state of the package manifests
  rules,      \* the query-binding rules of the project
  edits,      \* edits so far, counted up to MaxEdits
  slot,       \* the active snapshot of each completeness class
  started,    \* commands so far, counted up to MaxCommands
  pc,         \* where each command is
  cmd,        \* the command each process runs
  seen,       \* the active snapshot its currency check looks at
  todo,       \* files the loop it is in has not come to
  listing,    \* what its last discovery found
  prior,      \* the snapshot its refresh may reuse facts of
  binding,    \* the rules its refresh loaded
  packages,   \* the manifests its preparation read
  got,        \* what preparation read of each file
  candidate,  \* the candidate it has prepared
  attempt,    \* attempts to publish, 1 .. MaxAttempts
  drift,      \* attempts to prepare, 1 .. MaxAttempts
  past,       \* history: the worlds since its command began
  answer      \* what its last command answered

world == <<tree, manifest, rules, edits>>
local == <<cmd, seen, todo, listing, prior, binding, packages, got, candidate,
           attempt, drift>>
vars == <<world, slot, started, pc, local, past, answer>>

Nature(f) == NatureOf[tree[f].content]

\* What a directory walk tells of a file: its stamp, and by its size whether the
\* metadata budgets admit it.
Entry(f) ==
  IF tree[f] = Absent THEN Absent
  ELSE [stamp |-> tree[f].stamp, big |-> Nature(f) = "oversized"]

Listed(p) == {f \in Files : listing[p][f] # Absent}
Oversized(p) == {f \in Listed(p) : listing[p][f].big}
Sources(p) == Listed(p) \ Oversized(p)

Omission(f, reason) == [file |-> f, reason |-> reason]
BudgetOmissions(p) == {Omission(f, "too-large") : f \in Oversized(p)}

Omitted(c) == {o.file : o \in c.omissions}
Grade(c) == IF c.omissions = {} THEN "complete" ELSE "partial"

\* The sources a candidate was prepared from: all but those over a budget.
Retained(c) == DOMAIN c.files \cup {o.file : o \in {x \in c.omissions : x.reason # "too-large"}}

\* The compatibility fingerprint: the inputs of the manifests, in their `state`, and
\* an assignment record for each path the budgets retain, so the set of these paths.
SameAssignments(p, c, state) == Retained(c) = Sources(p)
IsCompatible(p, c, state) == c.manifest = state /\ Retained(c) = Sources(p)

\* Digest of compatibility, inputs, completeness and omissions, not of facts; the
\* retained paths follow from these.
Id(c) == <<c.manifest, {<<f, c.files[f].content>> : f \in DOMAIN c.files}, c.omissions>>

Goto(p, label) == pc' = [pc EXCEPT ![p] = label]
Walk(p, label) == Goto(p, label) /\ todo' = [todo EXCEPT ![p] = Files]

NoFiles == [f \in {} |-> None]
Nowhere == [f \in Files |-> Absent]
Moment == [tree |-> tree, manifest |-> manifest, rules |-> rules]
NoAnswer == [label |-> "none", served |-> None, by |-> None, edits |-> 0]

Init ==
  /\ tree \in [Files -> {Absent} \cup {[content |-> c, stamp |-> 0] : c \in Contents}]
  /\ manifest = 0
  /\ rules \in Rules
  /\ edits = 0
  /\ slot = [g \in Grades |-> None]
  /\ started = 0
  /\ pc = [p \in Procs |-> "idle"]
  /\ cmd = [p \in Procs |-> None]
  /\ seen = [p \in Procs |-> None]
  /\ todo = [p \in Procs |-> {}]
  /\ listing = [p \in Procs |-> Nowhere]
  /\ prior = [p \in Procs |-> None]
  /\ binding = [p \in Procs |-> None]
  /\ packages = [p \in Procs |-> 0]
  /\ got = [p \in Procs |-> Nowhere]
  /\ candidate = [p \in Procs |-> None]
  /\ attempt = [p \in Procs |-> 1]
  /\ drift = [p \in Procs |-> 1]
  /\ past = [p \in Procs |-> {}]
  /\ answer = [p \in Procs |-> NoAnswer]

-----------------------------------------------------------------------------
\* The environment: editors, checkouts, generators.

Remember ==
  past' = [p \in Procs |-> IF pc[p] = "idle" THEN past[p] ELSE past[p] \cup {Moment'}]

\* Stamps and manifest states do not recur.  An edit that leaves the stamp alone
\* leaves the size alone too.
Edited(f) ==
  {Absent}
    \cup {[content |-> c, stamp |-> edits + 1] : c \in Contents}
    \cup (IF StampsTell \/ tree[f] = Absent THEN {}
          ELSE {[content |-> c, stamp |-> tree[f].stamp] :
                  c \in {d \in Contents : NatureOf[d] = "oversized" <=> Nature(f) = "oversized"}})

EditFile(f) ==
  /\ edits < MaxEdits
  /\ \E new \in Edited(f) \ {tree[f]} : tree' = [tree EXCEPT ![f] = new]
  /\ edits' = edits + 1
  /\ UNCHANGED <<manifest, rules>>
  /\ Remember
  /\ UNCHANGED <<slot, started, pc, local, answer>>

EditManifest ==
  /\ edits < MaxEdits
  /\ manifest' = edits + 1
  /\ edits' = edits + 1
  /\ UNCHANGED <<tree, rules>>
  /\ Remember
  /\ UNCHANGED <<slot, started, pc, local, answer>>

EditRules ==
  /\ edits < MaxEdits
  /\ \E r \in Rules \ {rules} : rules' = r
  /\ edits' = edits + 1
  /\ UNCHANGED <<tree, manifest>>
  /\ Remember
  /\ UNCHANGED <<slot, started, pc, local, answer>>

-----------------------------------------------------------------------------
\* A command selects what is active and decides whether it is current.

\* `active_metadata`: a complete snapshot first.
Active(partial) ==
  IF slot["complete"] # None \/ ~partial THEN slot["complete"] ELSE slot["partial"]

Start(p) ==
  /\ pc[p] = "idle"
  /\ started < MaxCommands
  /\ \E c \in Commands :
       /\ cmd' = [cmd EXCEPT ![p] = c]
       /\ IF Active(c.partial) = None \/ c.force
          THEN /\ Goto(p, "prior")
               /\ UNCHANGED <<seen, todo>>
          ELSE /\ seen' = [seen EXCEPT ![p] = Active(c.partial)]
               /\ Walk(p, "list")
  /\ started' = started + 1
  /\ past' = [past EXCEPT ![p] = {Moment}]
  /\ answer' = [answer EXCEPT ![p] = [NoAnswer EXCEPT !.edits = edits]]
  /\ UNCHANGED <<world, slot, listing, prior, binding, packages, got, candidate,
                 attempt, drift>>

\* Every walk of the tree, one file at a time in the order the directories give.
ListFile(p) ==
  /\ pc[p] \in {"list", "scan", "rescan"}
  /\ \E f \in todo[p] :
       /\ listing' = [listing EXCEPT ![p][f] = Entry(f)]
       /\ todo' = [todo EXCEPT ![p] = @ \ {f}]
  /\ UNCHANGED <<world, slot, started, pc, cmd, seen, prior, binding, packages, got,
                 candidate, attempt, drift, past, answer>>

\* Ends a command.  `answer` holds the edits at its beginning until then.
Finish(p, label, served) ==
  /\ Goto(p, "idle")
  /\ answer' = [answer EXCEPT ![p] = [label |-> label, served |-> served,
                                      by |-> cmd[p], edits |-> edits - @.edits]]
  /\ cmd' = [cmd EXCEPT ![p] = None]
  /\ seen' = [seen EXCEPT ![p] = None]
  /\ todo' = [todo EXCEPT ![p] = {}]
  /\ listing' = [listing EXCEPT ![p] = Nowhere]
  /\ prior' = [prior EXCEPT ![p] = None]
  /\ binding' = [binding EXCEPT ![p] = None]
  /\ packages' = [packages EXCEPT ![p] = 0]
  /\ got' = [got EXCEPT ![p] = Nowhere]
  /\ candidate' = [candidate EXCEPT ![p] = None]
  /\ attempt' = [attempt EXCEPT ![p] = 1]
  /\ drift' = [drift EXCEPT ![p] = 1]

\* A refresh that fails leaves a query the stale snapshot it was allowed.
Fail(p, label) ==
  LET stale == Active(cmd[p].partial) IN
  IF cmd[p].stale /\ cmd[p].kind = "query" /\ stale # None
  THEN Finish(p, "stale", stale)
  ELSE Finish(p, label, None)

\* The rows of the selected candidate, if nobody has replaced it meanwhile.
StoredFiles(c) ==
  LET rows == {slot[g] : g \in {h \in Grades : slot[h] # None /\ Id(slot[h]) = Id(c)}}
  IN  IF rows = {} THEN NoFiles ELSE (CHOOSE r \in rows : TRUE).files

\* What a listing must look like for the selected snapshot `c` to be reused,
\* bytes apart: the same compatibility, the same stamp for each cached file, an
\* omission recorded for every other source, and as many sources as the inventory
\* accounts for.
SameStamps(p, rows) ==
  \A f \in Sources(p) \cap DOMAIN rows : rows[f].stamp = listing[p][f].stamp
SameInventoryCount(p, c) ==
  Cardinality(Sources(p)) =
    Cardinality(DOMAIN c.files) + Cardinality(Omitted(c) \cap Sources(p))
LooksCurrent(p, c) ==
  /\ IsCompatible(p, c, manifest)
  /\ BudgetOmissions(p) \subseteq c.omissions
  /\ SameInventoryCount(p, c)
  /\ SameStamps(p, StoredFiles(c))
  /\ Sources(p) \subseteq DOMAIN StoredFiles(c) \cup Omitted(c)

\* `CurrencyCheck`: queries and `index --trust-mtime` take the stamps' word,
\* `index` reads the files whose facts are cached.
TrustsStamps(c) == FALSE
ChecksContent(c) == c.kind = "index" /\ ~c.trust

\* The rows it was compared with are the snapshot's from here on.
Compare(p) ==
  LET loaded == [seen[p] EXCEPT !.files = StoredFiles(seen[p])] IN
  /\ pc[p] = "list" /\ todo[p] = {}
  /\ IF ~LooksCurrent(p, seen[p])
     THEN /\ Goto(p, "prior")
          /\ UNCHANGED <<local, answer>>
     ELSE IF ChecksContent(cmd[p])
     THEN /\ Goto(p, "verify")
          /\ seen' = [seen EXCEPT ![p] = loaded]
          /\ todo' = [todo EXCEPT ![p] = Sources(p) \cap DOMAIN loaded.files]
          /\ UNCHANGED <<cmd, listing, prior, binding, packages, got, candidate,
                         attempt, drift, answer>>
     ELSE Finish(p, "fresh", loaded)
  /\ UNCHANGED <<world, slot, started, past>>

\* `materialize_candidate`: a bounded read that is void when the file is no
\* longer what the listing says.
Reading(p, f) ==
  IF tree[f] = Absent THEN "gone"
  ELSE IF Entry(f) # listing[p][f] THEN "changed"
  ELSE IF Nature(f) = "binary" THEN "binary" ELSE "file"

Verify(p) ==
  /\ pc[p] = "verify"
  /\ IF todo[p] = {} THEN Finish(p, "fresh", seen[p])
     ELSE \E f \in todo[p] :
       /\ IF Reading(p, f) = "file" /\ tree[f].content = seen[p].files[f].content
          THEN /\ todo' = [todo EXCEPT ![p] = @ \ {f}]
               /\ UNCHANGED pc
          ELSE /\ todo' = [todo EXCEPT ![p] = {}]
               /\ Goto(p, "prior")
       /\ UNCHANGED <<cmd, seen, listing, prior, binding, packages, got, candidate,
                      attempt, drift, answer>>
  /\ UNCHANGED <<world, slot, started, past>>

-----------------------------------------------------------------------------
\* A refresh prepares a candidate.

\* `refresh_prior`, for `index` only, and `load_query_binding_rules`.
BeginRefresh(p) ==
  /\ pc[p] = "prior"
  /\ prior' = [prior EXCEPT ![p] =
                 IF cmd[p].kind = "index" THEN Active(cmd[p].partial) ELSE None]
  /\ binding' = [binding EXCEPT ![p] = rules]
  /\ seen' = [seen EXCEPT ![p] = None]
  /\ Walk(p, "scan")
  /\ UNCHANGED <<world, slot, started, cmd, listing, packages, got, candidate,
                 attempt, drift, past, answer>>

\* A prior of another compatibility is of no use.
PriorFiles(p, state) ==
  IF prior[p] # None /\ IsCompatible(p, prior[p], state) THEN prior[p].files ELSE NoFiles

\* `metadata_decision`: with --trust-mtime an equal stamp is reason enough to
\* reuse the facts without reading the file.
Trusted(p, files) ==
  IF cmd[p].force \/ ~cmd[p].trust THEN {}
  ELSE {f \in Sources(p) \cap DOMAIN files : files[f].stamp = listing[p][f].stamp}

Plan(p) ==
  /\ pc[p] = "scan" /\ todo[p] = {}
  /\ packages' = [packages EXCEPT ![p] = manifest]
  /\ todo' = [todo EXCEPT ![p] = Sources(p) \ Trusted(p, PriorFiles(p, manifest))]
  /\ got' = [got EXCEPT ![p] = Nowhere]
  /\ Goto(p, "read")
  /\ UNCHANGED <<world, slot, started, cmd, seen, listing, prior, binding,
                 candidate, attempt, drift, past, answer>>

OneAttemptLess(n) == n < MaxAttempts - 1
HasAttempts(n) == n < MaxAttempts

\* `retry_drift`
PrepareAgain(p) ==
  IF HasAttempts(drift[p])
  THEN /\ drift' = [drift EXCEPT ![p] = @ + 1]
       /\ Walk(p, "scan")
       /\ UNCHANGED <<cmd, seen, listing, prior, binding, packages, got, candidate,
                      attempt, answer>>
  ELSE Fail(p, "drift")

\* A file that changed under the read is drift; one that is gone is not.
DriftedReading(p, f) == Reading(p, f) = "changed"

Read(p) ==
  /\ pc[p] = "read"
  /\ \E f \in todo[p] :
       IF DriftedReading(p, f) THEN PrepareAgain(p)
       ELSE /\ got' = [got EXCEPT ![p][f] =
                         IF Reading(p, f) = "gone" THEN [outcome |-> "gone"]
                         ELSE [outcome |-> Reading(p, f), content |-> tree[f].content]]
            /\ todo' = [todo EXCEPT ![p] = @ \ {f}]
            /\ UNCHANGED <<pc, cmd, seen, listing, prior, binding, packages,
                           candidate, attempt, drift, answer>>
  /\ UNCHANGED <<world, slot, started, past>>

\* `finalize_hashes` reuses facts whose content is proven equal; the extraction
\* pool answers for the rest.
Assembled(p) ==
  LET files == PriorFiles(p, packages[p])
      trusted == Trusted(p, files)
      read(outcome) == {f \in Sources(p) \ trusted : got[p][f].outcome = outcome}
      proven == {f \in read("file") \cap DOMAIN files :
                   ~cmd[p].force /\ files[f].content = got[p][f].content}
      extracted(nature) ==
        {f \in read("file") \ proven : NatureOf[got[p][f].content] = nature}
      row(f) ==
        IF f \in trusted \cup proven
        THEN [files[f] EXCEPT !.stamp = listing[p][f].stamp]
        ELSE [content |-> got[p][f].content, stamp |-> listing[p][f].stamp,
              facts |-> <<got[p][f].content, binding[p]>>]
  IN [manifest |-> packages[p],
      files |-> [f \in trusted \cup proven \cup extracted("extracts") |-> row(f)],
      omissions |->
        BudgetOmissions(p)
          \cup {Omission(f, "read-error") : f \in read("gone")}
          \cup {Omission(f, "invalid-utf8") : f \in read("binary")}
          \cup {Omission(f, "extraction-error") : f \in extracted("fails")}
          \cup {Omission(f, "post-enrichment-validation") : f \in extracted("invalid")}]

Assemble(p) ==
  /\ pc[p] = "read" /\ todo[p] = {}
  /\ IF Assembled(p).omissions # {} /\ ~cmd[p].partial THEN Fail(p, "partial")
     ELSE /\ candidate' = [candidate EXCEPT ![p] = Assembled(p)]
          /\ Walk(p, "rescan")
          /\ UNCHANGED <<cmd, seen, listing, prior, binding, packages, got, attempt,
                         drift, answer>>
  /\ UNCHANGED <<world, slot, started, past>>

-----------------------------------------------------------------------------
\* ... revalidates it ...

StaysAtAttempt(n) == n
NextAttempt(n) == n + 1

RefreshAgain(p) ==
  IF HasAttempts(attempt[p])
  THEN /\ attempt' = [attempt EXCEPT ![p] = NextAttempt(@)]
       /\ drift' = [drift EXCEPT ![p] = 1]
       /\ candidate' = [candidate EXCEPT ![p] = None]
       /\ Walk(p, "scan")
       /\ UNCHANGED <<cmd, seen, listing, prior, binding, packages, got, answer>>
  ELSE Fail(p, "drift")

\* Every source is accounted for, and every omission is still explained.
SourcesAccountedFor(p, c) ==
  /\ Sources(p) \subseteq DOMAIN c.files \cup Omitted(c)
  /\ \A o \in c.omissions : o.file \in Sources(p) \/ o \in BudgetOmissions(p)
  /\ BudgetOmissions(p) \subseteq c.omissions

Recheck(p) ==
  /\ pc[p] = "rescan" /\ todo[p] = {}
  /\ IF SourcesAccountedFor(p, candidate[p])
     THEN /\ Goto(p, "recheck")
          /\ todo' = [todo EXCEPT ![p] =
               DOMAIN candidate[p].files \cup (Omitted(candidate[p]) \cap Sources(p))]
          /\ UNCHANGED <<cmd, seen, listing, prior, binding, packages, got, candidate,
                         attempt, drift, answer>>
     ELSE RefreshAgain(p)
  /\ UNCHANGED <<world, slot, started, past>>

\* `matches_record` reads the file and hashes it; a listed omission is made
\* again, and one of extraction stands as long as extraction fails.
TakesTheStampsWord(p, f, row) == listing[p][f].stamp = row.stamp
MatchesRecord(p, f, row) ==
  /\ Reading(p, f) = "file"
  /\ tree[f].stamp = row.stamp
  /\ tree[f].content = row.content
SameOmission(p, f, reason) ==
  \/ reason = "invalid-utf8" /\ Reading(p, f) = "binary"
  \/ reason = "read-error" /\ Reading(p, f) = "gone"
  \/ reason = "extraction-error" /\ Reading(p, f) = "file" /\ Nature(f) = "fails"

StillHolds(p, f) ==
  IF f \in DOMAIN candidate[p].files
  THEN f \in Sources(p) /\ MatchesRecord(p, f, candidate[p].files[f])
  ELSE \E o \in candidate[p].omissions : o.file = f /\ SameOmission(p, f, o.reason)

RecheckFile(p) ==
  /\ pc[p] = "recheck"
  /\ \E f \in todo[p] :
       IF StillHolds(p, f)
       THEN /\ todo' = [todo EXCEPT ![p] = @ \ {f}]
            /\ UNCHANGED <<pc, cmd, seen, listing, prior, binding, packages, got,
                           candidate, attempt, drift, answer>>
       ELSE RefreshAgain(p)
  /\ UNCHANGED <<world, slot, started, past>>

RecheckManifest(p) ==
  /\ pc[p] = "recheck" /\ todo[p] = {}
  /\ IF IsCompatible(p, candidate[p], manifest)
     THEN Goto(p, "publish") /\ UNCHANGED <<local, answer>>
     ELSE RefreshAgain(p)
  /\ UNCHANGED <<world, slot, started, past>>

-----------------------------------------------------------------------------
\* ... publishes it, and answers.

\* An active candidate of the same id must hold the same facts.
Conflicts(c) ==
  \E g \in Grades :
    /\ slot[g] # None /\ Id(slot[g]) = Id(c)
    /\ \E f \in DOMAIN c.files : slot[g].files[f].facts # c.files[f].facts

PublishesAsComplete(c) == "complete"
SlotFor(c) == Grade(c)

Publish(p) ==
  /\ pc[p] = "publish"
  /\ IF Conflicts(candidate[p])
     THEN Fail(p, "conflict") /\ UNCHANGED slot
     ELSE /\ slot' = [slot EXCEPT ![SlotFor(candidate[p])] = candidate[p]]
          /\ Goto(p, "published")
          /\ UNCHANGED <<local, answer>>
  /\ UNCHANGED <<world, started, past>>

\* `index` reports the candidate it published; a query selects again.
Answer(p) ==
  /\ pc[p] = "published"
  /\ IF cmd[p].kind = "index" THEN Finish(p, "fresh", candidate[p])
     ELSE IF Active(cmd[p].partial) # None
     THEN Finish(p, "fresh", Active(cmd[p].partial))
     ELSE Finish(p, "not active", None)
  /\ UNCHANGED <<world, slot, started, past>>

\* The deadline passes, the user cancels, the worker pool or SQLite fails.  Even
\* a published refresh ends this way, and a query that may answer from a stale
\* snapshot does so unless the deadline has passed.
GiveUp(p) ==
  /\ pc[p] # "idle"
  /\ \/ Finish(p, "failed", None)
     \/ pc[p] \notin {"list", "verify"} /\ Fail(p, "failed")
  /\ UNCHANGED <<world, slot, started, past>>

\* Another process finds the cache unusable and invalidates it.
Discard ==
  /\ \E g \in Grades : slot[g] # None
  /\ slot' = [g \in Grades |-> None]
  /\ UNCHANGED <<world, started, pc, local, past, answer>>

Edit == EditManifest \/ EditRules \/ \E f \in Files : EditFile(f)

Step(p) ==
  \/ ListFile(p) \/ Compare(p) \/ Verify(p)
  \/ BeginRefresh(p) \/ Plan(p) \/ Read(p) \/ Assemble(p)
  \/ Recheck(p) \/ RecheckFile(p) \/ RecheckManifest(p)
  \/ Publish(p) \/ Answer(p)

\* No command is left and no edit.
Exhausted ==
  /\ started = MaxCommands
  /\ \A p \in Procs : pc[p] = "idle"
  /\ UNCHANGED vars

Next ==
  \/ Edit
  \/ Discard
  \/ \E p \in Procs : Start(p) \/ Step(p) \/ GiveUp(p)
  \/ Exhausted

\* A process that runs a command goes on running it: it is one sequential
\* program that waits for no other.
Fairness == \A p \in Procs : WF_vars(Step(p))

Spec == Init /\ [][Next]_vars
FairSpec == Spec /\ Fairness

-----------------------------------------------------------------------------
\* Properties.

Facts == Contents \X Rules
Row == [content : Contents, stamp : 0 .. MaxEdits, facts : Facts]
Reasons == {"too-large", "read-error", "invalid-utf8", "extraction-error",
            "post-enrichment-validation"}
IsSnapshot(c) ==
  /\ c.manifest \in 0 .. MaxEdits
  /\ DOMAIN c.files \subseteq Files
  /\ \A f \in DOMAIN c.files : c.files[f] \in Row
  /\ c.omissions \subseteq [file : Files, reason : Reasons]
  /\ Omitted(c) \cap DOMAIN c.files = {}

\* A snapshot is in the slot of its own class: a complete slot has no omissions,
\* so a query without --allow-partial is never served any.
TypeOK ==
  /\ tree \in [Files -> {Absent} \cup [content : Contents, stamp : 0 .. MaxEdits]]
  /\ \A g \in Grades :
       slot[g] # None => IsSnapshot(slot[g]) /\ Grade(slot[g]) = g
  /\ \A p \in Procs :
       /\ cmd[p] \in Commands \cup {None}
       /\ pc[p] = "idle" <=> cmd[p] = None
       /\ todo[p] \subseteq Files
       /\ candidate[p] # None => IsSnapshot(candidate[p])
       /\ attempt[p] \in 1 .. MaxAttempts /\ drift[p] \in 1 .. MaxAttempts

\* A snapshot is vouched for by some moments: at one of them the manifests were
\* the same and each of its files had the stamp recorded, and every other file was
\* at one of them absent, or there if it is recorded as omitted.
VouchedFor(c, moments) ==
  /\ \E m \in moments :
       /\ c.manifest = m.manifest
       /\ \A f \in DOMAIN c.files :
            m.tree[f] # Absent /\ m.tree[f].stamp = c.files[f].stamp
  /\ \A f \in Files \ DOMAIN c.files :
       \E m \in moments : m.tree[f] = Absent \/ f \in Omitted(c)

\* ... and its contents, when each file at one of them held the bytes its facts
\* were extracted from.
ContentsSeen(c, moments) ==
  \A f \in DOMAIN c.files :
    \E m \in moments : m.tree[f] # Absent /\ m.tree[f].content = c.files[f].content

\* Although a preparation lists, reads, re-lists and re-reads the files one by
\* one while they change, the files of what is published had their stamps at one
\* moment of the command, never in a mixture of two states of the tree, no source
\* is missing, the bytes were seen, also under stamps that lie, and what is
\* omitted was there.
PublishedTreeExisted ==
  \A p \in Procs :
    pc[p] = "publish" =>
      /\ VouchedFor(candidate[p], past[p])
      /\ ContentsSeen(candidate[p], past[p])
      /\ \A f \in Omitted(candidate[p]) : \E m \in past[p] : m.tree[f] # Absent

\* An answer called fresh comes from a snapshot that the command itself could
\* vouch for, and "`index` is the explicit correctness command": without
\* --trust-mtime it has seen the bytes of every file, although edits keep their
\* stamps and other processes replace the rows its check reads.
FreshMeansCurrent ==
  \A p \in Procs :
    answer[p].label = "fresh" =>
      /\ VouchedFor(answer[p].served, past[p])
      /\ answer[p].by.kind = "index" /\ ~answer[p].by.trust =>
           ContentsSeen(answer[p].served, past[p])

\* "continued to drift": the tree is blamed only if it changed during each of the
\* attempts.  (--trust-mtime is excepted: it reuses facts by stamps which
\* revalidation does not take.)
DriftBlamesTheTree ==
  \A p \in Procs :
    answer[p].label = "drift" /\ ~answer[p].by.trust => answer[p].edits >= MaxAttempts

\* Every command ends, whatever the files hold and however often they change.
EveryCommandEnds == \A p \in Procs : pc[p] # "idle" ~> pc[p] = "idle"

-----------------------------------------------------------------------------
\* The inductive invariant behind these properties.

Labels == {"idle", "list", "verify", "prior", "scan", "read", "rescan", "recheck",
           "publish", "published"}
Prepared == {"rescan", "recheck", "publish", "published"}
Gotten == {[outcome |-> "gone"]}
            \cup [outcome : {"file", "binary"}, content : Contents]

AnyRow == [content : Contents, stamp : Nat, facts : Facts]
Snapshot(c) ==
  /\ c = [manifest |-> c.manifest, files |-> c.files, omissions |-> c.omissions]
  /\ c.manifest \in Nat
  /\ DOMAIN c.files \subseteq Files
  /\ \A f \in DOMAIN c.files : c.files[f] \in AnyRow
  /\ c.omissions \subseteq [file : Files, reason : Reasons]
  /\ Omitted(c) \cap DOMAIN c.files = {}

\* A snapshot, or a moment, from which nothing is younger than the n-th edit.
Dated(c, n) == c.manifest <= n /\ \A f \in DOMAIN c.files : c.files[f].stamp <= n
Before(m, n) ==
  /\ m.manifest \in 0 .. n
  /\ \A f \in Files : m.tree[f] # Absent => m.tree[f].stamp \in 0 .. n

\* The files a preparation has to read.
ToRead(p) == Sources(p) \ Trusted(p, PriorFiles(p, packages[p]))

WorldTyped ==
  /\ edits \in 0 .. MaxEdits /\ manifest \in 0 .. edits /\ rules \in Rules
  /\ tree \in [Files -> {Absent} \cup [content : Contents, stamp : 0 .. edits]]

SlotsTyped ==
  /\ DOMAIN slot = Grades
  /\ \A g \in Grades : slot[g] # None =>
       Snapshot(slot[g]) /\ Dated(slot[g], edits) /\ Grade(slot[g]) = g

OfProcesses ==
  /\ DOMAIN pc = Procs /\ DOMAIN cmd = Procs /\ DOMAIN seen = Procs
  /\ DOMAIN todo = Procs /\ DOMAIN listing = Procs /\ DOMAIN prior = Procs
  /\ DOMAIN binding = Procs /\ DOMAIN packages = Procs /\ DOMAIN got = Procs
  /\ DOMAIN candidate = Procs /\ DOMAIN attempt = Procs /\ DOMAIN drift = Procs
  /\ DOMAIN past = Procs /\ DOMAIN answer = Procs

CommandTyped(p) ==
  /\ pc[p] \in Labels /\ cmd[p] \in Commands \cup {None}
  /\ pc[p] = "idle" <=> cmd[p] = None
  /\ todo[p] \in SUBSET Files
  /\ listing[p] \in [Files -> {Absent} \cup [stamp : 0 .. edits, big : BOOLEAN]]
  /\ attempt[p] \in 1 .. MaxAttempts /\ drift[p] \in 1 .. MaxAttempts
  /\ packages[p] \in 0 .. edits
  /\ got[p] \in [Files -> {Absent} \cup Gotten]
  /\ prior[p] # None => Snapshot(prior[p])
  /\ pc[p] \in {"list", "verify"} => Snapshot(seen[p])
  /\ pc[p] \in {"scan", "read"} \cup Prepared => binding[p] \in Rules
  /\ pc[p] = "read" => todo[p] \subseteq ToRead(p)
                       /\ \A f \in ToRead(p) \ todo[p] : got[p][f] \in Gotten
  /\ IF pc[p] \in Prepared THEN Snapshot(candidate[p]) /\ Dated(candidate[p], edits)
     ELSE candidate[p] = None
  /\ IF pc[p] = "idle" THEN listing[p] = Nowhere /\ attempt[p] = 1 /\ drift[p] = 1
     ELSE answer[p].label = "none" /\ answer[p].edits \in 0 .. edits

IndexTyped ==
  WorldTyped /\ SlotsTyped /\ OfProcesses /\ \A p \in Procs : CommandTyped(p)

\* What the world still has from before the n-th edit, it had at moment m: stamps
\* and manifest states do not recur.
Since(m, n) ==
  /\ manifest <= n => m.manifest = manifest
  /\ \A f \in Files : tree[f] # Absent /\ tree[f].stamp <= n =>
       m.tree[f] # Absent /\ m.tree[f].stamp = tree[f].stamp

\* At moment m the files of c had the stamps c records, and the manifests its state.
StampedAs(c, m) ==
  /\ c.manifest = m.manifest
  /\ \A f \in DOMAIN c.files : m.tree[f] # Absent /\ m.tree[f].stamp = c.files[f].stamp

\* `answer[p].edits` tells when a running command began: the moments it remembers
\* are later than that, one of them is that moment, and what its walks found with
\* an older stamp was there then.
Remembers(p) ==
  pc[p] # "idle" =>
    /\ Moment \in past[p]
    /\ \A m \in past[p] : Before(m, edits)
    /\ \E m \in past[p] :
         /\ Since(m, answer[p].edits)
         /\ \A f \in Files :
              listing[p][f] # Absent /\ listing[p][f].stamp <= answer[p].edits =>
                m.tree[f] # Absent /\ m.tree[f].stamp = listing[p][f].stamp

\* What one command remembers and another does not was before the other began.
Overlap ==
  \A p, q \in Procs : pc[p] # "idle" /\ pc[q] # "idle" =>
    \A m \in past[q] : m \in past[p] \/ Before(m, answer[p].edits)

\* A snapshot in a slot is older than a running command, or was published during it
\* and had its stamps at a moment the command remembers.
SlotsExisted ==
  \A g \in Grades, p \in Procs : slot[g] # None /\ pc[p] # "idle" =>
    Dated(slot[g], answer[p].edits) \/ \E m \in past[p] : StampedAs(slot[g], m)

\* What a walk has found, or not found, was so at some moment.
WalkDone(p, f) == pc[p] \in {"list", "scan", "rescan"} => f \notin todo[p]
ListingSeen(p) ==
  pc[p] # "idle" => \A f \in Files :
    /\ listing[p][f] # Absent => \E m \in past[p] : m.tree[f] # Absent
    /\ pc[p] # "prior" /\ WalkDone(p, f) /\ listing[p][f] = Absent =>
         \E m \in past[p] : m.tree[f] = Absent

RowSeen(c, f, moments) ==
  \E m \in moments : m.tree[f] # Absent /\ m.tree[f].content = c.files[f].content

\* A candidate was assembled at a moment from which revalidation finds its stamps.
CandidateSeen(p) ==
  LET c == candidate[p] IN
  /\ pc[p] \in Prepared =>
       /\ c.omissions # {} => cmd[p].partial
       /\ \A f \in Omitted(c) : \E m \in past[p] : m.tree[f] # Absent
  /\ pc[p] \in {"rescan", "recheck"} =>
       \E m \in past[p], n \in 0 .. edits :
         /\ Since(m, n) /\ Dated(c, n)
         /\ pc[p] = "recheck" => \A f \in DOMAIN c.files \ todo[p] :
              m.tree[f] # Absent /\ m.tree[f].stamp = c.files[f].stamp
  /\ pc[p] = "recheck" =>
       /\ \A f \in DOMAIN c.files \ todo[p] : RowSeen(c, f, past[p])
       /\ \A f \in Files \ (DOMAIN c.files \cup Omitted(c)) :
            \E m \in past[p] : m.tree[f] = Absent
  /\ pc[p] \in {"publish", "published"} =>
       VouchedFor(c, past[p]) /\ ContentsSeen(c, past[p])

\* A snapshot whose bytes are compared has passed the comparison of the stamps.
SelectionSeen(p) ==
  pc[p] = "verify" =>
    /\ VouchedFor(seen[p], past[p])
    /\ \A f \in DOMAIN seen[p].files \ todo[p] : RowSeen(seen[p], f, past[p])

IndexInv ==
  /\ Overlap /\ SlotsExisted
  /\ \A p \in Procs :
       Remembers(p) /\ ListingSeen(p) /\ CandidateSeen(p) /\ SelectionSeen(p)

\* A query is answered from what is active after its own publication.  That is what
\* it published if no other process publishes beside it and it does not prefer a
\* complete snapshot to its partial one.
QueriesStand ==
  \/ \A c \in Commands : c.kind = "index"
  \/ /\ \A p, q \in Procs : p = q
     /\ \A c \in Commands : c.kind = "query" => ~c.partial

Stands(p) ==
  pc[p] = "published" /\ cmd[p].kind = "query" =>
    slot["complete"] = None \/ slot["complete"] = candidate[p]

\* The tree agrees with a candidate that was made of it and has not changed since.
Agrees(c) ==
  /\ c.manifest = manifest
  /\ \A f \in DOMAIN c.files :
       /\ tree[f] # Absent /\ Nature(f) \notin {"oversized", "binary"}
       /\ tree[f].stamp = c.files[f].stamp /\ tree[f].content = c.files[f].content
  /\ \A o \in c.omissions :
       /\ tree[o.file] # Absent
       /\ <<o.reason, Nature(o.file)>> \in {<<"too-large", "oversized">>,
            <<"invalid-utf8", "binary">>, <<"extraction-error", "fails">>}
  /\ \A f \in Files \ DOMAIN c.files : tree[f] # Absent =>
       /\ f \in Omitted(c)
       /\ Nature(f) = "oversized" => Omission(f, "too-large") \in c.omissions

\* Nothing a refresh has seen in this attempt has changed.
Undisturbed(p) ==
  /\ \A f \in Files : (pc[p] \in {"scan", "rescan"} /\ f \notin todo[p])
                      \/ pc[p] \in {"read", "recheck"} => listing[p][f] = Entry(f)
  /\ pc[p] = "read" =>
       /\ packages[p] = manifest
       /\ \A f \in ToRead(p) \ todo[p] :
            got[p][f] = [outcome |-> Reading(p, f), content |-> tree[f].content]
  /\ pc[p] \in {"rescan", "recheck"} => Agrees(candidate[p])
  /\ pc[p] = "recheck" =>
       todo[p] \subseteq DOMAIN candidate[p].files \cup (Omitted(candidate[p]) \cap Sources(p))

\* Each attempt so far has its own edit, and the present one too unless it is
\* undisturbed.
AttemptsCost(p) ==
  pc[p] # "idle" /\ ~cmd[p].trust =>
    LET failed == (attempt[p] - 1) + (drift[p] - 1) IN
    /\ edits - answer[p].edits >= failed
    /\ edits - answer[p].edits = failed => Undisturbed(p)
=============================================================================
