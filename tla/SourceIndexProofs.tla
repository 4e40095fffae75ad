------------------------- MODULE SourceIndexProofs -------------------------
(***************************************************************************)
(* Proofs about SourceIndex, for any tree, contents, rules, processes and  *)
(* commands, and any number of edits.                                      *)
(***************************************************************************)
EXTENDS SourceIndex, TLAPS

-----------------------------------------------------------------------------
\* A step of one command leaves the others alone.

SameCommand(q) ==
  /\ pc'[q] = pc[q] /\ cmd'[q] = cmd[q] /\ seen'[q] = seen[q] /\ todo'[q] = todo[q]
  /\ listing'[q] = listing[q] /\ prior'[q] = prior[q] /\ binding'[q] = binding[q]
  /\ packages'[q] = packages[q] /\ got'[q] = got[q] /\ candidate'[q] = candidate[q]
  /\ attempt'[q] = attempt[q] /\ drift'[q] = drift[q] /\ answer'[q] = answer[q]
Alone(p) ==
  OfProcesses' /\ \A q \in Procs \ {p} : SameCommand(q) /\ past'[q] = past[q]

LEMMA FinishAlone ==
  ASSUME OfProcesses, NEW p \in Procs, NEW l, NEW s, Finish(p, l, s), UNCHANGED past
  PROVE  Alone(p)
BY DEF Finish, Goto, Alone, OfProcesses, SameCommand

LEMMA FailAlone ==
  ASSUME OfProcesses, NEW p \in Procs, NEW l, Fail(p, l), UNCHANGED past
  PROVE  Alone(p)
BY FinishAlone DEF Fail

LEMMA AgainAlone ==
  ASSUME OfProcesses, NEW p \in Procs, PrepareAgain(p) \/ RefreshAgain(p), UNCHANGED past
  PROVE  Alone(p)
BY FailAlone DEF PrepareAgain, RefreshAgain, Walk, Goto, Alone, OfProcesses, SameCommand

LEMMA StepAlone ==
  ASSUME OfProcesses, NEW p \in Procs, Start(p) \/ Step(p) \/ GiveUp(p)
  PROVE  Alone(p)
<1> USE DEF Alone, OfProcesses, SameCommand, Walk, Goto, local
<1>1. CASE Start(p)
  BY <1>1 DEF Start
<1>2. CASE ListFile(p)
  BY <1>2 DEF ListFile
<1>3. CASE Compare(p)
  BY <1>3, FinishAlone DEF Compare
<1>4. CASE Verify(p)
  BY <1>4, FinishAlone DEF Verify
<1>5. CASE BeginRefresh(p)
  BY <1>5 DEF BeginRefresh
<1>6. CASE Plan(p)
  BY <1>6 DEF Plan
<1>7. CASE Read(p)
  BY <1>7, AgainAlone DEF Read
<1>8. CASE Assemble(p)
  BY <1>8, FailAlone DEF Assemble
<1>9. CASE Recheck(p)
  BY <1>9, AgainAlone DEF Recheck
<1>10. CASE RecheckFile(p)
  BY <1>10, AgainAlone DEF RecheckFile
<1>11. CASE RecheckManifest(p)
  BY <1>11, AgainAlone DEF RecheckManifest
<1>12. CASE Publish(p)
  BY <1>12, FailAlone DEF Publish
<1>13. CASE Answer(p)
  BY <1>13, FinishAlone DEF Answer
<1>14. CASE GiveUp(p)
  BY <1>14, FinishAlone, FailAlone DEF GiveUp
<1> QED
  BY <1>1, <1>2, <1>3, <1>4, <1>5, <1>6, <1>7, <1>8, <1>9, <1>10, <1>11, <1>12,
     <1>13, <1>14 DEF Step

\* What a finished command leaves behind.
LEMMA FinishEnds ==
  ASSUME OfProcesses, NEW p \in Procs, NEW l, NEW s, Finish(p, l, s)
  PROVE  /\ pc'[p] = "idle" /\ cmd'[p] = None /\ todo'[p] = {} /\ listing'[p] = Nowhere
         /\ prior'[p] = None /\ packages'[p] = 0 /\ got'[p] = Nowhere
         /\ candidate'[p] = None /\ attempt'[p] = 1 /\ drift'[p] = 1
         /\ answer'[p] = [label |-> l, served |-> s, by |-> cmd[p],
                          edits |-> edits - answer[p].edits]
BY DEF Finish, Goto, OfProcesses

LEMMA FinishAnswers ==
  ASSUME OfProcesses, NEW p \in Procs, NEW l, NEW s, Finish(p, l, s)
  PROVE  /\ answer'[p].label = l /\ answer'[p].served = s /\ answer'[p].by = cmd[p]
         /\ answer'[p].edits = edits - answer[p].edits /\ pc'[p] = "idle"
<1>1. answer'[p] = [label |-> l, served |-> s, by |-> cmd[p], edits |-> edits - answer[p].edits]
      /\ pc'[p] = "idle"
  BY FinishEnds
<1> QED
  BY <1>1

\* What the walks of a command have found is told by its listing, what it has to
\* read by its prior as well.
LEMMA SameSources ==
  ASSUME NEW p, listing'[p] = listing[p]
  PROVE  /\ Listed(p)' = Listed(p) /\ Oversized(p)' = Oversized(p)
         /\ Sources(p)' = Sources(p) /\ BudgetOmissions(p)' = BudgetOmissions(p)
BY DEF Listed, Oversized, Sources, BudgetOmissions

LEMMA SameToRead ==
  ASSUME NEW p, listing'[p] = listing[p], cmd'[p] = cmd[p], prior'[p] = prior[p],
         packages'[p] = packages[p]
  PROVE  ToRead(p)' = ToRead(p)
<1>1. PriorFiles(p, packages[p])' = PriorFiles(p, packages[p])
  BY SameSources DEF PriorFiles, IsCompatible, Retained
<1>2. \A f : f \in Trusted(p, PriorFiles(p, packages[p]))'
             <=> f \in Trusted(p, PriorFiles(p, packages[p]))
  BY <1>1, SameSources DEF Trusted
<1> QED
  BY <1>2, SameSources DEF ToRead

LEMMA SourcesAreListed ==
  ASSUME NEW p \in Procs, CommandTyped(p)
  PROVE  /\ Listed(p) \subseteq Files /\ Oversized(p) \subseteq Files
         /\ Sources(p) \subseteq Files /\ ToRead(p) \subseteq Sources(p)
         /\ \A f \in Listed(p) : /\ listing[p][f].stamp \in Nat
                                 /\ listing[p][f].stamp <= edits
                                 /\ listing[p][f].stamp \in 0 .. edits
BY DEF Listed, Oversized, Sources, ToRead, CommandTyped

-----------------------------------------------------------------------------
\* Type correctness.

\* The state of the command p, when the number of edits has not shrunk.
LEMMA SameCommandTyped ==
  ASSUME WorldTyped, WorldTyped', edits <= edits', NEW p \in Procs, CommandTyped(p),
         SameCommand(p)
  PROVE  CommandTyped(p)'
<1>1. ToRead(p)' = ToRead(p)
  BY SameToRead DEF SameCommand
<1>2. edits \in Nat /\ edits' \in Nat
  BY IndexAssumption DEF WorldTyped
<1>3. Dated(candidate[p], edits) /\ Snapshot(candidate[p]) => Dated(candidate[p], edits')
  BY <1>2 DEF Dated, Snapshot, AnyRow
<1>4. \A x \in 0 .. edits : x \in 0 .. edits'
  BY <1>2
<1>5. listing[p] \in [Files -> {Absent} \cup [stamp : 0 .. edits', big : BOOLEAN]]
  BY <1>4 DEF CommandTyped
<1>6. Snapshot(candidate[p])' = Snapshot(candidate[p]) /\ Snapshot(seen[p])' = Snapshot(seen[p])
      /\ Snapshot(prior[p])' = Snapshot(prior[p])
  BY DEF SameCommand, Snapshot, Omitted
<1>7. IF pc[p] \in Prepared THEN Snapshot(candidate[p])' /\ Dated(candidate[p], edits)'
      ELSE candidate'[p] = None
  BY <1>3, <1>6 DEF CommandTyped, SameCommand, Dated
<1> QED
  <2>1. /\ pc[p]' \in Labels /\ cmd[p]' \in Commands \cup {None}
        /\ pc[p]' = "idle" <=> cmd[p]' = None
        /\ todo[p]' \in SUBSET Files
        /\ attempt[p]' \in 1 .. MaxAttempts /\ drift[p]' \in 1 .. MaxAttempts
        /\ packages[p]' \in 0 .. edits'
        /\ got[p]' \in [Files -> {Absent} \cup Gotten]
        /\ listing[p]' \in [Files -> {Absent} \cup [stamp : 0 .. edits', big : BOOLEAN]]
    BY <1>4, <1>5 DEF CommandTyped, SameCommand
  <2>2. /\ prior[p]' # None => Snapshot(prior[p])'
        /\ pc[p]' \in {"list", "verify"} => Snapshot(seen[p])'
        /\ pc[p]' \in {"scan", "read"} \cup Prepared => binding[p]' \in Rules
    BY <1>6 DEF CommandTyped, SameCommand
  <2>3. pc[p]' = "read" => todo[p]' \subseteq ToRead(p)'
                           /\ \A f \in ToRead(p)' \ todo[p]' : got[p]'[f] \in Gotten
    BY <1>1 DEF CommandTyped, SameCommand
  <2>4. IF pc[p]' = "idle" THEN listing[p]' = Nowhere /\ attempt[p]' = 1 /\ drift[p]' = 1
        ELSE answer[p]'.label = "none" /\ answer[p]'.edits \in 0 .. edits'
    BY <1>4 DEF CommandTyped, SameCommand
  <2> QED
    BY <1>7, <2>1, <2>2, <2>3, <2>4 DEF CommandTyped, SameCommand

LEMMA EndedCommandTyped ==
  ASSUME OfProcesses, WorldTyped, NEW p \in Procs, CommandTyped(p),
         NEW l, NEW s, Finish(p, l, s), UNCHANGED world
  PROVE  CommandTyped(p)'
<1>1. Nowhere \in [Files -> {Absent} \cup [stamp : 0 .. edits, big : BOOLEAN]]
      /\ Nowhere \in [Files -> {Absent} \cup Gotten]
  BY DEF Nowhere
<1>2. edits \in Nat /\ UNCHANGED edits
  BY IndexAssumption DEF WorldTyped, world
<1>3. /\ pc'[p] = "idle" /\ cmd'[p] = None /\ todo'[p] = {} /\ listing'[p] = Nowhere
      /\ prior'[p] = None /\ packages'[p] = 0 /\ got'[p] = Nowhere
      /\ candidate'[p] = None /\ attempt'[p] = 1 /\ drift'[p] = 1
  BY FinishEnds
<1>4. 1 \in 1 .. MaxAttempts /\ 0 \in 0 .. edits
  BY <1>2, IndexAssumption
<1> QED
  BY <1>1, <1>2, <1>3, <1>4 DEF CommandTyped, Labels, Prepared

LEMMA FailedCommandTyped ==
  ASSUME OfProcesses, WorldTyped, NEW p \in Procs, CommandTyped(p),
         NEW l, Fail(p, l), UNCHANGED world
  PROVE  CommandTyped(p)'
BY EndedCommandTyped DEF Fail

\* A command that goes on, other than with reading.
LEMMA MovedCommandTyped ==
  ASSUME NEW p \in Procs, CommandTyped(p), UNCHANGED edits,
         cmd'[p] \in Commands,
         pc'[p] \in Labels \ {"idle", "read"}, todo'[p] \in SUBSET Files,
         listing'[p] \in [Files -> {Absent} \cup [stamp : 0 .. edits, big : BOOLEAN]],
         got'[p] = got[p], packages'[p] = packages[p],
         prior'[p] # None => Snapshot(prior'[p]),
         pc'[p] \in {"list", "verify"} => Snapshot(seen'[p]),
         pc'[p] \in {"scan", "read"} \cup Prepared => binding'[p] \in Rules,
         attempt'[p] \in 1 .. MaxAttempts, drift'[p] \in 1 .. MaxAttempts,
         IF pc'[p] \in Prepared THEN Snapshot(candidate'[p]) /\ Dated(candidate'[p], edits)
         ELSE candidate'[p] = None,
         answer'[p].label = "none", answer'[p].edits \in 0 .. edits
  PROVE  CommandTyped(p)'
BY IndexAssumption DEF CommandTyped, Dated

\* The rows a preparation may reuse.
LEMMA PriorTyped ==
  ASSUME NEW p \in Procs, CommandTyped(p), NEW state
  PROVE  /\ DOMAIN PriorFiles(p, state) \subseteq Files
         /\ \A f \in DOMAIN PriorFiles(p, state) : PriorFiles(p, state)[f] \in AnyRow
BY DEF PriorFiles, CommandTyped, Snapshot, NoFiles

LEMMA AssembledTyped ==
  ASSUME WorldTyped, NEW p \in Procs, CommandTyped(p), pc[p] = "read", todo[p] = {}
  PROVE  /\ Snapshot(Assembled(p)) /\ Dated(Assembled(p), edits)
         /\ DOMAIN Assembled(p).files \subseteq Sources(p)
         /\ Omitted(Assembled(p)) \subseteq Listed(p)
<1> DEFINE files == PriorFiles(p, packages[p])
           trusted == Trusted(p, files)
           read(outcome) == {f \in Sources(p) \ trusted : got[p][f].outcome = outcome}
           proven == {f \in read("file") \cap DOMAIN files :
                        ~cmd[p].force /\ files[f].content = got[p][f].content}
           extracted(nature) ==
             {f \in read("file") \ proven : NatureOf[got[p][f].content] = nature}
           row(f) ==
             IF f \in trusted \cup proven
             THEN [files[f] EXCEPT !.stamp = listing[p][f].stamp]
             ELSE [content |-> got[p][f].content, stamp |-> listing[p][f].stamp,
                   facts |-> <<got[p][f].content, binding[p]>>]
           names == trusted \cup proven \cup extracted("extracts")
           omissions ==
             BudgetOmissions(p)
               \cup {Omission(f, "read-error") : f \in read("gone")}
               \cup {Omission(f, "invalid-utf8") : f \in read("binary")}
               \cup {Omission(f, "extraction-error") : f \in extracted("fails")}
               \cup {Omission(f, "post-enrichment-validation") : f \in extracted("invalid")}
           c == Assembled(p)
<1>1. c = [manifest |-> packages[p], files |-> [f \in names |-> row(f)],
           omissions |-> omissions]
  BY DEF Assembled
<1>2. /\ Sources(p) \subseteq Files /\ Oversized(p) \subseteq Files
      /\ Oversized(p) \cap Sources(p) = {}
      /\ Oversized(p) \subseteq Listed(p) /\ Sources(p) \subseteq Listed(p)
      /\ edits \in Nat /\ packages[p] \in Nat /\ packages[p] <= edits
      /\ \A f \in Sources(p) : listing[p][f].stamp \in Nat /\ listing[p][f].stamp <= edits
  BY SourcesAreListed, IndexAssumption DEF Sources, Oversized, CommandTyped, WorldTyped
<1>3. trusted \subseteq Sources(p) /\ trusted \subseteq DOMAIN files
  BY DEF Trusted
<1>4. \A f \in DOMAIN files : files[f] \in AnyRow
  BY PriorTyped
<1>5. \A f \in Sources(p) \ trusted : got[p][f] \in Gotten
  BY DEF CommandTyped, ToRead
<1>6. \A f \in read("file") : got[p][f].content \in Contents
  BY <1>5 DEF Gotten
<1>7. binding[p] \in Rules
  BY DEF CommandTyped
<1>8. names \subseteq Sources(p)
  BY <1>3
<1>9. ASSUME NEW f \in names
      PROVE  row(f) \in AnyRow /\ row(f).stamp = listing[p][f].stamp
  <2>1. CASE f \in trusted \cup proven
    <3>1. f \in DOMAIN files /\ f \in Sources(p)
      BY <1>3, <2>1
    <3> QED
      BY <1>2, <1>4, <2>1, <3>1 DEF AnyRow
  <2>2. CASE f \notin trusted \cup proven
    <3>1. f \in read("file") /\ f \in Sources(p)
      BY <2>2
    <3> QED
      BY <1>2, <1>6, <1>7, <2>2, <3>1 DEF AnyRow, Facts
  <2> QED
    BY <2>1, <2>2
<1>10. omissions \subseteq [file : Files, reason : Reasons]
  BY <1>2 DEF Omission, Reasons, BudgetOmissions
<1>11. \A o \in omissions : o.file \in Listed(p) /\ o.file \notin names
  BY <1>2, <1>3 DEF Omission, BudgetOmissions
<1> HIDE DEF names, row, omissions, c
<1>12. /\ c.manifest = packages[p] /\ c.omissions = omissions /\ DOMAIN c.files = names
       /\ \A f \in names : c.files[f] = row(f)
  BY <1>1
<1>13. Omitted(c) \cap DOMAIN c.files = {} /\ Omitted(c) \subseteq Listed(p)
  BY <1>11, <1>12 DEF Omitted
<1>14. c = [manifest |-> c.manifest, files |-> c.files, omissions |-> c.omissions]
  BY <1>1, <1>12
<1>15. DOMAIN c.files \subseteq Sources(p)
  BY <1>8, <1>12
<1>16. Snapshot(c)
  BY <1>2, <1>9, <1>10, <1>13, <1>12, <1>14, <1>15 DEF Snapshot
<1>17. Dated(c, edits)
  BY <1>2, <1>8, <1>9, <1>12 DEF Dated
<1> QED
  BY <1>13, <1>15, <1>16, <1>17 DEF c

\* A selected snapshot, also with the rows it has now, is a snapshot.
LEMMA ActiveTyped ==
  ASSUME SlotsTyped, NEW partial \in BOOLEAN, Active(partial) # None
  PROVE  \E g \in Grades : slot[g] # None /\ Active(partial) = slot[g]
BY DEF Active, Grades

LEMMA SameIdSameNames ==
  ASSUME NEW c, NEW d, Id(c) = Id(d)
  PROVE  /\ c.manifest = d.manifest /\ c.omissions = d.omissions
         /\ DOMAIN c.files = DOMAIN d.files
         /\ \A f \in DOMAIN c.files : c.files[f].content = d.files[f].content
<1>1. /\ c.manifest = d.manifest /\ c.omissions = d.omissions
      /\ {<<f, c.files[f].content>> : f \in DOMAIN c.files}
           = {<<f, d.files[f].content>> : f \in DOMAIN d.files}
  BY DEF Id
<1>2. ASSUME NEW f \in DOMAIN c.files
      PROVE  f \in DOMAIN d.files /\ c.files[f].content = d.files[f].content
  <2>1. <<f, c.files[f].content>> \in {<<g, d.files[g].content>> : g \in DOMAIN d.files}
    BY <1>1, <1>2
  <2> QED
    BY <2>1
<1>3. ASSUME NEW f \in DOMAIN d.files PROVE f \in DOMAIN c.files
  <2>1. <<f, d.files[f].content>> \in {<<g, c.files[g].content>> : g \in DOMAIN c.files}
    BY <1>1, <1>3
  <2> QED
    BY <2>1
<1> QED
  BY <1>1, <1>2, <1>3

\* The rows of a snapshot that is still there are those of the slot it is in.
LEMMA StoredRows ==
  ASSUME NEW c
  PROVE  \/ StoredFiles(c) = NoFiles
         \/ \E g \in Grades : /\ slot[g] # None /\ Id(slot[g]) = Id(c)
                              /\ StoredFiles(c) = slot[g].files
<1> DEFINE rows == {slot[g] : g \in {h \in Grades : slot[h] # None /\ Id(slot[h]) = Id(c)}}
<1>1. CASE rows = {}
  BY <1>1 DEF StoredFiles
<1>2. CASE rows # {}
  <2>1. (CHOOSE r \in rows : TRUE) \in rows
    BY <1>2
  <2> QED
    BY <1>2, <2>1 DEF StoredFiles
<1> QED
  BY <1>1, <1>2

LEMMA LoadedTyped ==
  ASSUME SlotsTyped, NEW c, Snapshot(c)
  PROVE  Snapshot([c EXCEPT !.files = StoredFiles(c)])
<1> DEFINE d == [c EXCEPT !.files = StoredFiles(c)]
<1>1. /\ c = [manifest |-> c.manifest, files |-> c.files, omissions |-> c.omissions]
      /\ c.manifest \in Nat /\ c.omissions \subseteq [file : Files, reason : Reasons]
      /\ Omitted(c) \cap DOMAIN c.files = {}
  BY DEF Snapshot
<1>2. /\ d = [manifest |-> d.manifest, files |-> d.files, omissions |-> d.omissions]
      /\ d.manifest = c.manifest /\ d.omissions = c.omissions
      /\ d.files = StoredFiles(c)
  BY <1>1
<1>3. /\ DOMAIN StoredFiles(c) \subseteq Files
      /\ \A f \in DOMAIN StoredFiles(c) : StoredFiles(c)[f] \in AnyRow
      /\ Omitted(c) \cap DOMAIN StoredFiles(c) = {}
  <2>1. CASE StoredFiles(c) = NoFiles
    BY <2>1 DEF NoFiles
  <2>2. ASSUME NEW g \in Grades, slot[g] # None, Id(slot[g]) = Id(c),
               StoredFiles(c) = slot[g].files
        PROVE  /\ DOMAIN StoredFiles(c) \subseteq Files
               /\ \A f \in DOMAIN StoredFiles(c) : StoredFiles(c)[f] \in AnyRow
               /\ Omitted(c) \cap DOMAIN StoredFiles(c) = {}
    BY <1>1, <2>2, SameIdSameNames DEF SlotsTyped, Snapshot
  <2> QED
    BY <2>1, <2>2, StoredRows
<1>4. Omitted(d) = Omitted(c)
  BY <1>2 DEF Omitted
<1> QED
  BY <1>1, <1>2, <1>3, <1>4 DEF Snapshot

LEMMA CommandsAreRecords ==
  ASSUME NEW c \in Commands
  PROVE  c.partial \in BOOLEAN /\ c.trust \in BOOLEAN /\ c.force \in BOOLEAN
         /\ c.stale \in BOOLEAN /\ c.kind \in {"index", "query"} /\ c # None
BY IndexAssumption

LEMMA ReadingOutcomes ==
  ASSUME NEW p, NEW f
  PROVE  /\ Reading(p, f) \in {"gone", "changed", "binary", "file"}
         /\ Reading(p, f) # "gone" => tree[f] # Absent
         /\ Reading(p, f) \in {"binary", "file"} =>
              Entry(f) = listing[p][f] /\ (Reading(p, f) = "binary" <=> Nature(f) = "binary")
BY DEF Reading

\* Each step of a command keeps its type.
LEMMA CommandStep ==
  ASSUME IndexTyped, NEW p \in Procs, Start(p) \/ Step(p) \/ GiveUp(p)
  PROVE  CommandTyped(p)'
<1> USE DEF IndexTyped, Goto, Walk, local, world
<1>1. CASE Start(p)
  <2>1. PICK c \in Commands :
          /\ cmd' = [cmd EXCEPT ![p] = c]
          /\ \/ /\ pc' = [pc EXCEPT ![p] = "prior"] /\ UNCHANGED <<seen, todo>>
             \/ /\ Active(c.partial) # None
                /\ seen' = [seen EXCEPT ![p] = Active(c.partial)]
                /\ pc' = [pc EXCEPT ![p] = "list"] /\ todo' = [todo EXCEPT ![p] = Files]
    BY <1>1 DEF Start
  <2>2. Active(c.partial) # None => Snapshot(Active(c.partial))
    BY ActiveTyped, CommandsAreRecords DEF SlotsTyped
  <2>3. answer'[p].label = "none" /\ answer'[p].edits = edits
    BY <1>1 DEF Start, OfProcesses, NoAnswer
  <2>4. pc'[p] \in {"prior", "list"} /\ cmd'[p] = c /\ todo'[p] \in SUBSET Files
        /\ (pc'[p] = "list" => Snapshot(seen'[p]))
    BY <2>1, <2>2 DEF OfProcesses, CommandTyped
  <2>5. edits \in 0 .. edits /\ pc[p] = "idle"
    BY <1>1, IndexAssumption DEF WorldTyped, Start
  <2> QED
    BY <1>1, <2>3, <2>4, <2>5, MovedCommandTyped DEF Start, CommandTyped, Labels, Prepared
<1>2. CASE ListFile(p)
  <2>1. PICK f \in todo[p] : listing' = [listing EXCEPT ![p][f] = Entry(f)]
                             /\ todo' = [todo EXCEPT ![p] = @ \ {f}]
    BY <1>2 DEF ListFile
  <2>2. Entry(f) \in {Absent} \cup [stamp : 0 .. edits, big : BOOLEAN]
    BY DEF Entry, WorldTyped, CommandTyped
  <2>3. /\ listing'[p] \in [Files -> {Absent} \cup [stamp : 0 .. edits, big : BOOLEAN]]
        /\ todo'[p] \in SUBSET Files
    BY <2>1, <2>2 DEF CommandTyped, OfProcesses
  <2> QED
    BY <1>2, <2>3, MovedCommandTyped DEF ListFile, CommandTyped, Labels, Prepared
<1>3. CASE Compare(p)
  <2>1. CASE pc' = [pc EXCEPT ![p] = "prior"] /\ UNCHANGED <<local, answer>>
    BY <1>3, <2>1, MovedCommandTyped
    DEF Compare, CommandTyped, OfProcesses, Labels, Prepared
  <2>2. CASE /\ pc' = [pc EXCEPT ![p] = "verify"]
             /\ seen' = [seen EXCEPT ![p] = [seen[p] EXCEPT !.files = StoredFiles(seen[p])]]
             /\ todo' = [todo EXCEPT ![p] = Sources(p) \cap DOMAIN seen'[p].files]
             /\ UNCHANGED <<cmd, listing, prior, binding, packages, got, candidate,
                            attempt, drift, answer>>
    <3>1. Snapshot(seen[p]) /\ pc[p] = "list"
      BY <1>3 DEF Compare, CommandTyped
    <3>2. Snapshot(seen'[p])
      BY <2>2, <3>1, LoadedTyped DEF OfProcesses
    <3>3. todo'[p] \in SUBSET Files /\ pc'[p] = "verify"
      BY <2>2, SourcesAreListed DEF OfProcesses
    <3> QED
      BY <1>3, <2>2, <3>1, <3>2, <3>3, MovedCommandTyped
      DEF Compare, CommandTyped, Labels, Prepared
  <2>3. ASSUME NEW s, Finish(p, "fresh", s) PROVE CommandTyped(p)'
    BY <1>3, <2>3, EndedCommandTyped DEF Compare
  <2> QED
    BY <1>3, <2>1, <2>2, <2>3 DEF Compare, OfProcesses
<1>4. CASE Verify(p)
  <2>1. ASSUME NEW s, Finish(p, "fresh", s) PROVE CommandTyped(p)'
    BY <1>4, <2>1, EndedCommandTyped DEF Verify
  <2>2. CASE /\ pc'[p] \in {"verify", "prior"} /\ todo'[p] \subseteq todo[p]
             /\ UNCHANGED <<cmd, seen, listing, prior, binding, packages, got, candidate,
                            attempt, drift, answer>>
    BY <1>4, <2>2, MovedCommandTyped DEF Verify, CommandTyped, Labels, Prepared
  <2> QED
    BY <1>4, <2>1, <2>2 DEF Verify, OfProcesses
<1>5. CASE BeginRefresh(p)
  <2>1. prior'[p] # None => Snapshot(prior'[p])
    <3>1. Active(cmd[p].partial) # None => Snapshot(Active(cmd[p].partial))
      BY <1>5, ActiveTyped, CommandsAreRecords DEF BeginRefresh, CommandTyped, SlotsTyped
    <3> QED
      BY <1>5, <3>1 DEF BeginRefresh, OfProcesses
  <2>2. pc'[p] = "scan" /\ todo'[p] = Files /\ binding'[p] \in Rules
    BY <1>5 DEF BeginRefresh, OfProcesses, WorldTyped
  <2> QED
    BY <1>5, <2>1, <2>2, MovedCommandTyped DEF BeginRefresh, CommandTyped, Labels, Prepared
<1>6. CASE Plan(p)
  <2>1. /\ packages'[p] = manifest /\ got'[p] = Nowhere /\ pc'[p] = "read" /\ pc[p] = "scan"
        /\ todo'[p] = Sources(p) \ Trusted(p, PriorFiles(p, manifest))
        /\ UNCHANGED <<edits, cmd, listing, prior, seen, binding, candidate, attempt,
                       drift, answer>>
    BY <1>6 DEF Plan, OfProcesses
  <2>2. ToRead(p)' = todo'[p]
    <3>1. PriorFiles(p, packages[p])' = PriorFiles(p, manifest)
      BY <2>1, SameSources DEF PriorFiles, IsCompatible, Retained
    <3>2. \A f : f \in Trusted(p, PriorFiles(p, packages[p]))'
                   <=> f \in Trusted(p, PriorFiles(p, manifest))
      BY <2>1, <3>1, SameSources DEF Trusted
    <3> QED
      BY <2>1, <3>2, SameSources DEF ToRead
  <2>3. todo'[p] \subseteq Files /\ Nowhere \in [Files -> {Absent} \cup Gotten]
        /\ manifest \in 0 .. edits
    BY <2>1, SourcesAreListed DEF Nowhere, WorldTyped
  <2> QED
    BY <2>1, <2>2, <2>3 DEF CommandTyped, Labels, Prepared
<1>7. ASSUME RefreshAgain(p), UNCHANGED world, pc[p] \in {"read", "rescan", "recheck"}
      PROVE  CommandTyped(p)'
  <2>1. CASE Fail(p, "drift")
    BY <1>7, <2>1, FailedCommandTyped
  <2>2. CASE HasAttempts(attempt[p])
    <3>1. attempt'[p] = attempt[p] + 1 /\ drift'[p] = 1 /\ pc'[p] = "scan"
          /\ todo'[p] = Files /\ candidate'[p] = None
      BY <1>7, <2>2 DEF RefreshAgain, OfProcesses, NextAttempt
    <3>2. attempt'[p] \in 1 .. MaxAttempts /\ drift'[p] \in 1 .. MaxAttempts
      BY <2>2, <3>1, IndexAssumption DEF HasAttempts, CommandTyped
    <3> QED
      BY <1>7, <2>2, <3>1, <3>2, MovedCommandTyped
      DEF RefreshAgain, CommandTyped, Labels, Prepared
  <2> QED
    BY <1>7, <2>1, <2>2 DEF RefreshAgain
<1>8. CASE Read(p)
  <2>1. PICK f \in todo[p] :
          \/ PrepareAgain(p)
          \/ /\ ~DriftedReading(p, f)
             /\ got' = [got EXCEPT ![p][f] =
                          IF Reading(p, f) = "gone" THEN [outcome |-> "gone"]
                          ELSE [outcome |-> Reading(p, f), content |-> tree[f].content]]
             /\ todo' = [todo EXCEPT ![p] = @ \ {f}]
             /\ UNCHANGED <<pc, cmd, seen, listing, prior, binding, packages,
                            candidate, attempt, drift, answer>>
    BY <1>8 DEF Read
  <2>2. CASE PrepareAgain(p)
    <3>1. CASE Fail(p, "drift")
      BY <1>8, <3>1, FailedCommandTyped DEF Read
    <3>2. CASE HasAttempts(drift[p])
      <4>1. drift'[p] = drift[p] + 1 /\ pc'[p] = "scan" /\ todo'[p] = Files
        BY <2>2, <3>2 DEF PrepareAgain, OfProcesses
      <4>2. drift'[p] \in 1 .. MaxAttempts
        BY <3>2, <4>1, IndexAssumption DEF HasAttempts, CommandTyped
      <4> QED
        BY <1>8, <2>2, <3>2, <4>1, <4>2, MovedCommandTyped
        DEF Read, PrepareAgain, CommandTyped, Labels, Prepared
    <3> QED
      BY <2>2, <3>1, <3>2 DEF PrepareAgain
  <2>3. CASE ~PrepareAgain(p)
    <3>1. /\ todo'[p] = todo[p] \ {f} /\ pc[p] = "read" /\ pc'[p] = "read"
          /\ UNCHANGED <<edits, cmd, seen, listing, prior, binding, packages,
                         candidate, attempt, drift, answer>>
          /\ f \in Files
      BY <1>8, <2>1, <2>3 DEF Read, OfProcesses, CommandTyped
    <3>2. /\ got'[p][f] \in Gotten
          /\ \A g \in Files \ {f} : got'[p][g] = got[p][g]
          /\ got'[p] \in [Files -> {Absent} \cup Gotten]
      <4>1. (IF Reading(p, f) = "gone" THEN [outcome |-> "gone"]
             ELSE [outcome |-> Reading(p, f), content |-> tree[f].content]) \in Gotten
        BY <2>1, <2>3, <3>1, ReadingOutcomes DEF DriftedReading, Gotten, WorldTyped
      <4> QED
        BY <2>1, <2>3, <3>1, <4>1 DEF OfProcesses, CommandTyped
    <3>3. ToRead(p)' = ToRead(p)
      BY <3>1, SameToRead
    <3>4. todo'[p] \subseteq ToRead(p)' /\ \A g \in ToRead(p)' \ todo'[p] : got'[p][g] \in Gotten
      BY <3>1, <3>2, <3>3, SourcesAreListed DEF CommandTyped
    <3> QED
      BY <3>1, <3>2, <3>4 DEF CommandTyped, Prepared
  <2> QED
    BY <2>2, <2>3
<1>9. CASE Assemble(p)
  <2>1. CASE Fail(p, "partial")
    BY <1>9, <2>1, FailedCommandTyped DEF Assemble
  <2>2. CASE ~Fail(p, "partial")
    <3>1. /\ candidate'[p] = Assembled(p) /\ pc'[p] = "rescan" /\ todo'[p] = Files
          /\ pc[p] = "read" /\ todo[p] = {}
          /\ UNCHANGED <<edits, cmd, seen, listing, prior, binding, packages, got,
                         attempt, drift, answer>>
      BY <1>9, <2>2 DEF Assemble, OfProcesses
    <3>2. Snapshot(candidate'[p]) /\ Dated(candidate'[p], edits)
      BY <3>1, AssembledTyped
    <3> QED
      BY <3>1, <3>2, MovedCommandTyped DEF CommandTyped, Labels, Prepared
  <2> QED
    BY <2>1, <2>2
<1>10. CASE Recheck(p)
  <2>1. CASE RefreshAgain(p)
    BY <1>7, <1>10, <2>1 DEF Recheck
  <2>2. CASE ~RefreshAgain(p)
    <3>1. /\ pc[p] = "rescan" /\ pc'[p] = "recheck"
          /\ todo'[p] = DOMAIN candidate[p].files \cup (Omitted(candidate[p]) \cap Sources(p))
          /\ UNCHANGED <<edits, cmd, seen, listing, prior, binding, packages, got,
                         candidate, attempt, drift, answer>>
      BY <1>10, <2>2 DEF Recheck, OfProcesses
    <3>2. todo'[p] \in SUBSET Files
      BY <3>1, SourcesAreListed DEF CommandTyped, Prepared, Snapshot
    <3> QED
      BY <3>1, <3>2, MovedCommandTyped DEF CommandTyped, Labels, Prepared
  <2> QED
    BY <2>1, <2>2
<1>11. CASE RecheckFile(p)
  <2>1. CASE RefreshAgain(p)
    BY <1>7, <1>11, <2>1 DEF RecheckFile
  <2>2. CASE ~RefreshAgain(p)
    BY <1>11, <2>2, MovedCommandTyped
    DEF RecheckFile, OfProcesses, CommandTyped, Labels, Prepared
  <2> QED
    BY <2>1, <2>2
<1>12. CASE RecheckManifest(p)
  <2>1. CASE RefreshAgain(p)
    BY <1>7, <1>12, <2>1 DEF RecheckManifest
  <2>2. CASE ~RefreshAgain(p)
    BY <1>12, <2>2, MovedCommandTyped
    DEF RecheckManifest, OfProcesses, CommandTyped, Labels, Prepared
  <2> QED
    BY <2>1, <2>2
<1>13. CASE Publish(p)
  <2>1. CASE Fail(p, "conflict")
    BY <1>13, <2>1, FailedCommandTyped DEF Publish
  <2>2. CASE ~Fail(p, "conflict")
    BY <1>13, <2>2, MovedCommandTyped
    DEF Publish, OfProcesses, CommandTyped, Labels, Prepared
  <2> QED
    BY <2>1, <2>2
<1>14. CASE Answer(p)
  BY <1>14, EndedCommandTyped DEF Answer
<1>15. CASE GiveUp(p)
  BY <1>15, EndedCommandTyped, FailedCommandTyped DEF GiveUp
<1> QED
  BY <1>1, <1>2, <1>3, <1>4, <1>5, <1>6, <1>8, <1>9, <1>10, <1>11, <1>12, <1>13,
     <1>14, <1>15 DEF Step

\* Nothing but the editors changes the world; nothing but them, publications and
\* invalidations is felt by a command that takes no step.
LEMMA EditTyped ==
  ASSUME IndexTyped, Edit
  PROVE  /\ WorldTyped' /\ edits' = edits + 1 /\ UNCHANGED <<slot, pc, local, answer>>
         /\ \A p \in Procs :
              past'[p] = (IF pc[p] = "idle" THEN past[p] ELSE past[p] \cup {Moment'})
         /\ DOMAIN past' = Procs
<1> USE IndexAssumption DEF IndexTyped, WorldTyped, Remember
<1>1. CASE EditManifest
  BY <1>1 DEF EditManifest
<1>2. CASE EditRules
  BY <1>2 DEF EditRules
<1>3. ASSUME NEW f \in Files, EditFile(f) 
      PROVE  /\ WorldTyped' /\ edits' = edits + 1 /\ UNCHANGED <<slot, pc, local, answer>>
             /\ \A p \in Procs :
                  past'[p] = (IF pc[p] = "idle" THEN past[p] ELSE past[p] \cup {Moment'})
             /\ DOMAIN past' = Procs
  <2>1. PICK new \in Edited(f) : tree' = [tree EXCEPT ![f] = new]
    BY <1>3 DEF EditFile
  <2>2. new \in {Absent} \cup [content : Contents, stamp : 0 .. edits + 1]
    BY <2>1 DEF Edited
  <2> QED
    BY <1>3, <2>1, <2>2 DEF EditFile
<1> QED
  BY <1>1, <1>2, <1>3 DEF Edit

\* A publication puts a snapshot of its grade into the slot of that grade.
LEMMA PublishTyped ==
  ASSUME IndexTyped, NEW p \in Procs, Publish(p)
  PROVE  SlotsTyped'
<1>1. CASE UNCHANGED slot
  BY <1>1 DEF Publish, world, IndexTyped, SlotsTyped, Snapshot, Dated, Omitted
<1>2. CASE slot' = [slot EXCEPT ![SlotFor(candidate[p])] = candidate[p]]
  <2>1. /\ Snapshot(candidate[p]) /\ Dated(candidate[p], edits)
        /\ SlotFor(candidate[p]) = Grade(candidate[p]) /\ UNCHANGED edits
    BY DEF Publish, world, IndexTyped, CommandTyped, Prepared, SlotFor
  <2>2. \A g \in Grades : slot'[g] =
          IF g = Grade(candidate[p]) THEN candidate[p] ELSE slot[g]
    BY <1>2, <2>1 DEF IndexTyped, SlotsTyped
  <2> QED
    BY <1>2, <2>1, <2>2 DEF IndexTyped, SlotsTyped
<1> QED
  BY <1>1, <1>2 DEF Publish

\* The steps of commands leave the world alone, and, but for a publication, the
\* slots; all remember what they remembered.
LEMMA StepKeeps ==
  ASSUME NEW p \in Procs, Start(p) \/ Step(p) \/ GiveUp(p)
  PROVE  /\ UNCHANGED world
         /\ ~Publish(p) => UNCHANGED slot
         /\ ~Start(p) => UNCHANGED past
BY DEF Start, Step, GiveUp, ListFile, Compare, Verify, BeginRefresh, Plan, Read, Assemble,
   Recheck, RecheckFile, RecheckManifest, Publish, Answer

LEMMA TypeStep == IndexTyped /\ [Next]_vars => IndexTyped'
<1> SUFFICES ASSUME IndexTyped, [Next]_vars PROVE IndexTyped'
  OBVIOUS
<1>0. edits \in Nat
  BY IndexAssumption DEF IndexTyped, WorldTyped
<1>1. CASE Edit
  <2>1. /\ WorldTyped' /\ edits' = edits + 1 /\ UNCHANGED <<slot, pc, local, answer>>
        /\ DOMAIN past' = Procs
    BY <1>1, EditTyped
  <2>2. SlotsTyped'
    BY <1>0, <2>1 DEF IndexTyped, SlotsTyped, Snapshot, Dated, Grade, Omitted, AnyRow
  <2>3. ASSUME NEW p \in Procs PROVE CommandTyped(p)'
    <3>1. /\ pc' = pc /\ cmd' = cmd /\ seen' = seen /\ todo' = todo /\ listing' = listing
          /\ prior' = prior /\ binding' = binding /\ packages' = packages /\ got' = got
          /\ candidate' = candidate /\ attempt' = attempt /\ drift' = drift
          /\ answer' = answer
      BY <2>1 DEF local
    <3> QED
      BY <1>0, <2>1, <3>1, SameCommandTyped DEF IndexTyped, SameCommand
  <2>4. OfProcesses'
    BY <2>1 DEF IndexTyped, OfProcesses, local
  <2> QED
    BY <2>1, <2>2, <2>3, <2>4 DEF IndexTyped
<1>2. CASE Discard
  <2>1. /\ UNCHANGED <<world, pc, local, past, answer>>
        /\ slot' = [g \in Grades |-> None]
    BY <1>2 DEF Discard
  <2>2. WorldTyped' /\ OfProcesses' /\ SlotsTyped'
    BY <2>1 DEF IndexTyped, WorldTyped, OfProcesses, SlotsTyped, world, local
  <2>3. ASSUME NEW p \in Procs PROVE CommandTyped(p)'
    BY <1>0, <2>1, <2>2, SameCommandTyped DEF IndexTyped, SameCommand, local, world
  <2> QED
    BY <2>2, <2>3 DEF IndexTyped
<1>3. ASSUME NEW p \in Procs, Start(p) \/ Step(p) \/ GiveUp(p) PROVE IndexTyped'
  <2>1. UNCHANGED world
    BY <1>3, StepKeeps
  <2>2. WorldTyped' /\ edits' = edits
    BY <2>1 DEF IndexTyped, WorldTyped, world
  <2>3. OfProcesses' /\ \A q \in Procs \ {p} : SameCommand(q)
    BY <1>3, StepAlone DEF IndexTyped, Alone
  <2>4. SlotsTyped'
    <3>1. CASE Publish(p)
      BY <3>1, PublishTyped
    <3>2. CASE ~Publish(p)
      <4>1. UNCHANGED slot
        BY <1>3, <3>2, StepKeeps
      <4> QED
        BY <2>2, <4>1 DEF IndexTyped, SlotsTyped, Snapshot, Dated, Grade, Omitted
    <3> QED
      BY <3>1, <3>2
  <2>5. ASSUME NEW q \in Procs PROVE CommandTyped(q)'
    <3>1. CASE q = p
      BY <1>3, <3>1, CommandStep
    <3>2. CASE q # p
      BY <1>0, <2>2, <2>3, <3>2, SameCommandTyped DEF IndexTyped
    <3> QED
      BY <3>1, <3>2
  <2> QED
    BY <2>2, <2>3, <2>4, <2>5 DEF IndexTyped
<1>4. CASE Exhausted \/ UNCHANGED vars
  <2>1. UNCHANGED vars
    BY <1>4 DEF Exhausted
  <2>2. WorldTyped' /\ OfProcesses' /\ SlotsTyped'
    BY <2>1 DEF IndexTyped, WorldTyped, OfProcesses, SlotsTyped, Snapshot, Dated, Grade,
                Omitted, vars, world, local
  <2>3. ASSUME NEW p \in Procs PROVE CommandTyped(p)'
    BY <1>0, <2>1, <2>2, SameCommandTyped DEF IndexTyped, SameCommand, vars, world, local
  <2> QED
    BY <2>2, <2>3 DEF IndexTyped
<1> QED
  BY <1>1, <1>2, <1>3, <1>4 DEF Next

LEMMA InitIsTyped == Init => IndexTyped
<1> SUFFICES ASSUME Init PROVE IndexTyped
  OBVIOUS
<1> USE IndexAssumption DEF Init
<1>1. WorldTyped /\ OfProcesses /\ SlotsTyped
  BY DEF WorldTyped, OfProcesses, SlotsTyped
<1>2. Nowhere \in [Files -> {Absent} \cup [stamp : 0 .. edits, big : BOOLEAN]]
      /\ Nowhere \in [Files -> {Absent} \cup Gotten]
  BY DEF Nowhere
<1>3. ASSUME NEW p \in Procs PROVE CommandTyped(p)
  BY <1>2 DEF CommandTyped, Labels, Prepared
<1> QED
  BY <1>1, <1>3 DEF IndexTyped

LEMMA IndexIsTyped == Spec => []IndexTyped
  BY InitIsTyped, TypeStep, PTL DEF Spec

\* Every variable keeps its type; a snapshot is in the slot of its own class, and its
\* rows and omissions name different files.
THEOREM TypeCorrect == Spec => []TypeOK
<1>1. IndexTyped => TypeOK
  <2> SUFFICES ASSUME IndexTyped PROVE TypeOK
    OBVIOUS
  <2>1. edits \in Nat /\ edits <= MaxEdits /\ MaxEdits \in Nat
    BY IndexAssumption DEF IndexTyped, WorldTyped
  <2>2. ASSUME NEW c, Snapshot(c), Dated(c, edits) PROVE IsSnapshot(c)
    BY <2>1, <2>2 DEF Snapshot, Dated, IsSnapshot, AnyRow, Row
  <2>3. tree \in [Files -> {Absent} \cup [content : Contents, stamp : 0 .. MaxEdits]]
    BY <2>1 DEF IndexTyped, WorldTyped
  <2>4. \A g \in Grades : slot[g] # None => IsSnapshot(slot[g]) /\ Grade(slot[g]) = g
    BY <2>2 DEF IndexTyped, SlotsTyped
  <2>5. ASSUME NEW p \in Procs, candidate[p] # None PROVE IsSnapshot(candidate[p])
    BY <2>2, <2>5 DEF IndexTyped, CommandTyped
  <2> QED
    BY <2>3, <2>4, <2>5 DEF TypeOK, IndexTyped, CommandTyped
<1> QED
  BY <1>1, IndexIsTyped, PTL

-----------------------------------------------------------------------------
\* What commands have seen.

\* Nothing that was seen is forgotten.
LEMMA SeenStaysSeen ==
  ASSUME NEW c, NEW earlier, NEW later, earlier \subseteq later
  PROVE  /\ VouchedFor(c, earlier) => VouchedFor(c, later)
         /\ ContentsSeen(c, earlier) => ContentsSeen(c, later)
         /\ \A f : RowSeen(c, f, earlier) => RowSeen(c, f, later)
BY DEF VouchedFor, ContentsSeen, RowSeen

LEMMA SinceNow ==
  ASSUME IndexTyped
  PROVE  Since(Moment, edits) /\ Before(Moment, edits)
BY IndexAssumption DEF IndexTyped, WorldTyped, Since, Before, Moment

\* What an edit brings is new, so what the world keeps is as old as before.
LEMMA SinceEdit ==
  ASSUME IndexTyped, Edit, NEW m, NEW n \in 0 .. edits, Since(m, n)
  PROVE  Since(m, n)'
<1> USE IndexAssumption DEF IndexTyped, WorldTyped, Since
<1>1. CASE EditManifest
  BY <1>1 DEF EditManifest
<1>2. CASE EditRules
  BY <1>2 DEF EditRules
<1>3. ASSUME NEW f \in Files, EditFile(f) PROVE Since(m, n)'
  <2>1. PICK new \in Edited(f) : tree' = [tree EXCEPT ![f] = new]
    BY <1>3 DEF EditFile
  <2>2. new = Absent \/ new.stamp = edits + 1
        \/ (tree[f] # Absent /\ new.stamp = tree[f].stamp)
    BY <2>1 DEF Edited
  <2>3. UNCHANGED manifest /\ edits \in Nat /\ n <= edits
    BY <1>3 DEF EditFile
  <2>4. ASSUME NEW g \in Files, tree'[g] # Absent, tree'[g].stamp <= n
        PROVE  m.tree[g] # Absent /\ m.tree[g].stamp = tree'[g].stamp
    <3>1. CASE g # f
      BY <2>1, <2>4, <3>1
    <3>2. CASE g = f
      <4>1. tree'[f] = new
        BY <2>1
      <4>2. tree[f] # Absent /\ new.stamp = tree[f].stamp
        BY <2>2, <2>3, <2>4, <3>2, <4>1
      <4> QED
        BY <2>4, <3>2, <4>1, <4>2
    <3> QED
      BY <3>1, <3>2
  <2> QED
    BY <2>3, <2>4
<1> QED
  BY <1>1, <1>2, <1>3 DEF Edit

LEMMA SinceStays ==
  ASSUME NEW m, NEW n, UNCHANGED <<tree, manifest>>
  PROVE  Since(m, n)' = Since(m, n)
BY DEF Since

\* A command that takes no step has still seen what it has seen.
LEMMA SameCommandSeen ==
  ASSUME IndexTyped, NEW p \in Procs, SameCommand(p), past[p] \subseteq past'[p],
         edits <= edits', edits' \in Nat,
         \A m : \A n \in 0 .. edits : Since(m, n) => Since(m, n)'
  PROVE  /\ ListingSeen(p) => ListingSeen(p)'
         /\ CandidateSeen(p) => CandidateSeen(p)'
         /\ SelectionSeen(p) => SelectionSeen(p)'
<1>1. /\ pc'[p] = pc[p] /\ cmd'[p] = cmd[p] /\ seen'[p] = seen[p] /\ todo'[p] = todo[p]
      /\ listing'[p] = listing[p] /\ candidate'[p] = candidate[p]
  BY DEF SameCommand
<1>2. ListingSeen(p) => ListingSeen(p)'
  BY <1>1 DEF ListingSeen, WalkDone
<1>3. SelectionSeen(p) => SelectionSeen(p)'
  BY <1>1, SeenStaysSeen DEF SelectionSeen
<1>4. CandidateSeen(p) => CandidateSeen(p)'
  <2> DEFINE c == candidate[p]
  <2> SUFFICES ASSUME CandidateSeen(p) PROVE CandidateSeen(p)'
    OBVIOUS
  <2>1. candidate'[p] = c
    BY <1>1
  <2>2. pc[p] \in Prepared =>
          /\ c.omissions # {} => cmd[p].partial
          /\ \A f \in Omitted(c) : \E m \in past'[p] : m.tree[f] # Absent
    BY DEF CandidateSeen
  <2>3. pc[p] \in {"rescan", "recheck"} =>
          \E m \in past'[p], n \in 0 .. edits' :
            /\ Since(m, n)' /\ Dated(c, n)
            /\ pc[p] = "recheck" => \A f \in DOMAIN c.files \ todo[p] :
                 m.tree[f] # Absent /\ m.tree[f].stamp = c.files[f].stamp
    <3> SUFFICES ASSUME pc[p] \in {"rescan", "recheck"}
                 PROVE  \E m \in past'[p], n \in 0 .. edits' :
                          /\ Since(m, n)' /\ Dated(c, n)
                          /\ pc[p] = "recheck" => \A f \in DOMAIN c.files \ todo[p] :
                               m.tree[f] # Absent /\ m.tree[f].stamp = c.files[f].stamp
      OBVIOUS
    <3>1. PICK m \in past[p], n \in 0 .. edits :
            /\ Since(m, n) /\ Dated(c, n)
            /\ pc[p] = "recheck" => \A f \in DOMAIN c.files \ todo[p] :
                 m.tree[f] # Absent /\ m.tree[f].stamp = c.files[f].stamp
      BY DEF CandidateSeen
    <3>2. m \in past'[p] /\ n \in 0 .. edits' /\ Since(m, n)'
      BY <3>1, IndexAssumption DEF IndexTyped, WorldTyped
    <3> QED
      BY <3>1, <3>2
  <2>4. pc[p] = "recheck" =>
          /\ \A f \in DOMAIN c.files \ todo[p] : RowSeen(c, f, past'[p])
          /\ \A f \in Files \ (DOMAIN c.files \cup Omitted(c)) :
               \E m \in past'[p] : m.tree[f] = Absent
    BY SeenStaysSeen DEF CandidateSeen
  <2>5. pc[p] \in {"publish", "published"} =>
          VouchedFor(c, past'[p]) /\ ContentsSeen(c, past'[p])
    BY SeenStaysSeen DEF CandidateSeen
  <2> HIDE DEF c
  <2> QED
    BY <1>1, <2>1, <2>2, <2>3, <2>4, <2>5 DEF CandidateSeen
<1> QED
  BY <1>2, <1>3, <1>4

\* Commands that go on, and do not start, remember the same of each other and of
\* the slots.
LEMMA RunningKeeps ==
  ASSUME UNCHANGED past,
         \A q \in Procs : pc'[q] # "idle" => pc[q] # "idle" /\ answer'[q] = answer[q]
  PROVE  /\ Overlap => Overlap'
         /\ UNCHANGED slot => (SlotsExisted => SlotsExisted')
<1>1. Overlap => Overlap'
  BY DEF Overlap
<1>2. ASSUME UNCHANGED slot, SlotsExisted PROVE SlotsExisted'
  BY <1>2 DEF SlotsExisted, Dated, StampedAs
<1> QED
  BY <1>1, <1>2

LEMMA EditSeen ==
  ASSUME IndexTyped, IndexInv, Edit
  PROVE  IndexInv'
<1>1. /\ WorldTyped' /\ edits' = edits + 1 /\ UNCHANGED <<slot, pc, local, answer>>
      /\ \A p \in Procs :
           past'[p] = (IF pc[p] = "idle" THEN past[p] ELSE past[p] \cup {Moment'})
  BY EditTyped
<1>2. edits \in Nat /\ edits' \in Nat /\ edits <= edits'
  BY <1>1, IndexAssumption DEF IndexTyped, WorldTyped
<1>3. \A m : \A n \in 0 .. edits : Since(m, n) => Since(m, n)'
  BY SinceEdit
<1>4. ASSUME NEW p \in Procs
      PROVE  ListingSeen(p)' /\ CandidateSeen(p)' /\ SelectionSeen(p)'
  <2>1. SameCommand(p) /\ past[p] \subseteq past'[p]
    BY <1>1 DEF SameCommand, local
  <2> QED
    BY <1>2, <1>3, <2>1, SameCommandSeen DEF IndexInv
<1>5. IndexTyped'
  BY TypeStep DEF Next
<1>6. ASSUME NEW p \in Procs PROVE Remembers(p)'
  <2> SUFFICES ASSUME pc[p] # "idle" PROVE Remembers(p)'
    BY <1>1 DEF Remembers
  <2>1. /\ past'[p] = past[p] \cup {Moment'} /\ answer'[p] = answer[p]
        /\ listing'[p] = listing[p] /\ answer[p].edits \in 0 .. edits
    BY <1>1 DEF local, IndexTyped, CommandTyped
  <2>2. \A m \in past'[p] : Before(m, edits')
    <3>1. Before(Moment', edits')
      BY <1>1, <1>2 DEF WorldTyped, Before, Moment
    <3>2. ASSUME NEW m \in past[p] PROVE Before(m, edits')
      <4>1. Before(m, edits)
        BY DEF IndexInv, Remembers
      <4>2. edits' = edits + 1
        BY <1>1
      <4> QED
        BY <1>2, <4>1, <4>2 DEF Before
    <3> QED
      BY <2>1, <3>1, <3>2
  <2>3. PICK m \in past[p] :
          /\ Since(m, answer[p].edits)
          /\ \A f \in Files :
               listing[p][f] # Absent /\ listing[p][f].stamp <= answer[p].edits =>
                 m.tree[f] # Absent /\ m.tree[f].stamp = listing[p][f].stamp
    BY DEF IndexInv, Remembers
  <2>4. Since(m, answer[p].edits)'
    BY <1>3, <2>1, <2>3
  <2> QED
    BY <2>1, <2>2, <2>3, <2>4 DEF Remembers
<1>7. Overlap'
  BY <1>1 DEF Overlap, IndexInv
<1>8. SlotsExisted'
  <2>1. slot' = slot /\ pc' = pc /\ answer' = answer /\ \A p \in Procs : past[p] \subseteq past'[p]
    BY <1>1
  <2>2. ASSUME NEW g \in Grades, NEW p \in Procs, slot[g] # None, pc[p] # "idle"
        PROVE  Dated(slot[g], answer[p].edits) \/ \E m \in past'[p] : StampedAs(slot[g], m)
    BY <2>1, <2>2 DEF IndexInv, SlotsExisted
  <2> QED
    BY <2>1, <2>2 DEF SlotsExisted, Dated, StampedAs
<1> QED
  BY <1>4, <1>6, <1>7, <1>8 DEF IndexInv

\* A command that goes on walks the tree, has not begun to, or is done with it.
LEMMA FailEnds ==
  ASSUME OfProcesses, NEW p \in Procs, NEW l, Fail(p, l)
  PROVE  \E m, s : Finish(p, m, s) /\ pc'[p] = "idle"
BY FinishEnds DEF Fail

LEMMA GoesOn ==
  ASSUME OfProcesses, NEW p \in Procs, Step(p) \/ GiveUp(p), pc'[p] # "idle"
  PROVE  /\ pc[p] # "idle" /\ UNCHANGED <<world, answer, cmd, past>>
         /\ ~Publish(p) => UNCHANGED slot
         /\ ~ListFile(p) =>
              /\ UNCHANGED listing
              /\ \/ pc'[p] = "prior"
                 \/ pc'[p] \in {"scan", "rescan"} /\ todo'[p] = Files
                 \/ /\ pc[p] # "prior" /\ pc'[p] \notin {"list", "scan", "rescan"}
                    /\ pc[p] \in {"list", "scan", "rescan"} => todo[p] = {}
<1>1. \A l, s : ~Finish(p, l, s)
  BY FinishEnds
<1>2. \A l : ~Fail(p, l)
  BY FailEnds
<1> USE <1>1, <1>2 DEF OfProcesses, Goto, Walk, local
<1>3. CASE ListFile(p)
  BY <1>3 DEF ListFile, Publish
<1>4. CASE Compare(p)
  BY <1>4 DEF Compare, Publish, ListFile
<1>5. CASE Verify(p)
  BY <1>5 DEF Verify, Publish
<1>6. CASE BeginRefresh(p) \/ Plan(p)
  BY <1>6 DEF BeginRefresh, Plan, Publish
<1>7. CASE Read(p)
  BY <1>7 DEF Read, PrepareAgain, Publish
<1>8. CASE Assemble(p)
  BY <1>8 DEF Assemble, Publish
<1>9. CASE Recheck(p)
  BY <1>9 DEF Recheck, RefreshAgain, Publish
<1>10. CASE RecheckFile(p)
  BY <1>10 DEF RecheckFile, RefreshAgain, Publish
<1>11. CASE RecheckManifest(p)
  BY <1>11 DEF RecheckManifest, RefreshAgain, Publish
<1>12. CASE Publish(p)
  BY <1>12 DEF Publish
<1>13. CASE Answer(p) \/ GiveUp(p)
  BY <1>13 DEF Answer, GiveUp
<1> QED
  BY <1>3, <1>4, <1>5, <1>6, <1>7, <1>8, <1>9, <1>10, <1>11, <1>12, <1>13 DEF Step

LEMMA EntryTells ==
  ASSUME WorldTyped, NEW f \in Files
  PROVE  /\ Entry(f) = Absent <=> tree[f] = Absent
         /\ tree[f] # Absent => /\ Entry(f).stamp = tree[f].stamp
                                /\ Entry(f).big <=> Nature(f) = "oversized"
                                /\ Nature(f) \in Natures
<1>1. ASSUME tree[f] # Absent
      PROVE  /\ Entry(f) = [stamp |-> tree[f].stamp, big |-> Nature(f) = "oversized"]
             /\ tree[f].stamp \in Nat /\ Nature(f) \in Natures
  BY <1>1, IndexAssumption DEF WorldTyped, Entry, Nature
<1>2. ASSUME tree[f] # Absent PROVE Entry(f) # Absent
  <2>1. tree[f].stamp \in Nat
    BY <1>1, <1>2
  <2>2. Entry(f) \in [stamp : Nat, big : BOOLEAN]
    BY <1>2, <2>1 DEF Entry
  <2> QED
    BY <2>2, IndexAssumption
<1> QED
  BY <1>1, <1>2 DEF Entry

LEMMA OwnRemembers ==
  ASSUME IndexTyped, IndexInv, NEW p \in Procs, Step(p) \/ GiveUp(p), pc'[p] # "idle"
  PROVE  Remembers(p)'
<1>1. /\ pc[p] # "idle" /\ UNCHANGED <<world, answer, past>>
      /\ ~ListFile(p) => UNCHANGED listing
  BY GoesOn DEF IndexTyped
<1>2. Moment \in past[p] /\ \A m \in past[p] : Before(m, edits)
  BY <1>1 DEF IndexInv, Remembers
<1>3. PICK m \in past[p] :
        /\ Since(m, answer[p].edits)
        /\ \A f \in Files :
             listing[p][f] # Absent /\ listing[p][f].stamp <= answer[p].edits =>
               m.tree[f] # Absent /\ m.tree[f].stamp = listing[p][f].stamp
  BY <1>1 DEF IndexInv, Remembers
<1>4. /\ Since(m, answer[p].edits)' /\ past'[p] = past[p]
      /\ \A n \in past[p] : Before(n, edits')
      /\ Moment' = Moment /\ answer'[p] = answer[p]
  BY <1>1, <1>2, <1>3, SinceStays DEF world, Moment, Since
<1>5. \A f \in Files : listing'[p][f] # Absent /\ listing'[p][f].stamp <= answer[p].edits =>
        m.tree[f] # Absent /\ m.tree[f].stamp = listing'[p][f].stamp
  <2>1. CASE ListFile(p)
    <3>1. PICK f \in todo[p] : listing' = [listing EXCEPT ![p][f] = Entry(f)]
      BY <2>1 DEF ListFile
    <3>2. f \in Files /\ listing'[p] = [listing[p] EXCEPT ![f] = Entry(f)]
          /\ DOMAIN listing[p] = Files
      BY <3>1 DEF IndexTyped, OfProcesses, CommandTyped
    <3>3. Entry(f) # Absent => tree[f] # Absent /\ Entry(f).stamp = tree[f].stamp
      BY DEF Entry
    <3> QED
      BY <1>3, <3>2, <3>3 DEF Since
  <2>2. CASE ~ListFile(p)
    BY <1>1, <1>3, <2>2
  <2> QED
    BY <2>1, <2>2
<1> QED
  BY <1>2, <1>4, <1>5 DEF Remembers

LEMMA OwnListing ==
  ASSUME IndexTyped, IndexInv, NEW p \in Procs, Step(p) \/ GiveUp(p), pc'[p] # "idle"
  PROVE  ListingSeen(p)'
<1>1. pc[p] # "idle" /\ UNCHANGED past
  BY GoesOn DEF IndexTyped
<1>2. ListingSeen(p) /\ Moment \in past[p]
  BY <1>1 DEF IndexInv, Remembers
<1>3. CASE ListFile(p)
  <2>1. PICK f \in todo[p] : listing' = [listing EXCEPT ![p][f] = Entry(f)]
                             /\ todo' = [todo EXCEPT ![p] = @ \ {f}]
    BY <1>3 DEF ListFile
  <2>2. f \in Files /\ listing'[p] = [listing[p] EXCEPT ![f] = Entry(f)]
        /\ DOMAIN listing[p] = Files /\ todo'[p] = todo[p] \ {f} /\ UNCHANGED pc
    BY <1>3, <2>1 DEF IndexTyped, OfProcesses, CommandTyped, ListFile
  <2>3. /\ Entry(f) # Absent => \E m \in past[p] : m.tree[f] # Absent
        /\ Entry(f) = Absent => \E m \in past[p] : m.tree[f] = Absent
    <3>1. Moment.tree = tree
      BY DEF Moment
    <3>2. Entry(f) = Absent <=> tree[f] = Absent
      BY <2>2, EntryTells DEF IndexTyped
    <3> QED
      BY <1>2, <3>1, <3>2
  <2> QED
    BY <1>1, <1>2, <2>2, <2>3 DEF ListingSeen, WalkDone
<1>4. CASE ~ListFile(p)
  BY <1>1, <1>2, <1>4, GoesOn DEF IndexTyped, ListingSeen, WalkDone
<1> QED
  BY <1>3, <1>4

\* What looks current has rows of no file that is not listed: compatibility takes
\* the set of paths in.
LEMMA RowsAreSources ==
  ASSUME NEW p \in Procs, LooksCurrent(p, seen[p])
  PROVE  DOMAIN StoredFiles(seen[p]) \subseteq Sources(p)
<1>1. DOMAIN seen[p].files \subseteq Sources(p)
  BY DEF LooksCurrent, IsCompatible, Retained
<1>2. CASE StoredFiles(seen[p]) = NoFiles
  BY <1>2 DEF NoFiles
<1>3. CASE DOMAIN StoredFiles(seen[p]) = DOMAIN seen[p].files
  BY <1>1, <1>3
<1> QED
  BY <1>2, <1>3, StoredRows, SameIdSameNames

\* What looks current was so: what a complete walk has not listed, or found too
\* large, the snapshot does not have, and its rows had their stamps at one moment.
LEMMA CompareVouches ==
  ASSUME IndexTyped, IndexInv, NEW p \in Procs, pc[p] = "list", todo[p] = {},
         LooksCurrent(p, seen[p])
  PROVE  VouchedFor([seen[p] EXCEPT !.files = StoredFiles(seen[p])], past[p])
<1> DEFINE c == seen[p]
           d == [c EXCEPT !.files = StoredFiles(c)]
<1>1. /\ c = [manifest |-> c.manifest, files |-> c.files, omissions |-> c.omissions]
      /\ Omitted(c) \cap DOMAIN c.files = {} /\ DOMAIN c.files \subseteq Files
  BY DEF IndexTyped, CommandTyped, Snapshot
<1>2. d.manifest = c.manifest /\ d.omissions = c.omissions /\ d.files = StoredFiles(c)
      /\ Omitted(d) = Omitted(c)
  BY <1>1 DEF Omitted
<1>3. /\ c.manifest = manifest /\ BudgetOmissions(p) \subseteq c.omissions
      /\ \A f \in Sources(p) \cap DOMAIN StoredFiles(c) :
           StoredFiles(c)[f].stamp = listing[p][f].stamp
      /\ Sources(p) \subseteq DOMAIN StoredFiles(c) \cup Omitted(c)
  BY DEF LooksCurrent, IsCompatible, SameStamps
<1>4. \A f \in Files \ DOMAIN d.files :
        \E m \in past[p] : m.tree[f] = Absent \/ f \in Omitted(d)
  <2> SUFFICES ASSUME NEW f \in Files \ DOMAIN d.files
               PROVE  \E m \in past[p] : m.tree[f] = Absent \/ f \in Omitted(d)
    OBVIOUS
  <2>1. CASE listing[p][f] = Absent
    BY <2>1 DEF IndexInv, ListingSeen, WalkDone
  <2>2. CASE listing[p][f] # Absent
    <3>1. f \in Sources(p) \/ f \in Oversized(p)
      BY <2>2 DEF Sources, Listed
    <3>2. f \in Oversized(p) => f \in Omitted(c)
      <4>1. Omission(f, "too-large").file = f
        BY DEF Omission
      <4> QED
        BY <1>3, <4>1 DEF BudgetOmissions, Omitted
    <3>3. Moment \in past[p]
      BY DEF IndexInv, Remembers
    <3> QED
      BY <1>2, <1>3, <3>1, <3>2, <3>3
  <2> QED
    BY <2>1, <2>2
<1>5. \E m \in past[p] : StampedAs(d, m)
  <2>1. CASE StoredFiles(c) = NoFiles
    <3>1. Moment \in past[p] /\ Moment.manifest = manifest
      BY DEF IndexInv, Remembers, Moment
    <3> QED
      BY <1>2, <1>3, <2>1, <3>1 DEF NoFiles, StampedAs
  <2>2. ASSUME NEW g \in Grades, slot[g] # None, Id(slot[g]) = Id(c),
               StoredFiles(c) = slot[g].files
        PROVE  \E m \in past[p] : StampedAs(d, m)
    <3>1. DOMAIN d.files = DOMAIN c.files /\ slot[g].manifest = manifest /\ d.files = slot[g].files
      BY <1>2, <1>3, <2>2, SameIdSameNames
    <3>2. DOMAIN d.files \subseteq Sources(p)
      BY <1>2, RowsAreSources
    <3>3. \A f \in DOMAIN d.files : /\ f \in Files /\ listing[p][f] # Absent
                                    /\ d.files[f].stamp = listing[p][f].stamp
      BY <1>2, <1>3, <3>1, <3>2 DEF Sources, Listed
    <3>4. CASE Dated(slot[g], answer[p].edits)
      <4>1. PICK m \in past[p] :
              /\ Since(m, answer[p].edits)
              /\ \A f \in Files :
                   listing[p][f] # Absent /\ listing[p][f].stamp <= answer[p].edits =>
                     m.tree[f] # Absent /\ m.tree[f].stamp = listing[p][f].stamp
        BY DEF IndexInv, Remembers
      <4>2. m.manifest = d.manifest
        BY <1>2, <1>3, <3>1, <3>4, <4>1 DEF Dated, Since
      <4>3. \A f \in DOMAIN d.files : m.tree[f] # Absent /\ m.tree[f].stamp = d.files[f].stamp
        BY <3>1, <3>3, <3>4, <4>1 DEF Dated
      <4> HIDE DEF d
      <4> QED
        BY <4>2, <4>3 DEF StampedAs
    <3>5. CASE \E m \in past[p] : StampedAs(slot[g], m)
      <4> HIDE DEF d
      <4> QED
        BY <1>2, <1>3, <3>1, <3>5 DEF StampedAs
    <3> QED
      BY <2>2, <3>4, <3>5 DEF IndexInv, SlotsExisted
  <2> QED
    BY <2>1, <2>2, StoredRows
<1> HIDE DEF d
<1>6. VouchedFor(d, past[p])
  BY <1>4, <1>5 DEF VouchedFor, StampedAs
<1> QED
  BY <1>6 DEF d

LEMMA OwnSelection ==
  ASSUME IndexTyped, IndexInv, NEW p \in Procs, Step(p) \/ GiveUp(p), pc'[p] = "verify"
  PROVE  SelectionSeen(p)'
<1>1. pc[p] # "idle" /\ UNCHANGED <<world, past>>
  BY GoesOn DEF IndexTyped
<1>2. Compare(p) \/ Verify(p)
  <2>1. \A l, s : ~Finish(p, l, s) /\ ~Fail(p, l)
    BY FinishEnds, FailEnds DEF IndexTyped
  <2> QED
    BY <2>1 DEF IndexTyped, OfProcesses, Step, GiveUp, ListFile, BeginRefresh, Plan, Read,
         PrepareAgain, Assemble, Recheck, RecheckFile, RecheckManifest, RefreshAgain,
         Publish, Answer, Walk, Goto
<1>3. CASE Compare(p)
  <2> DEFINE d == [seen[p] EXCEPT !.files = StoredFiles(seen[p])]
  <2>1. /\ pc[p] = "list" /\ todo[p] = {} /\ LooksCurrent(p, seen[p])
        /\ seen'[p] = d /\ todo'[p] = Sources(p) \cap DOMAIN d.files
    BY <1>3, FinishEnds DEF IndexTyped, OfProcesses, Compare, Goto
  <2>2. d.files = StoredFiles(seen[p])
    BY <2>1 DEF IndexTyped, CommandTyped, Snapshot
  <2>3. VouchedFor(d, past[p]) /\ DOMAIN d.files \subseteq Sources(p)
    BY <2>1, <2>2, CompareVouches, RowsAreSources
  <2> HIDE DEF d
  <2> QED
    BY <1>1, <2>1, <2>3 DEF SelectionSeen
<1>4. CASE Verify(p)
  <2>1. PICK f \in todo[p] :
          /\ tree[f].content = seen[p].files[f].content /\ Reading(p, f) = "file"
          /\ todo' = [todo EXCEPT ![p] = @ \ {f}]
          /\ UNCHANGED <<pc, seen>>
    BY <1>4, FinishEnds DEF IndexTyped, OfProcesses, Verify, Goto
  <2>2. Moment \in past[p] /\ Moment.tree = tree
    BY <1>1 DEF IndexInv, Remembers, Moment
  <2>3. RowSeen(seen[p], f, past[p])
    BY <2>1, <2>2, ReadingOutcomes DEF RowSeen
  <2>4. todo'[p] = todo[p] \ {f} /\ seen'[p] = seen[p] /\ pc[p] = "verify"
    BY <1>4, <2>1 DEF IndexTyped, OfProcesses, Verify
  <2> QED
    BY <1>1, <2>3, <2>4 DEF IndexInv, SelectionSeen
<1> QED
  BY <1>2, <1>3, <1>4

LEMMA OwnCandidate ==
  ASSUME IndexTyped, IndexInv, NEW p \in Procs, Step(p) \/ GiveUp(p), pc'[p] # "idle"
  PROVE  CandidateSeen(p)'
<1> SUFFICES ASSUME pc'[p] \in Prepared PROVE CandidateSeen(p)'
  BY DEF CandidateSeen, Prepared
<1> DEFINE c == candidate[p]
<1>1. pc[p] # "idle" /\ UNCHANGED <<world, past, cmd>>
  BY GoesOn DEF IndexTyped
<1>2. Moment \in past[p] /\ Moment.tree = tree /\ CandidateSeen(p) /\ ListingSeen(p)
  BY <1>1 DEF IndexInv, Remembers, Moment
<1>3. \A l, s : ~Finish(p, l, s) /\ ~Fail(p, l)
  BY <1>1, FinishEnds, FailEnds DEF IndexTyped
<1>4. \/ ListFile(p) \/ Assemble(p) \/ Recheck(p) \/ RecheckFile(p) \/ RecheckManifest(p)
      \/ Publish(p)
  BY <1>3, ZenonT(40) DEF IndexTyped, OfProcesses, Step, GiveUp, Compare, Verify, BeginRefresh,
     Plan, Read, PrepareAgain, Answer, Walk, Goto, Prepared
<1>5. ~RefreshAgain(p)
  BY <1>3 DEF IndexTyped, OfProcesses, RefreshAgain, Walk, Goto, Prepared
<1>6. /\ \A m, n : Since(m, n)' = Since(m, n)
      /\ edits' = edits /\ past'[p] = past[p] /\ cmd'[p] = cmd[p]
  BY <1>1, SinceStays DEF world
<1>7. pc[p] \in Prepared =>
        /\ Snapshot(c) /\ Dated(c, edits)
        /\ c.omissions # {} => cmd[p].partial
        /\ \A f \in Omitted(c) : \E m \in past[p] : m.tree[f] # Absent
  BY <1>2 DEF CandidateSeen, IndexTyped, CommandTyped
<1>8. CASE ListFile(p)
  <2>1. pc' = pc /\ candidate' = candidate /\ pc'[p] = "rescan"
    BY <1>8 DEF ListFile, Prepared
  <2>2. PICK m \in past[p], n \in 0 .. edits : Since(m, n) /\ Dated(c, n)
    BY <1>2, <2>1 DEF CandidateSeen
  <2>3. /\ c.omissions # {} => cmd[p].partial
        /\ \A f \in Omitted(c) : \E k \in past[p] : k.tree[f] # Absent
    BY <1>7, <2>1
  <2> HIDE DEF c
  <2> QED
    BY <1>6, <2>1, <2>2, <2>3 DEF CandidateSeen, c
<1>9. CASE Assemble(p)
  <2> DEFINE d == Assembled(p)
  <2>1. /\ candidate'[p] = d /\ pc'[p] = "rescan" /\ pc[p] = "read" /\ todo[p] = {}
        /\ d.omissions # {} => cmd[p].partial
    BY <1>3, <1>9 DEF IndexTyped, OfProcesses, Assemble, Walk, Goto
  <2>2. Dated(d, edits) /\ Omitted(d) \subseteq Listed(p)
    BY <2>1, AssembledTyped DEF IndexTyped
  <2>3. \A f \in Omitted(d) : \E m \in past[p] : m.tree[f] # Absent
    BY <1>1, <1>2, <2>2 DEF ListingSeen, Listed
  <2>4. Since(Moment, edits) /\ edits \in 0 .. edits
    BY SinceNow, IndexAssumption DEF IndexTyped, WorldTyped
  <2> HIDE DEF d
  <2> QED
    BY <1>2, <1>6, <2>1, <2>2, <2>3, <2>4 DEF CandidateSeen
<1>10. CASE Recheck(p)
  <2>1. /\ SourcesAccountedFor(p, c) /\ pc[p] = "rescan" /\ pc'[p] = "recheck"
        /\ todo[p] = {} /\ candidate' = candidate
        /\ todo'[p] = DOMAIN c.files \cup (Omitted(c) \cap Sources(p))
    BY <1>5, <1>10 DEF IndexTyped, OfProcesses, Recheck, Goto
  <2>2. ASSUME NEW f \in Files \ (DOMAIN c.files \cup Omitted(c))
        PROVE  \E m \in past[p] : m.tree[f] = Absent
    <3>1. f \notin Sources(p)
      BY <2>1 DEF SourcesAccountedFor
    <3>2. f \notin Oversized(p)
      <4>1. Omission(f, "too-large").file = f
        BY DEF Omission
      <4> QED
        BY <2>1, <2>2, <4>1 DEF SourcesAccountedFor, BudgetOmissions, Omitted
    <3>3. listing[p][f] = Absent
      BY <3>1, <3>2 DEF Sources, Listed
    <3> QED
      BY <1>2, <2>1, <3>3 DEF ListingSeen, WalkDone
  <2>3. PICK m \in past[p], n \in 0 .. edits : Since(m, n) /\ Dated(c, n)
    BY <1>2, <2>1 DEF CandidateSeen
  <2>4. /\ c.omissions # {} => cmd[p].partial
        /\ \A f \in Omitted(c) : \E k \in past[p] : k.tree[f] # Absent
    BY <1>7, <2>1 DEF Prepared
  <2>5. candidate'[p] = c /\ DOMAIN c.files \ todo'[p] = {}
    BY <2>1
  <2> HIDE DEF c
  <2> QED
    BY <1>6, <2>1, <2>2, <2>3, <2>4, <2>5 DEF CandidateSeen
<1>11. CASE RecheckFile(p)
  <2>1. PICK f \in todo[p] : StillHolds(p, f) /\ todo' = [todo EXCEPT ![p] = @ \ {f}]
                             /\ UNCHANGED <<pc, candidate>>
    BY <1>5, <1>11 DEF RecheckFile
  <2>2. /\ todo'[p] = todo[p] \ {f} /\ pc[p] = "recheck" /\ pc'[p] = "recheck"
        /\ candidate'[p] = c
    BY <1>11, <2>1 DEF IndexTyped, OfProcesses, RecheckFile
  <2>3. f \in DOMAIN c.files => /\ tree[f] # Absent /\ tree[f].stamp = c.files[f].stamp
                                /\ tree[f].content = c.files[f].content
    BY <2>1, ReadingOutcomes DEF StillHolds, MatchesRecord
  <2>4. PICK m \in past[p], n \in 0 .. edits :
          /\ Since(m, n) /\ Dated(c, n)
          /\ \A g \in DOMAIN c.files \ todo[p] :
               m.tree[g] # Absent /\ m.tree[g].stamp = c.files[g].stamp
    BY <1>2, <2>2 DEF CandidateSeen
  <2>5. DOMAIN c.files \subseteq Files
    BY <1>7, <2>2 DEF Prepared, Snapshot
  <2>6. \A g \in DOMAIN c.files \ todo'[p] :
          m.tree[g] # Absent /\ m.tree[g].stamp = c.files[g].stamp
    BY <2>2, <2>3, <2>4, <2>5 DEF Since, Dated
  <2>7. \A g \in DOMAIN c.files \ todo'[p] : RowSeen(c, g, past[p])
    <3>1. f \in DOMAIN c.files => RowSeen(c, f, past[p])
      BY <1>2, <2>3 DEF RowSeen
    <3> QED
      BY <1>2, <2>2, <3>1 DEF CandidateSeen
  <2>8. \A g \in Files \ (DOMAIN c.files \cup Omitted(c)) : \E k \in past[p] : k.tree[g] = Absent
    BY <1>2, <2>2 DEF CandidateSeen
  <2>9. /\ c.omissions # {} => cmd[p].partial
        /\ \A g \in Omitted(c) : \E k \in past[p] : k.tree[g] # Absent
    BY <1>7, <2>2 DEF Prepared
  <2> HIDE DEF c
  <2> QED
    BY <1>6, <2>2, <2>4, <2>6, <2>7, <2>8, <2>9 DEF CandidateSeen
<1>12. CASE RecheckManifest(p)
  <2>1. /\ pc[p] = "recheck" /\ pc'[p] = "publish" /\ todo[p] = {} /\ candidate'[p] = c
        /\ c.manifest = manifest
    BY <1>5, <1>12 DEF IndexTyped, OfProcesses, RecheckManifest, IsCompatible, Goto, local
  <2>2. PICK m \in past[p], n \in 0 .. edits :
          /\ Since(m, n) /\ Dated(c, n)
          /\ \A g \in DOMAIN c.files \ todo[p] :
               m.tree[g] # Absent /\ m.tree[g].stamp = c.files[g].stamp
    BY <1>2, <2>1 DEF CandidateSeen
  <2>3. VouchedFor(c, past[p])
    <3>1. c.manifest = m.manifest
      BY <2>1, <2>2 DEF Since, Dated
    <3>2. \A f \in Files \ DOMAIN c.files : \E k \in past[p] : k.tree[f] = Absent \/ f \in Omitted(c)
      BY <1>2, <2>1 DEF CandidateSeen
    <3> QED
      BY <2>1, <2>2, <3>1, <3>2 DEF VouchedFor
  <2>4. ContentsSeen(c, past[p])
    BY <1>2, <2>1 DEF CandidateSeen, ContentsSeen, RowSeen
  <2>5. /\ c.omissions # {} => cmd[p].partial
        /\ \A g \in Omitted(c) : \E k \in past[p] : k.tree[g] # Absent
    BY <1>7, <2>1 DEF Prepared
  <2> HIDE DEF c
  <2> QED
    BY <1>6, <2>1, <2>3, <2>4, <2>5 DEF CandidateSeen
<1>13. CASE Publish(p)
  <2>1. pc[p] = "publish" /\ pc'[p] = "published" /\ candidate'[p] = c
    BY <1>3, <1>13 DEF IndexTyped, OfProcesses, Publish, Goto, local
  <2>2. /\ c.omissions # {} => cmd[p].partial
        /\ \A g \in Omitted(c) : \E k \in past[p] : k.tree[g] # Absent
        /\ VouchedFor(c, past[p]) /\ ContentsSeen(c, past[p])
    BY <1>2, <1>7, <2>1 DEF Prepared, CandidateSeen
  <2> HIDE DEF c
  <2> QED
    BY <1>6, <2>1, <2>2 DEF CandidateSeen
<1> QED
  BY <1>4, <1>8, <1>9, <1>10, <1>11, <1>12, <1>13

\* The commands beside the one that steps.
LEMMA OthersSeen ==
  ASSUME IndexTyped, IndexInv, NEW p \in Procs, Start(p) \/ Step(p) \/ GiveUp(p),
         NEW q \in Procs \ {p}
  PROVE  Remembers(q)' /\ ListingSeen(q)' /\ CandidateSeen(q)' /\ SelectionSeen(q)'
<1>1. SameCommand(q) /\ past'[q] = past[q]
  BY StepAlone DEF Alone, IndexTyped
<1>2. UNCHANGED <<tree, manifest, rules, edits>> /\ edits \in Nat
  BY StepKeeps, IndexAssumption DEF IndexTyped, WorldTyped, world
<1>3. \A m, n : Since(m, n)' = Since(m, n)
  BY <1>2, SinceStays
<1>4. Moment' = Moment /\ pc'[q] = pc[q] /\ answer'[q] = answer[q] /\ listing'[q] = listing[q]
  BY <1>1, <1>2 DEF Moment, SameCommand
<1>5. Remembers(q)'
  BY <1>1, <1>2, <1>3, <1>4 DEF IndexInv, Remembers
<1>6. ListingSeen(q)' /\ CandidateSeen(q)' /\ SelectionSeen(q)'
  BY <1>1, <1>2, <1>3, SameCommandSeen DEF IndexInv
<1> QED
  BY <1>5, <1>6

LEMMA StartSeen ==
  ASSUME IndexTyped, IndexInv, NEW p \in Procs, Start(p)
  PROVE  IndexInv'
<1>1. /\ pc[p] = "idle" /\ pc'[p] \in {"list", "prior"}
      /\ pc'[p] = "list" => todo'[p] = Files
      /\ past'[p] = {Moment} /\ answer'[p].edits = edits /\ listing'[p] = listing[p]
      /\ UNCHANGED <<tree, manifest, rules, edits, slot>>
  BY DEF Start, IndexTyped, OfProcesses, NoAnswer, Goto, Walk, world
<1>2. /\ \A q \in Procs \ {p} : /\ pc'[q] = pc[q] /\ answer'[q] = answer[q] /\ past'[q] = past[q]
                                /\ Remembers(q) /\ Remembers(q)'
      /\ listing[p] = Nowhere
  BY <1>1, StepAlone, OthersSeen DEF Alone, IndexTyped, SameCommand, CommandTyped, IndexInv
<1>3. Since(Moment, edits)' /\ Before(Moment, edits)
  BY <1>1, SinceNow, SinceStays DEF Moment, Since
<1>4. Remembers(p)'
  BY <1>1, <1>2, <1>3 DEF Remembers, Moment, Nowhere
<1>5. ListingSeen(p)' /\ CandidateSeen(p)' /\ SelectionSeen(p)'
  BY <1>1, <1>2 DEF ListingSeen, WalkDone, Nowhere, CandidateSeen, SelectionSeen, Prepared
<1>6. Overlap'
  <2> SUFFICES ASSUME NEW r \in Procs, NEW q \in Procs, pc'[r] # "idle", pc'[q] # "idle",
                      NEW m \in past'[q]
               PROVE  m \in past'[r] \/ Before(m, answer'[r].edits)
    BY DEF Overlap
  <2>1. CASE r # p /\ q # p
    BY <1>2, <2>1 DEF IndexInv, Overlap
  <2>2. CASE r = p
    <3>1. CASE q = p
      BY <2>2, <3>1
    <3>2. CASE q # p
      BY <1>1, <1>2, <2>2, <3>2 DEF Remembers
    <3> QED
      BY <3>1, <3>2
  <2>3. CASE r # p /\ q = p
    BY <1>1, <1>2, <2>3 DEF Remembers
  <2> QED
    BY <2>1, <2>2, <2>3
<1>7. SlotsExisted'
  <2> SUFFICES ASSUME NEW g \in Grades, NEW q \in Procs, slot[g] # None, pc'[q] # "idle"
               PROVE  Dated(slot[g], answer'[q].edits) \/ \E m \in past'[q] : StampedAs(slot[g], m)
    BY <1>1 DEF SlotsExisted, Dated, StampedAs
  <2>1. CASE q = p
    BY <1>1, <2>1 DEF IndexTyped, SlotsTyped
  <2>2. CASE q # p
    BY <1>2, <2>2 DEF IndexInv, SlotsExisted
  <2> QED
    BY <2>1, <2>2
<1> QED
  BY <1>4, <1>5, <1>6, <1>7, OthersSeen DEF IndexInv

\* A snapshot is published while a moment at which it had its stamps is remembered
\* by the other commands, or lies before them.
LEMMA PublishSeen ==
  ASSUME IndexTyped, IndexInv, NEW p \in Procs, Publish(p), pc'[p] # "idle"
  PROVE  SlotsExisted'
<1> DEFINE c == candidate[p]
<1>1. /\ pc[p] = "publish" /\ slot' = [slot EXCEPT ![Grade(c)] = c]
      /\ pc' = [pc EXCEPT ![p] = "published"] /\ UNCHANGED <<past, answer>>
  BY FailEnds DEF Publish, SlotFor, IndexTyped, Goto
<1>2. \A q \in Procs : pc'[q] # "idle" => pc[q] # "idle"
  BY <1>1 DEF IndexTyped, OfProcesses
<1>3. VouchedFor(c, past[p]) /\ Snapshot(c)
  BY <1>1 DEF IndexInv, CandidateSeen, IndexTyped, CommandTyped, Prepared
<1>4. PICK m \in past[p] : StampedAs(c, m)
  BY <1>3 DEF VouchedFor, StampedAs
<1>5. ASSUME NEW q \in Procs, pc[q] # "idle"
      PROVE  Dated(c, answer[q].edits) \/ \E n \in past[q] : StampedAs(c, n)
  <2>1. CASE m \in past[q]
    BY <1>4, <2>1
  <2>2. CASE Before(m, answer[q].edits)
    BY <1>3, <1>4, <1>5, <2>2 DEF Before, Dated, StampedAs, Snapshot, IndexTyped, CommandTyped
  <2> QED
    BY <1>1, <1>5, <2>1, <2>2 DEF IndexInv, Overlap
<1>6. \A g \in Grades : slot'[g] = IF g = Grade(c) THEN c ELSE slot[g]
  BY <1>1 DEF IndexTyped, SlotsTyped
<1>7. ASSUME NEW g \in Grades, NEW q \in Procs, slot'[g] # None, pc[q] # "idle"
      PROVE  Dated(slot'[g], answer[q].edits) \/ \E n \in past[q] : StampedAs(slot'[g], n)
  BY <1>5, <1>6, <1>7 DEF IndexInv, SlotsExisted
<1> QED
  BY <1>1, <1>2, <1>7 DEF SlotsExisted, Dated, StampedAs

LEMMA StepSeen ==
  ASSUME IndexTyped, IndexInv, NEW p \in Procs, Step(p) \/ GiveUp(p)
  PROVE  IndexInv'
<1>1. UNCHANGED past /\ (~Publish(p) => UNCHANGED slot)
  <2>1. ~Start(p)
    BY DEF Start, Step, GiveUp, ListFile, Compare, Verify, BeginRefresh, Plan, Read, Assemble,
       Recheck, RecheckFile, RecheckManifest, Publish, Answer
  <2> QED
    BY <2>1, StepKeeps
<1>2. \A q \in Procs : pc'[q] # "idle" => pc[q] # "idle" /\ answer'[q] = answer[q]
  BY GoesOn, StepAlone DEF IndexTyped, Alone, SameCommand
<1>3. Overlap'
  BY <1>1, <1>2, RunningKeeps DEF IndexInv
<1>4. SlotsExisted'
  <2>1. CASE UNCHANGED slot
    BY <1>1, <1>2, <2>1, RunningKeeps DEF IndexInv
  <2>2. CASE Publish(p) /\ pc'[p] # "idle"
    BY <2>2, PublishSeen
  <2>3. CASE Publish(p) /\ pc'[p] = "idle"
    BY <2>1, <2>3 DEF Publish, IndexTyped, OfProcesses, Goto
  <2> QED
    BY <1>1, <2>1, <2>2, <2>3
<1>5. Remembers(p)' /\ ListingSeen(p)' /\ CandidateSeen(p)' /\ SelectionSeen(p)'
  <2>1. CASE pc'[p] = "idle"
    BY <2>1 DEF Remembers, ListingSeen, CandidateSeen, SelectionSeen, Prepared
  <2>2. CASE pc'[p] # "idle"
    BY <2>2, OwnRemembers, OwnListing, OwnCandidate, OwnSelection DEF SelectionSeen
  <2> QED
    BY <2>1, <2>2
<1> QED
  BY <1>3, <1>4, <1>5, OthersSeen DEF IndexInv

LEMMA SeenStep == IndexTyped /\ IndexInv /\ [Next]_vars => IndexInv'
<1> SUFFICES ASSUME IndexTyped, IndexInv, [Next]_vars PROVE IndexInv'
  OBVIOUS
<1>1. CASE Edit
  BY <1>1, EditSeen
<1>2. ASSUME UNCHANGED <<tree, manifest, rules, edits, pc, local, past, answer>>,
             UNCHANGED slot \/ slot' = [g \in Grades |-> None]
      PROVE  IndexInv'
  <2>1. UNCHANGED <<tree, manifest, rules, edits, pc, past, answer>>
    BY <1>2
  <2>2. edits \in Nat /\ Moment' = Moment /\ \A m, n : Since(m, n)' = Since(m, n)
    BY <2>1, SinceStays, IndexAssumption DEF IndexTyped, WorldTyped, Moment
  <2>3. Overlap' /\ SlotsExisted'
    BY <1>2, <2>1 DEF IndexInv, Overlap, SlotsExisted, Dated, StampedAs
  <2>4. ASSUME NEW p \in Procs
        PROVE  Remembers(p)' /\ ListingSeen(p)' /\ CandidateSeen(p)' /\ SelectionSeen(p)'
    <3>1. SameCommand(p) /\ past'[p] = past[p] /\ edits' = edits
      BY <1>2 DEF SameCommand, local
    <3>2. Remembers(p)'
      BY <2>2, <3>1 DEF IndexInv, Remembers, SameCommand
    <3> QED
      BY <2>2, <3>1, <3>2, SameCommandSeen DEF IndexInv
  <2> QED
    BY <2>3, <2>4 DEF IndexInv
<1>3. CASE Discard
  BY <1>2, <1>3 DEF Discard, world
<1>4. CASE Exhausted \/ UNCHANGED vars
  BY <1>2, <1>4 DEF Exhausted, vars, world
<1>5. ASSUME NEW p \in Procs, Start(p) \/ Step(p) \/ GiveUp(p) PROVE IndexInv'
  BY <1>5, StartSeen, StepSeen
<1> QED
  BY <1>1, <1>3, <1>4, <1>5 DEF Next

LEMMA IndexIsSeen == Spec => [](IndexTyped /\ IndexInv)
<1>1. Init => IndexInv
  BY DEF Init, IndexInv, Overlap, SlotsExisted, Remembers, ListingSeen, CandidateSeen,
         SelectionSeen, Prepared
<1> QED
  BY <1>1, InitIsTyped, TypeStep, SeenStep, PTL DEF Spec

\* What a command is about to publish existed: its files had their stamps at one
\* moment of the command, no source is missing, the bytes were seen, what is omitted
\* was there.
THEOREM PublishedTreesExist == Spec => []PublishedTreeExisted
<1>1. IndexInv => PublishedTreeExisted
  BY DEF IndexInv, CandidateSeen, PublishedTreeExisted, Prepared
<1> QED
  BY <1>1, IndexIsSeen, PTL

-----------------------------------------------------------------------------
\* What is answered.

Current(p) ==
  answer[p].label = "fresh" =>
    /\ VouchedFor(answer[p].served, past[p])
    /\ answer[p].by.kind = "index" /\ ~answer[p].by.trust =>
         ContentsSeen(answer[p].served, past[p])
AnswersInv ==
  \A p \in Procs :
    /\ answer[p].by.kind = "index" \/ QueriesStand => Current(p)
    /\ QueriesStand => Stands(p)

LEMMA FailLabel ==
  ASSUME OfProcesses, NEW p \in Procs, NEW l, Fail(p, l), l # "fresh"
  PROVE  answer'[p].label # "fresh" /\ pc'[p] = "idle"
BY FinishAnswers DEF Fail

\* A command answers, goes on without an answer, or says that it has none.
LEMMA OwnAnswer ==
  ASSUME IndexTyped, NEW p \in Procs, Step(p) \/ GiveUp(p)
  PROVE  \/ answer'[p].label # "fresh" /\ pc'[p] = "idle"
         \/ UNCHANGED answer /\ (Publish(p) \/ pc'[p] # "published")
         \/ Compare(p) \/ Verify(p) \/ Answer(p)
<1> USE DEF IndexTyped
<1>1. \A l : Fail(p, l) /\ l # "fresh" => answer'[p].label # "fresh" /\ pc'[p] = "idle"
  BY FailLabel
<1>2. \A s : Finish(p, "failed", s) => answer'[p].label # "fresh" /\ pc'[p] = "idle"
  BY FinishAnswers
<1>3. CASE ListFile(p) \/ BeginRefresh(p) \/ Plan(p)
  BY <1>3 DEF ListFile, BeginRefresh, Plan, OfProcesses, Walk, Goto
<1>4. CASE Read(p) \/ Assemble(p) \/ Publish(p)
  BY <1>1, <1>4 DEF Read, PrepareAgain, Assemble, Publish, OfProcesses, Walk, Goto
<1>5. CASE Recheck(p) \/ RecheckFile(p) \/ RecheckManifest(p)
  BY <1>1, <1>5 DEF Recheck, RecheckFile, RecheckManifest, RefreshAgain, OfProcesses, Walk, Goto
<1>6. CASE GiveUp(p)
  BY <1>1, <1>2, <1>6 DEF GiveUp
<1> QED
  BY <1>3, <1>4, <1>5, <1>6 DEF Step

\* What the check of currency, or the publication, vouches for.
LEMMA CompareAnswers ==
  ASSUME IndexTyped, IndexInv, NEW p \in Procs, Compare(p), answer'[p].label = "fresh"
  PROVE  Current(p)' /\ pc'[p] = "idle"
<1> DEFINE d == [seen[p] EXCEPT !.files = StoredFiles(seen[p])]
<1>1. pc[p] = "list" /\ todo[p] = {} /\ UNCHANGED past /\ cmd[p] # None
  BY DEF Compare, IndexTyped, CommandTyped
<1>2. answer[p].label = "none"
  BY <1>1 DEF IndexTyped, CommandTyped
<1>3. LooksCurrent(p, seen[p]) /\ ~ChecksContent(cmd[p]) /\ Finish(p, "fresh", d)
  BY <1>2 DEF Compare
<1>4. VouchedFor(d, past[p])
  BY <1>1, <1>3, CompareVouches
<1>5. answer'[p].served = d /\ answer'[p].by = cmd[p] /\ pc'[p] = "idle"
  BY <1>3, FinishAnswers DEF IndexTyped
<1> QED
  BY <1>1, <1>3, <1>4, <1>5 DEF Current, ChecksContent

LEMMA VerifyAnswers ==
  ASSUME IndexTyped, IndexInv, NEW p \in Procs, Verify(p), answer'[p].label = "fresh"
  PROVE  Current(p)' /\ pc'[p] = "idle"
<1>1. pc[p] = "verify" /\ UNCHANGED past
  BY DEF Verify
<1>2. answer[p].label = "none"
  BY <1>1 DEF IndexTyped, CommandTyped
<1>3. todo[p] = {} /\ Finish(p, "fresh", seen[p])
  BY <1>2 DEF Verify
<1>4. VouchedFor(seen[p], past[p]) /\ ContentsSeen(seen[p], past[p])
  BY <1>1, <1>3 DEF IndexInv, SelectionSeen, ContentsSeen, RowSeen
<1>5. answer'[p].served = seen[p] /\ pc'[p] = "idle"
  BY <1>3, FinishAnswers DEF IndexTyped
<1> QED
  BY <1>1, <1>4, <1>5 DEF Current

LEMMA PublisherAnswers ==
  ASSUME IndexTyped, IndexInv, AnswersInv, NEW p \in Procs, Answer(p),
         answer'[p].label = "fresh", cmd[p].kind = "index" \/ QueriesStand
  PROVE  Current(p)'
<1>1. pc[p] = "published" /\ UNCHANGED past /\ cmd[p] \in Commands
  BY DEF Answer, IndexTyped, CommandTyped
<1>2. VouchedFor(candidate[p], past[p]) /\ ContentsSeen(candidate[p], past[p])
  BY <1>1 DEF IndexInv, CandidateSeen
<1>3. Finish(p, "fresh", candidate[p])
  <2>1. CASE cmd[p].kind = "index"
    BY <2>1 DEF Answer
  <2>2. CASE cmd[p].kind # "index"
    <3>1. QueriesStand /\ Stands(p) /\ cmd[p].kind = "query" /\ ~cmd[p].partial
      BY <1>1, <2>2, CommandsAreRecords DEF QueriesStand, AnswersInv
    <3>2. Active(cmd[p].partial) # None => Active(cmd[p].partial) = candidate[p]
      BY <1>1, <3>1 DEF Stands, Active
    <3>3. ASSUME Finish(p, "not active", None) PROVE FALSE
      <4>1. answer'[p].label = "not active"
        BY <3>3, FinishAnswers DEF IndexTyped
      <4> QED
        BY <4>1
    <3> QED
      BY <2>2, <3>2, <3>3 DEF Answer
  <2> QED
    BY <2>1, <2>2
<1>4. answer'[p].served = candidate[p]
  BY <1>3, FinishAnswers DEF IndexTyped
<1> QED
  BY <1>1, <1>2, <1>4 DEF Current

\* A query that may publish alone publishes a complete snapshot.
LEMMA PublisherStands ==
  ASSUME IndexTyped, IndexInv, QueriesStand, NEW p \in Procs, Publish(p)
  PROVE  Stands(p)'
<1> SUFFICES ASSUME pc'[p] = "published", cmd'[p].kind = "query"
             PROVE  slot'["complete"] = candidate'[p]
  BY DEF Stands
<1>1. ~Fail(p, "conflict")
  BY FailEnds DEF IndexTyped
<1>2. /\ pc[p] = "publish" /\ cmd' = cmd /\ candidate' = candidate
      /\ slot' = [slot EXCEPT ![Grade(candidate[p])] = candidate[p]]
  BY <1>1 DEF Publish, SlotFor, local
<1>3. cmd[p] \in Commands /\ cmd[p].kind = "query"
  BY <1>2 DEF IndexTyped, CommandTyped
<1>4. ~cmd[p].partial
  BY <1>3 DEF QueriesStand
<1>5. candidate[p].omissions = {}
  BY <1>2, <1>4 DEF IndexInv, CandidateSeen, Prepared
<1> QED
  BY <1>2, <1>5 DEF Grade, IndexTyped, SlotsTyped, Grades

LEMMA CurrentStays ==
  ASSUME NEW p, answer'[p] = answer[p], past[p] \subseteq past'[p], Current(p)
  PROVE  Current(p)'
BY SeenStaysSeen DEF Current

LEMMA AnswersStep ==
  IndexTyped /\ IndexInv /\ AnswersInv /\ [Next]_vars => AnswersInv'
<1> SUFFICES ASSUME IndexTyped, IndexInv, AnswersInv, [Next]_vars PROVE AnswersInv'
  OBVIOUS
<1>0. QueriesStand' = QueriesStand
  BY DEF QueriesStand
<1>1. ASSUME NEW q \in Procs, SameCommand(q), past[q] \subseteq past'[q],
             UNCHANGED slot \/ slot' = [g \in Grades |-> None] \/ ~QueriesStand
      PROVE  /\ answer'[q].by.kind = "index" \/ QueriesStand => Current(q)'
             /\ QueriesStand => Stands(q)'
  <2>1. answer'[q] = answer[q] /\ pc'[q] = pc[q] /\ cmd'[q] = cmd[q] /\ candidate'[q] = candidate[q]
    BY <1>1 DEF SameCommand
  <2>2. answer'[q].by.kind = "index" \/ QueriesStand => Current(q)'
    BY <1>1, <2>1, CurrentStays DEF AnswersInv
  <2>3. QueriesStand => Stands(q)'
    BY <1>1, <2>1 DEF AnswersInv, Stands, Grades
  <2> QED
    BY <2>2, <2>3
<1>2. CASE Edit
  <2>1. UNCHANGED <<slot, pc, local, answer>> /\ \A p \in Procs : past[p] \subseteq past'[p]
    BY <1>2, EditTyped
  <2>2. \A p \in Procs : SameCommand(p)
    BY <2>1 DEF SameCommand, local
  <2> QED
    BY <1>0, <1>1, <2>1, <2>2 DEF AnswersInv
<1>3. CASE Discard \/ Exhausted \/ UNCHANGED vars
  <2>1. UNCHANGED <<pc, local, past, answer>>
        /\ (UNCHANGED slot \/ slot' = [g \in Grades |-> None])
    BY <1>3 DEF Discard, Exhausted, vars
  <2>2. \A p \in Procs : SameCommand(p) /\ past'[p] = past[p]
    BY <2>1 DEF SameCommand, local
  <2> QED
    BY <1>0, <1>1, <2>1, <2>2 DEF AnswersInv
<1>4. ASSUME NEW p \in Procs, Start(p) \/ Step(p) \/ GiveUp(p) PROVE AnswersInv'
  <2>1. ASSUME NEW q \in Procs \ {p}
        PROVE  /\ answer'[q].by.kind = "index" \/ QueriesStand => Current(q)'
               /\ QueriesStand => Stands(q)'
    <3>1. SameCommand(q) /\ past'[q] = past[q]
      BY <1>4, <2>1, StepAlone DEF Alone, IndexTyped
    <3>2. answer'[q].by.kind = "index" \/ QueriesStand => Current(q)'
      BY <3>1, CurrentStays DEF AnswersInv, SameCommand
    <3>3. QueriesStand => Stands(q)'
      BY <3>1, <2>1 DEF QueriesStand, SameCommand, Stands, IndexTyped, CommandTyped
    <3> QED
      BY <3>2, <3>3
  <2>2. /\ answer'[p].by.kind = "index" \/ QueriesStand => Current(p)'
        /\ QueriesStand => Stands(p)'
    <3>1. CASE Start(p)
      <4>1. answer'[p].label # "fresh" /\ pc'[p] # "published"
        BY <3>1 DEF Start, IndexTyped, OfProcesses, NoAnswer, Goto, Walk
      <4> QED
        BY <4>1 DEF Current, Stands
    <3>2. CASE answer'[p].label # "fresh" /\ pc'[p] = "idle"
      BY <3>2 DEF Current, Stands
    <3>3. CASE UNCHANGED answer /\ (Publish(p) \/ pc'[p] # "published") /\ ~Start(p)
      <4>1. UNCHANGED past
        BY <1>4, <3>3, StepKeeps
      <4>2. answer'[p].by.kind = "index" \/ QueriesStand => Current(p)'
        BY <3>3, <4>1, CurrentStays DEF AnswersInv
      <4>3. QueriesStand => Stands(p)'
        BY <3>3, PublisherStands DEF Stands
      <4> QED
        BY <4>2, <4>3
    <3>4. CASE Compare(p) \/ Verify(p) \/ Answer(p)
      <4>1. pc'[p] # "published"
        BY <3>4, FinishAnswers DEF Compare, Verify, Answer, IndexTyped, OfProcesses, Goto
      <4>2. CASE answer'[p].label # "fresh"
        BY <4>1, <4>2 DEF Current, Stands
      <4>3. CASE answer'[p].label = "fresh"
        <5>1. Answer(p) => answer'[p].by = cmd[p]
          BY FinishAnswers DEF Answer, IndexTyped
        <5> QED
          BY <3>4, <4>1, <4>3, <5>1, CompareAnswers, VerifyAnswers, PublisherAnswers DEF Stands
      <4> QED
        BY <4>2, <4>3
    <3> QED
      BY <1>4, <3>1, <3>2, <3>3, <3>4, OwnAnswer
  <2> QED
    BY <1>0, <2>1, <2>2 DEF AnswersInv
<1> QED
  BY <1>2, <1>3, <1>4 DEF Next

LEMMA AnswersHold == Spec => []AnswersInv
<1>1. Init => AnswersInv
  BY DEF Init, AnswersInv, Current, Stands, NoAnswer
<1> QED
  BY <1>1, InitIsTyped, IndexIsTyped, IndexIsSeen, AnswersStep, PTL DEF Spec

\* What `index` calls fresh the command itself could vouch for, bytes included unless
\* it trusts stamps, with any number of processes publishing beside it.
THEOREM IndexAnswersAreCurrent ==
  Spec => [](\A p \in Procs :
               answer[p].label = "fresh" /\ answer[p].by.kind = "index" =>
                 /\ VouchedFor(answer[p].served, past[p])
                 /\ ~answer[p].by.trust => ContentsSeen(answer[p].served, past[p]))
<1>1. AnswersInv =>
        \A p \in Procs :
          answer[p].label = "fresh" /\ answer[p].by.kind = "index" =>
            /\ VouchedFor(answer[p].served, past[p])
            /\ ~answer[p].by.trust => ContentsSeen(answer[p].served, past[p])
  BY DEF AnswersInv, Current
<1> QED
  BY <1>1, AnswersHold, PTL

\* The same of queries, when no other process publishes beside a query and no query
\* prefers a complete snapshot to the partial one it published.
THEOREM FreshAnswersAreCurrent == ASSUME QueriesStand PROVE Spec => []FreshMeansCurrent
<1>1. AnswersInv => FreshMeansCurrent
  BY DEF AnswersInv, Current, FreshMeansCurrent
<1> QED
  BY <1>1, AnswersHold, PTL

-----------------------------------------------------------------------------
\* What drift costs.

\* Facts that do not validate after enrichment are left out of a snapshot in a way its
\* revalidation never takes for an explanation: with them an attempt may fail on a
\* tree nobody touches.
FactsAreValid == \A c \in Contents : NatureOf[c] # "invalid"

Blames(p) ==
  answer[p].label = "drift" /\ ~answer[p].by.trust => answer[p].edits >= MaxAttempts

LEMMA UndisturbedStays ==
  ASSUME NEW p, SameCommand(p), UNCHANGED <<tree, manifest>>, Undisturbed(p)
  PROVE  Undisturbed(p)'
<1>1. /\ pc'[p] = pc[p] /\ todo'[p] = todo[p] /\ listing'[p] = listing[p] /\ got'[p] = got[p]
      /\ candidate'[p] = candidate[p] /\ packages'[p] = packages[p]
  BY DEF SameCommand
<1>2. \A f : Entry(f)' = Entry(f) /\ Reading(p, f)' = Reading(p, f)
  BY <1>1 DEF Entry, Reading, Nature
<1>3. ToRead(p)' = ToRead(p) /\ Sources(p)' = Sources(p)
  BY <1>1, SameToRead, SameSources DEF SameCommand
<1>4. Agrees(candidate[p]) => Agrees(candidate[p])'
  BY <1>1 DEF Agrees, Nature, Omitted
<1>5. Omitted(candidate[p])' = Omitted(candidate[p])
  BY <1>1 DEF Omitted
<1>6. pc[p] = "read" =>
        /\ packages[p] = manifest
        /\ \A f \in ToRead(p) \ todo[p] :
             got[p][f] = [outcome |-> Reading(p, f)', content |-> tree'[f].content]
  BY <1>2 DEF Undisturbed
<1> QED
  BY <1>1, <1>2, <1>3, <1>4, <1>5, <1>6 DEF Undisturbed

\* A step that is no new attempt costs nothing if it leaves the attempt undisturbed.
LEMMA CostStays ==
  ASSUME IndexTyped, NEW p \in Procs, AttemptsCost(p), edits' = edits, cmd'[p] = cmd[p],
         attempt'[p] = attempt[p], drift'[p] = drift[p], answer'[p] = answer[p],
         pc[p] # "idle", ~cmd[p].trust /\ Undisturbed(p) => Undisturbed(p)'
  PROVE  AttemptsCost(p)'
BY DEF AttemptsCost

LEMMA EditCosts ==
  ASSUME IndexTyped, NEW p \in Procs, AttemptsCost(p), SameCommand(p), edits' = edits + 1
  PROVE  AttemptsCost(p)'
<1> SUFFICES ASSUME pc[p] # "idle", ~cmd[p].trust PROVE AttemptsCost(p)'
  BY DEF AttemptsCost, SameCommand
<1> DEFINE failed == (attempt[p] - 1) + (drift[p] - 1)
<1>1. edits - answer[p].edits >= failed
  BY DEF AttemptsCost
<1>2. edits \in Nat /\ answer[p].edits \in Nat /\ attempt[p] \in Nat /\ drift[p] \in Nat
  BY IndexAssumption DEF IndexTyped, WorldTyped, CommandTyped
<1>3. edits' - answer[p].edits >= failed /\ edits' - answer[p].edits # failed
  BY <1>1, <1>2
<1> HIDE DEF failed
<1>4. failed = (attempt'[p] - 1) + (drift'[p] - 1) /\ answer'[p] = answer[p]
  BY DEF failed, SameCommand
<1> QED
  BY <1>3, <1>4 DEF AttemptsCost

\* A new attempt is made, or refused for the last time, only after a disturbance.
LEMMA AgainCosts ==
  ASSUME IndexTyped, NEW p \in Procs, AttemptsCost(p), pc[p] # "idle", UNCHANGED world,
         PrepareAgain(p) \/ RefreshAgain(p), ~cmd[p].trust => ~Undisturbed(p)
  PROVE  AttemptsCost(p)' /\ Blames(p)'
<1> DEFINE E == edits - answer[p].edits
           A == attempt[p]
           D == drift[p]
<1>1. /\ edits \in Nat /\ answer[p].edits \in Nat /\ A \in 1 .. MaxAttempts
      /\ D \in 1 .. MaxAttempts /\ MaxAttempts \in Nat /\ E \in Int /\ edits' = edits
      /\ answer[p].label = "none" /\ OfProcesses
  BY IndexAssumption DEF IndexTyped, WorldTyped, CommandTyped, world
<1>2. ~cmd[p].trust => E >= (A - 1) + (D - 1) + 1
  <2>1. ~cmd[p].trust => E >= (A - 1) + (D - 1) /\ E # (A - 1) + (D - 1)
    BY DEF AttemptsCost
  <2> HIDE DEF E, A, D
  <2> QED
    BY <1>1, <2>1
<1>3. ASSUME NEW a, NEW d, attempt'[p] = a, drift'[p] = d, pc'[p] = "scan", todo'[p] = Files,
             cmd'[p] = cmd[p], answer'[p] = answer[p],
             ~cmd[p].trust => E >= (a - 1) + (d - 1)
      PROVE  AttemptsCost(p)' /\ Blames(p)'
  <2>1. Undisturbed(p)'
    BY <1>3 DEF Undisturbed
  <2>2. AttemptsCost(p)'
    BY <1>1, <1>3, <2>1 DEF AttemptsCost
  <2> QED
    BY <1>1, <1>3, <2>2 DEF Blames
<1>4. ASSUME Fail(p, "drift"), A >= MaxAttempts \/ D >= MaxAttempts
      PROVE  AttemptsCost(p)' /\ Blames(p)'
  <2>1. pc'[p] = "idle"
    BY <1>1, <1>4, FailEnds
  <2>2. ~cmd[p].trust => E >= MaxAttempts
    <3> HIDE DEF E, A, D
    <3> QED
      BY <1>1, <1>2, <1>4
  <2>3. ASSUME NEW l, NEW s, Finish(p, l, s) PROVE Blames(p)'
    <3>1. answer'[p].by = cmd[p] /\ answer'[p].edits = E
      BY <1>1, <2>3, FinishAnswers
    <3> HIDE DEF E
    <3> QED
      BY <2>2, <3>1 DEF Blames
  <2>4. Blames(p)'
    BY <1>4, <2>3 DEF Fail
  <2> QED
    BY <2>1, <2>4 DEF AttemptsCost
<1>5. CASE PrepareAgain(p) /\ HasAttempts(D)
  <2>1. /\ attempt'[p] = A /\ drift'[p] = D + 1 /\ pc'[p] = "scan" /\ todo'[p] = Files
        /\ cmd'[p] = cmd[p] /\ answer'[p] = answer[p]
    BY <1>1, <1>5 DEF PrepareAgain, OfProcesses, Walk, Goto
  <2>2. ~cmd[p].trust => E >= (A - 1) + ((D + 1) - 1)
    <3> HIDE DEF E, A, D
    <3> QED
      BY <1>1, <1>2
  <2> QED
    BY <1>3, <2>1, <2>2
<1>6. CASE RefreshAgain(p) /\ HasAttempts(A)
  <2>1. /\ attempt'[p] = A + 1 /\ drift'[p] = 1 /\ pc'[p] = "scan" /\ todo'[p] = Files
        /\ cmd'[p] = cmd[p] /\ answer'[p] = answer[p]
    BY <1>1, <1>6 DEF RefreshAgain, NextAttempt, OfProcesses, Walk, Goto
  <2>2. ~cmd[p].trust => E >= ((A + 1) - 1) + (1 - 1)
    <3> HIDE DEF E, A, D
    <3> QED
      BY <1>1, <1>2
  <2> QED
    BY <1>3, <2>1, <2>2
<1>7. CASE PrepareAgain(p) /\ ~HasAttempts(D)
  BY <1>1, <1>4, <1>7 DEF PrepareAgain, HasAttempts
<1>8. CASE RefreshAgain(p) /\ ~HasAttempts(A)
  BY <1>1, <1>4, <1>8 DEF RefreshAgain, HasAttempts
<1> QED
  BY <1>5, <1>6, <1>7, <1>8

LEMMA ListingTells ==
  ASSUME WorldTyped, NEW p, NEW f \in Files, listing[p][f] = Entry(f)
  PROVE  /\ f \in Listed(p) <=> tree[f] # Absent
         /\ f \in Oversized(p) <=> tree[f] # Absent /\ Nature(f) = "oversized"
         /\ f \in Sources(p) => listing[p][f].stamp = tree[f].stamp
BY EntryTells DEF Listed, Oversized, Sources

\* What is assembled of an undisturbed listing and undisturbed readings agrees with
\* the tree.
LEMMA AssembledAgrees ==
  ASSUME FactsAreValid, IndexTyped, NEW p \in Procs, pc[p] = "read", todo[p] = {},
         ~cmd[p].trust, Undisturbed(p)
  PROVE  Agrees(Assembled(p))
<1> DEFINE files == PriorFiles(p, packages[p])
           read(outcome) == {f \in Sources(p) : got[p][f].outcome = outcome}
           proven == {f \in read("file") \cap DOMAIN files :
                        ~cmd[p].force /\ files[f].content = got[p][f].content}
           extracted(nature) ==
             {f \in read("file") \ proven : NatureOf[got[p][f].content] = nature}
           row(f) ==
             IF f \in proven
             THEN [files[f] EXCEPT !.stamp = listing[p][f].stamp]
             ELSE [content |-> got[p][f].content, stamp |-> listing[p][f].stamp,
                   facts |-> <<got[p][f].content, binding[p]>>]
           names == proven \cup extracted("extracts")
           omissions ==
             BudgetOmissions(p)
               \cup {Omission(f, "read-error") : f \in read("gone")}
               \cup {Omission(f, "invalid-utf8") : f \in read("binary")}
               \cup {Omission(f, "extraction-error") : f \in extracted("fails")}
               \cup {Omission(f, "post-enrichment-validation") : f \in extracted("invalid")}
           c == Assembled(p)
<1>1. c = [manifest |-> packages[p], files |-> [f \in names |-> row(f)],
           omissions |-> omissions]
  <2>1. Trusted(p, files) = {}
    BY DEF Trusted
  <2> QED
    BY <2>1 DEF Assembled
<1>2. \A f \in Files : listing[p][f] = Entry(f)
  BY DEF Undisturbed
<1>3. /\ Sources(p) \subseteq Files /\ Oversized(p) \subseteq Files
      /\ \A f \in Files : /\ f \in Listed(p) <=> tree[f] # Absent
                          /\ f \in Oversized(p) <=> tree[f] # Absent /\ Nature(f) = "oversized"
                          /\ f \in Sources(p) => listing[p][f].stamp = tree[f].stamp
  BY <1>2, SourcesAreListed, ListingTells DEF IndexTyped
<1>4. \A f \in Sources(p) :
        /\ f \in Files /\ tree[f] # Absent /\ Nature(f) # "oversized"
        /\ listing[p][f].stamp = tree[f].stamp
  BY <1>3 DEF Sources
<1>5. \A f \in Sources(p) :
        /\ got[p][f].outcome = IF Nature(f) = "binary" THEN "binary" ELSE "file"
        /\ got[p][f].content = tree[f].content
  <2> SUFFICES ASSUME NEW f \in Sources(p)
               PROVE  /\ got[p][f].outcome = IF Nature(f) = "binary" THEN "binary" ELSE "file"
                      /\ got[p][f].content = tree[f].content
    OBVIOUS
  <2>1. f \in ToRead(p) \ todo[p]
    BY DEF ToRead, Trusted
  <2>2. got[p][f] = [outcome |-> Reading(p, f), content |-> tree[f].content]
    BY <2>1 DEF Undisturbed
  <2>3. Reading(p, f) = IF Nature(f) = "binary" THEN "binary" ELSE "file"
    BY <1>2, <1>4 DEF Reading
  <2> QED
    BY <2>2, <2>3
<1>6. /\ read("gone") = {} /\ read("binary") = {f \in Sources(p) : Nature(f) = "binary"}
      /\ read("file") = {f \in Sources(p) : Nature(f) # "binary"}
  BY <1>5
<1>7. \A n : extracted(n) = {f \in Sources(p) \ proven : Nature(f) # "binary" /\ Nature(f) = n}
  BY <1>5, <1>6 DEF Nature
<1>8. \A f \in Sources(p) : Nature(f) \in {"extracts", "fails", "binary"}
  <2>1. \A f \in Sources(p) : tree[f].content \in Contents /\ Nature(f) \in Natures
    BY <1>4, EntryTells DEF IndexTyped, WorldTyped
  <2> QED
    BY <1>4, <2>1 DEF Natures, Nature, FactsAreValid
<1>9. \A f \in names : /\ f \in Sources(p) /\ Nature(f) # "binary"
                       /\ row(f).stamp = listing[p][f].stamp /\ row(f).content = tree[f].content
  <2> SUFFICES ASSUME NEW f \in names
               PROVE  /\ f \in Sources(p) /\ Nature(f) # "binary"
                      /\ row(f).stamp = listing[p][f].stamp /\ row(f).content = tree[f].content
    OBVIOUS
  <2>1. f \in Sources(p) /\ Nature(f) # "binary"
    BY <1>6, <1>7
  <2>2. CASE f \in proven
    <3>1. files[f] \in AnyRow /\ files[f].content = tree[f].content
      BY <1>5, <2>2, PriorTyped DEF IndexTyped
    <3> QED
      BY <2>1, <2>2, <3>1 DEF AnyRow
  <2>3. CASE f \notin proven
    BY <1>5, <2>1, <2>3
  <2> QED
    BY <2>2, <2>3
<1>10. c.manifest = packages[p] /\ c.omissions = omissions /\ DOMAIN c.files = names
       /\ \A f \in names : c.files[f] = row(f)
  <2> HIDE DEF names, row, omissions, c
  <2> QED
    BY <1>1
<1>11. \A o \in omissions :
         /\ tree[o.file] # Absent
         /\ <<o.reason, Nature(o.file)>> \in {<<"too-large", "oversized">>,
              <<"invalid-utf8", "binary">>, <<"extraction-error", "fails">>}
  <2> SUFFICES ASSUME NEW o \in omissions
               PROVE  /\ tree[o.file] # Absent
                      /\ \/ o.reason = "too-large" /\ Nature(o.file) = "oversized"
                         \/ o.reason = "invalid-utf8" /\ Nature(o.file) = "binary"
                         \/ o.reason = "extraction-error" /\ Nature(o.file) = "fails"
    OBVIOUS
  <2>1. \/ \E f \in Oversized(p) : o = Omission(f, "too-large")
        \/ \E f \in read("binary") : o = Omission(f, "invalid-utf8")
        \/ \E f \in extracted("fails") : o = Omission(f, "extraction-error")
        \/ \E f \in extracted("invalid") : o = Omission(f, "post-enrichment-validation")
    BY <1>6 DEF BudgetOmissions
  <2>2. extracted("invalid") = {}
    BY <1>7, <1>8
  <2> QED
    <3>1. CASE \E f \in Oversized(p) : o = Omission(f, "too-large")
      BY <1>3, <3>1, SMTT(20) DEF Omission
    <3>2. CASE \E f \in read("binary") : o = Omission(f, "invalid-utf8")
      BY <1>4, <1>6, <3>2 DEF Omission
    <3>3. CASE \E f \in extracted("fails") : o = Omission(f, "extraction-error")
      BY <1>4, <1>7, <3>3 DEF Omission
    <3> QED
      BY <2>1, <2>2, <3>1, <3>2, <3>3
<1>12. \A f \in Files \ names : tree[f] # Absent =>
         /\ \E o \in omissions : o.file = f
         /\ Nature(f) = "oversized" => Omission(f, "too-large") \in omissions
  <2> SUFFICES ASSUME NEW f \in Files \ names, tree[f] # Absent
               PROVE  /\ \E o \in omissions : o.file = f
                      /\ Nature(f) = "oversized" => Omission(f, "too-large") \in omissions
    OBVIOUS
  <2>1. \A r : Omission(f, r).file = f
    BY DEF Omission
  <2>2. CASE Nature(f) = "oversized"
    <3>1. Omission(f, "too-large") \in omissions
      BY <1>3, <2>2 DEF BudgetOmissions
    <3> QED
      BY <2>1, <3>1
  <2>3. CASE Nature(f) # "oversized"
    <3>1. f \in Sources(p)
      BY <1>3, <2>3 DEF Sources
    <3>2. CASE Nature(f) = "binary"
      <4>1. Omission(f, "invalid-utf8") \in omissions
        BY <1>6, <3>1, <3>2
      <4> QED
        BY <2>1, <2>3, <4>1
    <3>3. CASE Nature(f) # "binary"
      <4>1. f \in extracted("fails")
        BY <1>7, <1>8, <3>1, <3>3
      <4>2. Omission(f, "extraction-error") \in omissions
        BY <4>1
      <4> QED
        BY <2>1, <2>3, <4>2
    <3> QED
      BY <3>2, <3>3
  <2> QED
    BY <2>2, <2>3
<1>13. packages[p] = manifest
  BY DEF Undisturbed
<1> HIDE DEF names, row, omissions, c
<1> QED
  BY <1>4, <1>9, <1>10, <1>11, <1>12, <1>13 DEF Agrees, Omitted, c

\* What an undisturbed revalidation finds.
LEMMA AgreedSources ==
  ASSUME IndexTyped, NEW p \in Procs, Snapshot(candidate[p]), Agrees(candidate[p]),
         \A f \in Files : listing[p][f] = Entry(f)
  PROVE  SourcesAccountedFor(p, candidate[p])
<1> DEFINE c == candidate[p]
<1>1. /\ Sources(p) \subseteq Files /\ Oversized(p) \subseteq Files
      /\ \A f \in Files : /\ f \in Listed(p) <=> tree[f] # Absent
                          /\ f \in Oversized(p) <=> tree[f] # Absent /\ Nature(f) = "oversized"
  BY SourcesAreListed, ListingTells DEF IndexTyped
<1>2. Sources(p) \subseteq DOMAIN c.files \cup Omitted(c)
  BY <1>1 DEF Agrees, Sources
<1>3. BudgetOmissions(p) \subseteq c.omissions
  BY <1>1 DEF Agrees, BudgetOmissions
<1>4. ASSUME NEW o \in c.omissions, o.file \notin Sources(p) PROVE o \in BudgetOmissions(p)
  <2>1. /\ o \in [file : Files, reason : Reasons] /\ tree[o.file] # Absent
        /\ <<o.reason, Nature(o.file)>> \in {<<"too-large", "oversized">>,
             <<"invalid-utf8", "binary">>, <<"extraction-error", "fails">>}
    BY DEF Snapshot, Agrees
  <2>2. o.file \in Oversized(p)
    BY <1>1, <1>4, <2>1 DEF Sources
  <2>3. o = Omission(o.file, "too-large")
    BY <1>1, <2>1, <2>2 DEF Omission
  <2> QED
    BY <2>2, <2>3 DEF BudgetOmissions
<1> QED
  BY <1>2, <1>3, <1>4 DEF SourcesAccountedFor

LEMMA AgreedIsCompatible ==
  ASSUME IndexTyped, NEW p \in Procs, Snapshot(candidate[p]), Agrees(candidate[p]),
         \A f \in Files : listing[p][f] = Entry(f)
  PROVE  IsCompatible(p, candidate[p], manifest)
<1> DEFINE c == candidate[p]
<1>1. \A f \in Files : f \in Sources(p) <=> tree[f] # Absent /\ Nature(f) # "oversized"
  BY ListingTells DEF IndexTyped, Sources
<1>2. /\ DOMAIN c.files \subseteq Files /\ Sources(p) \subseteq Files
      /\ \A o \in c.omissions : o.file \in Files
  BY SourcesAreListed DEF IndexTyped, Snapshot
<1>3. DOMAIN c.files \subseteq Sources(p)
  BY <1>1, <1>2 DEF Agrees
<1>4. ASSUME NEW o \in c.omissions
      PROVE  o.reason = "too-large" <=> o.file \notin Sources(p)
  <2>1. /\ tree[o.file] # Absent
        /\ o.reason = "too-large" <=> Nature(o.file) = "oversized"
    BY DEF Agrees
  <2> QED
    BY <1>1, <1>2, <2>1
<1>5. Sources(p) \subseteq DOMAIN c.files \cup Omitted(c)
  BY <1>1, <1>2 DEF Agrees
<1>6. Retained(c) = Sources(p)
  BY <1>3, <1>4, <1>5 DEF Retained, Omitted
<1>7. c.manifest = manifest
  BY DEF Agrees
<1> QED
  BY <1>6, <1>7 DEF IsCompatible

LEMMA AgreedFile ==
  ASSUME IndexTyped, NEW p \in Procs, Agrees(candidate[p]), NEW f \in Files,
         listing[p][f] = Entry(f),
         f \in DOMAIN candidate[p].files \/ f \in Omitted(candidate[p]) \cap Sources(p)
  PROVE  StillHolds(p, f)
<1> DEFINE c == candidate[p]
<1>1. /\ f \in Listed(p) <=> tree[f] # Absent
      /\ f \in Oversized(p) <=> tree[f] # Absent /\ Nature(f) = "oversized"
  BY ListingTells DEF IndexTyped
<1>2. CASE f \in DOMAIN c.files
  <2>1. /\ tree[f] # Absent /\ Nature(f) \notin {"oversized", "binary"}
        /\ tree[f].stamp = c.files[f].stamp /\ tree[f].content = c.files[f].content
    BY <1>2 DEF Agrees
  <2> QED
    BY <1>1, <1>2, <2>1 DEF StillHolds, MatchesRecord, Sources, Reading
<1>3. CASE f \notin DOMAIN c.files
  <2>1. PICK o \in c.omissions : o.file = f
    BY <1>3 DEF Omitted
  <2>2. tree[f] # Absent /\ Nature(f) # "oversized"
    BY <1>1, <1>3 DEF Sources
  <2>3. \/ o.reason = "invalid-utf8" /\ Nature(f) = "binary"
        \/ o.reason = "extraction-error" /\ Nature(f) = "fails"
    BY <2>1, <2>2 DEF Agrees
  <2>4. SameOmission(p, f, o.reason)
    BY <2>2, <2>3 DEF SameOmission, Reading
  <2> QED
    BY <1>3, <2>1, <2>4 DEF StillHolds
<1> QED
  BY <1>2, <1>3

LEMMA OwnCost ==
  ASSUME FactsAreValid, IndexTyped, NEW p \in Procs, AttemptsCost(p), Step(p) \/ GiveUp(p)
  PROVE  AttemptsCost(p)' /\ Blames(p)'
<1> USE DEF IndexTyped
<1>1. UNCHANGED <<tree, manifest, rules, edits>> /\ pc[p] # "idle"
  BY StepKeeps DEF world, Step, GiveUp, ListFile, Compare, Verify, BeginRefresh, Plan, Read,
     Assemble, Recheck, RecheckFile, RecheckManifest, Publish, Answer
<1>2. ASSUME NEW l, NEW s, Finish(p, l, s), l # "drift" PROVE AttemptsCost(p)' /\ Blames(p)'
  BY <1>2, FinishAnswers DEF AttemptsCost, Blames
<1>3. ASSUME NEW l, Fail(p, l), l # "drift" PROVE AttemptsCost(p)' /\ Blames(p)'
  BY <1>2, <1>3 DEF Fail
<1>4. ASSUME cmd'[p] = cmd[p], attempt'[p] = attempt[p], drift'[p] = drift[p],
             answer'[p] = answer[p],
             ~cmd[p].trust /\ Undisturbed(p) => Undisturbed(p)'
      PROVE  AttemptsCost(p)' /\ Blames(p)'
  <2>1. AttemptsCost(p)'
    BY <1>1, <1>4, CostStays
  <2> QED
    BY <1>1, <1>4, <2>1 DEF Blames, CommandTyped
<1>5. ASSUME PrepareAgain(p) \/ RefreshAgain(p), ~cmd[p].trust => ~Undisturbed(p)
      PROVE  AttemptsCost(p)' /\ Blames(p)'
  BY <1>1, <1>5, AgainCosts DEF world
<1>6. ASSUME pc'[p] \notin {"scan", "read", "rescan", "recheck"}
             \/ (pc'[p] = "scan" /\ todo'[p] = Files)
      PROVE  Undisturbed(p)'
  BY <1>6 DEF Undisturbed
<1>7. CASE ListFile(p)
  <2>1. PICK f \in todo[p] : listing' = [listing EXCEPT ![p][f] = Entry(f)]
                             /\ todo' = [todo EXCEPT ![p] = @ \ {f}]
    BY <1>7 DEF ListFile
  <2>2. /\ f \in Files /\ listing'[p] = [listing[p] EXCEPT ![f] = Entry(f)]
        /\ DOMAIN listing[p] = Files /\ todo'[p] = todo[p] \ {f}
        /\ UNCHANGED <<pc, cmd, candidate, attempt, drift, answer>>
        /\ pc[p] \in {"list", "scan", "rescan"}
    BY <1>7, <2>1 DEF OfProcesses, CommandTyped, ListFile
  <2>3. \A g : Entry(g)' = Entry(g)
    BY <1>1 DEF Entry, Nature
  <2>4. Agrees(candidate[p]) => Agrees(candidate[p])'
    BY <1>1, <2>2 DEF Agrees, Nature, Omitted
  <2>5. Undisturbed(p) => Undisturbed(p)'
    BY <2>2, <2>3, <2>4 DEF Undisturbed
  <2> QED
    BY <1>4, <2>2, <2>5
<1>8. CASE Compare(p)
  <2>1. CASE \E s : Finish(p, "fresh", s)
    BY <1>2, <2>1
  <2>2. CASE ~\E s : Finish(p, "fresh", s)
    <3>1. pc'[p] \in {"prior", "verify"} /\ UNCHANGED <<cmd, attempt, drift, answer>>
      BY <1>8, <2>2 DEF Compare, OfProcesses, Goto, local
    <3>2. Undisturbed(p)'
      BY <3>1 DEF Undisturbed
    <3> QED
      BY <1>4, <3>1, <3>2
  <2> QED
    BY <2>1, <2>2
<1>9. CASE Verify(p)
  <2>1. CASE \E s : Finish(p, "fresh", s)
    BY <1>2, <2>1
  <2>2. CASE ~\E s : Finish(p, "fresh", s)
    <3>1. pc'[p] \in {"prior", "verify"} /\ UNCHANGED <<cmd, attempt, drift, answer>>
      BY <1>9, <2>2 DEF Verify, OfProcesses, Goto, local
    <3>2. Undisturbed(p)'
      BY <3>1 DEF Undisturbed
    <3> QED
      BY <1>4, <3>1, <3>2
  <2> QED
    BY <2>1, <2>2
<1>10. CASE BeginRefresh(p)
  <2>1. pc'[p] = "scan" /\ todo'[p] = Files /\ UNCHANGED <<cmd, attempt, drift, answer>>
    BY <1>10 DEF BeginRefresh, OfProcesses, Goto, Walk
  <2> QED
    BY <1>4, <1>6, <2>1
<1>11. CASE Plan(p)
  <2>1. /\ pc[p] = "scan" /\ todo[p] = {} /\ pc'[p] = "read" /\ packages'[p] = manifest
        /\ todo'[p] = Sources(p) \ Trusted(p, PriorFiles(p, manifest))
        /\ UNCHANGED <<cmd, attempt, drift, answer, listing, prior>>
    BY <1>11 DEF Plan, OfProcesses, Goto
  <2>2. PriorFiles(p, packages[p])' = PriorFiles(p, manifest)
    BY <2>1, SameSources DEF PriorFiles, IsCompatible, Retained
  <2>3. \A f : f \in Trusted(p, PriorFiles(p, packages[p]))'
                 <=> f \in Trusted(p, PriorFiles(p, manifest))
    BY <2>1, <2>2, SameSources DEF Trusted
  <2>4. ToRead(p)' = todo'[p]
    BY <2>1, <2>3, SameSources DEF ToRead
  <2>5. \A f : Entry(f)' = Entry(f)
    BY <1>1 DEF Entry, Nature
  <2>6. Undisturbed(p) => Undisturbed(p)'
    BY <1>1, <2>1, <2>4, <2>5 DEF Undisturbed
  <2> QED
    BY <1>4, <2>1, <2>6
<1>12. CASE Read(p)
  <2>1. PICK f \in todo[p] :
          \/ DriftedReading(p, f) /\ PrepareAgain(p)
          \/ /\ ~DriftedReading(p, f)
             /\ got' = [got EXCEPT ![p][f] =
                          IF Reading(p, f) = "gone" THEN [outcome |-> "gone"]
                          ELSE [outcome |-> Reading(p, f), content |-> tree[f].content]]
             /\ todo' = [todo EXCEPT ![p] = @ \ {f}]
             /\ UNCHANGED <<pc, cmd, seen, listing, prior, binding, packages,
                            candidate, attempt, drift, answer>>
    BY <1>12 DEF Read
  <2>2. pc[p] = "read" /\ f \in Sources(p) /\ f \in Files
    BY <1>12, <2>1, SourcesAreListed DEF Read, CommandTyped
  <2>3. Undisturbed(p) => tree[f] # Absent /\ ~DriftedReading(p, f) /\ Reading(p, f) # "gone"
    BY <2>2, ListingTells DEF Undisturbed, Sources, DriftedReading, Reading
  <2>4. CASE DriftedReading(p, f) /\ PrepareAgain(p)
    BY <1>5, <2>3, <2>4
  <2>5. CASE ~DriftedReading(p, f)
    <3>1. /\ todo'[p] = todo[p] \ {f} /\ pc'[p] = "read" /\ DOMAIN got[p] = Files
          /\ got'[p] = [got[p] EXCEPT ![f] =
               IF Reading(p, f) = "gone" THEN [outcome |-> "gone"]
               ELSE [outcome |-> Reading(p, f), content |-> tree[f].content]]
          /\ UNCHANGED <<cmd, listing, prior, packages, attempt, drift, answer>>
      BY <2>1, <2>2, <2>5 DEF OfProcesses, CommandTyped
    <3>2. ToRead(p)' = ToRead(p)
      BY <3>1, SameToRead
    <3>3. \A g : Entry(g)' = Entry(g) /\ Reading(p, g)' = Reading(p, g)
      BY <1>1, <3>1 DEF Entry, Reading, Nature
    <3>4. ASSUME Undisturbed(p), NEW g \in ToRead(p) \ todo'[p]
          PROVE  got'[p][g] = [outcome |-> Reading(p, g), content |-> tree[g].content]
      <4>1. CASE g = f
        BY <2>2, <2>3, <3>1, <3>4, <4>1
      <4>2. CASE g # f
        BY <2>2, <3>1, <3>4, <4>2 DEF Undisturbed
      <4> QED
        BY <4>1, <4>2
    <3>5. ASSUME Undisturbed(p) PROVE Undisturbed(p)'
      <4>1. /\ \A g \in Files : listing'[p][g] = Entry(g)'
            /\ packages'[p] = manifest'
        BY <1>1, <2>2, <3>1, <3>3, <3>5 DEF Undisturbed
      <4>2. \A g \in ToRead(p)' \ todo'[p] :
              got'[p][g] = [outcome |-> Reading(p, g)', content |-> tree'[g].content]
        BY <1>1, <3>2, <3>3, <3>4, <3>5
      <4> QED
        BY <3>1, <4>1, <4>2 DEF Undisturbed
    <3> QED
      BY <1>4, <3>1, <3>5
  <2> QED
    BY <2>1, <2>4, <2>5
<1>13. CASE Assemble(p)
  <2>1. CASE Fail(p, "partial")
    BY <1>3, <2>1
  <2>2. CASE ~Fail(p, "partial")
    <3>1. /\ pc[p] = "read" /\ todo[p] = {} /\ candidate'[p] = Assembled(p)
          /\ pc'[p] = "rescan" /\ todo'[p] = Files
          /\ UNCHANGED <<cmd, attempt, drift, answer>>
      BY <1>13, <2>2 DEF Assemble, OfProcesses, Walk, Goto
    <3>2. ~cmd[p].trust /\ Undisturbed(p) => Agrees(Assembled(p))
      BY <3>1, AssembledAgrees
    <3>3. ~cmd[p].trust /\ Undisturbed(p) => Agrees(candidate[p])'
      BY <1>1, <3>1, <3>2 DEF Agrees, Nature, Omitted
    <3>4. ~cmd[p].trust /\ Undisturbed(p) => Undisturbed(p)'
      BY <3>1, <3>3 DEF Undisturbed
    <3> QED
      BY <1>4, <3>1, <3>4
  <2> QED
    BY <2>1, <2>2
<1>14. CASE Recheck(p)
  <2>1. pc[p] = "rescan" /\ todo[p] = {} /\ Snapshot(candidate[p])
    BY <1>14 DEF Recheck, CommandTyped, Prepared
  <2>2. Undisturbed(p) => SourcesAccountedFor(p, candidate[p])
    BY <2>1, AgreedSources DEF Undisturbed
  <2>3. CASE RefreshAgain(p) /\ ~SourcesAccountedFor(p, candidate[p])
    BY <1>5, <2>2, <2>3
  <2>4. CASE SourcesAccountedFor(p, candidate[p])
    <3>1. /\ pc'[p] = "recheck"
          /\ todo'[p] = DOMAIN candidate[p].files \cup (Omitted(candidate[p]) \cap Sources(p))
          /\ UNCHANGED <<cmd, candidate, listing, attempt, drift, answer>>
      BY <1>14, <2>4 DEF Recheck, OfProcesses, Goto
    <3>2. /\ \A f : Entry(f)' = Entry(f)
          /\ Sources(p)' = Sources(p) /\ Omitted(candidate[p])' = Omitted(candidate[p])
      BY <1>1, <3>1, SameSources DEF Entry, Nature, Omitted
    <3>3. Agrees(candidate[p]) => Agrees(candidate[p])'
      BY <1>1, <3>1 DEF Agrees, Nature, Omitted
    <3>4. Undisturbed(p) => Undisturbed(p)'
      BY <2>1, <3>1, <3>2, <3>3 DEF Undisturbed
    <3> QED
      BY <1>4, <3>1, <3>4
  <2> QED
    BY <1>14, <2>3, <2>4 DEF Recheck
<1>15. CASE RecheckFile(p)
  <2>1. PICK f \in todo[p] :
          \/ ~StillHolds(p, f) /\ RefreshAgain(p)
          \/ /\ StillHolds(p, f) /\ todo' = [todo EXCEPT ![p] = @ \ {f}]
             /\ UNCHANGED <<pc, cmd, seen, listing, prior, binding, packages, got,
                            candidate, attempt, drift, answer>>
    BY <1>15 DEF RecheckFile
  <2>2. pc[p] = "recheck" /\ f \in Files
    BY <1>15, <2>1 DEF RecheckFile, CommandTyped
  <2>3. Undisturbed(p) => StillHolds(p, f)
    BY <2>1, <2>2, AgreedFile DEF Undisturbed
  <2>4. CASE ~StillHolds(p, f) /\ RefreshAgain(p)
    BY <1>5, <2>3, <2>4
  <2>5. CASE StillHolds(p, f)
    <3>1. /\ todo'[p] = todo[p] \ {f} /\ pc'[p] = pc[p]
          /\ UNCHANGED <<cmd, candidate, listing, attempt, drift, answer>>
      BY <2>1, <2>5 DEF OfProcesses
    <3>2. /\ \A g : Entry(g)' = Entry(g)
          /\ Sources(p)' = Sources(p) /\ Omitted(candidate[p])' = Omitted(candidate[p])
      BY <1>1, <3>1, SameSources DEF Entry, Nature, Omitted
    <3>3. Agrees(candidate[p]) => Agrees(candidate[p])'
      BY <1>1, <3>1 DEF Agrees, Nature, Omitted
    <3>4. Undisturbed(p) => Undisturbed(p)'
      BY <2>2, <3>1, <3>2, <3>3 DEF Undisturbed
    <3> QED
      BY <1>4, <3>1, <3>4
  <2> QED
    BY <2>1, <2>4, <2>5
<1>16. CASE RecheckManifest(p)
  <2>1. pc[p] = "recheck"
    BY <1>16 DEF RecheckManifest
  <2>2. Undisturbed(p) => IsCompatible(p, candidate[p], manifest)
    BY <2>1, AgreedIsCompatible DEF Undisturbed, CommandTyped, Prepared
  <2>3. CASE RefreshAgain(p) /\ ~IsCompatible(p, candidate[p], manifest)
    BY <1>5, <2>2, <2>3
  <2>4. CASE IsCompatible(p, candidate[p], manifest)
    <3>1. pc'[p] = "publish" /\ UNCHANGED <<cmd, attempt, drift, answer>>
      BY <1>16, <2>4 DEF RecheckManifest, OfProcesses, Goto, local
    <3>2. Undisturbed(p)'
      BY <3>1 DEF Undisturbed
    <3> QED
      BY <1>4, <3>1, <3>2
  <2> QED
    BY <1>16, <2>3, <2>4 DEF RecheckManifest
<1>17. CASE Publish(p)
  <2>1. CASE Fail(p, "conflict")
    BY <1>3, <2>1
  <2>2. CASE ~Fail(p, "conflict")
    <3>1. pc'[p] = "published" /\ UNCHANGED <<cmd, attempt, drift, answer>>
      BY <1>17, <2>2 DEF Publish, OfProcesses, Goto, local
    <3>2. Undisturbed(p)'
      BY <3>1 DEF Undisturbed
    <3> QED
      BY <1>4, <3>1, <3>2
  <2> QED
    BY <2>1, <2>2
<1>18. CASE Answer(p)
  BY <1>2, <1>18 DEF Answer
<1>19. CASE GiveUp(p)
  BY <1>2, <1>3, <1>19 DEF GiveUp
<1> QED
  BY <1>7, <1>8, <1>9, <1>10, <1>11, <1>12, <1>13, <1>14, <1>15, <1>16, <1>17, <1>18,
     <1>19 DEF Step

LEMMA StartCosts ==
  ASSUME IndexTyped, NEW p \in Procs, Start(p)
  PROVE  AttemptsCost(p)' /\ Blames(p)'
<1>1. /\ pc[p] = "idle" /\ pc'[p] \in {"list", "prior"} /\ answer'[p].edits = edits
      /\ answer'[p].label = "none" /\ UNCHANGED <<edits, attempt, drift>>
  BY DEF Start, IndexTyped, OfProcesses, NoAnswer, Goto, Walk, world
<1>2. attempt[p] = 1 /\ drift[p] = 1 /\ edits \in Nat
  BY <1>1, IndexAssumption DEF IndexTyped, WorldTyped, CommandTyped
<1>3. edits' - answer'[p].edits = (attempt'[p] - 1) + (drift'[p] - 1)
  BY <1>1, <1>2
<1>4. edits' - answer'[p].edits \in Int
  BY <1>1, <1>2
<1>5. Undisturbed(p)'
  BY <1>1 DEF Undisturbed
<1> QED
  BY <1>1, <1>3, <1>4, <1>5 DEF AttemptsCost, Blames

LEMMA CostsStep ==
  ASSUME FactsAreValid
  PROVE  IndexTyped /\ (\A p \in Procs : AttemptsCost(p) /\ Blames(p)) /\ [Next]_vars
           => (\A p \in Procs : AttemptsCost(p) /\ Blames(p))'
<1> SUFFICES ASSUME IndexTyped, \A p \in Procs : AttemptsCost(p) /\ Blames(p), [Next]_vars,
                    NEW p \in Procs
             PROVE  AttemptsCost(p)' /\ Blames(p)'
  OBVIOUS
<1>1. SameCommand(p) => Blames(p)'
  BY DEF SameCommand, Blames
<1>2. ASSUME SameCommand(p), UNCHANGED <<tree, manifest, edits>> PROVE AttemptsCost(p)'
  <2>1. CASE pc[p] = "idle"
    BY <1>2, <2>1 DEF SameCommand, AttemptsCost
  <2>2. CASE pc[p] # "idle"
    <3>1. Undisturbed(p) => Undisturbed(p)'
      BY <1>2, UndisturbedStays
    <3> QED
      BY <1>2, <2>2, <3>1, CostStays DEF SameCommand
  <2> QED
    BY <2>1, <2>2
<1>3. CASE Edit
  <2>1. edits' = edits + 1 /\ UNCHANGED <<pc, local, answer>>
    BY <1>3, EditTyped
  <2>2. SameCommand(p)
    BY <2>1 DEF SameCommand, local
  <2> QED
    BY <1>1, <2>1, <2>2, EditCosts
<1>4. CASE Discard \/ Exhausted \/ UNCHANGED vars
  <2>1. UNCHANGED <<tree, manifest, edits, pc, local, answer>>
    BY <1>4 DEF Discard, Exhausted, vars, world
  <2>2. SameCommand(p)
    BY <2>1 DEF SameCommand, local
  <2> QED
    BY <1>1, <1>2, <2>1, <2>2
<1>5. ASSUME NEW q \in Procs, Start(q) \/ Step(q) \/ GiveUp(q)
      PROVE  AttemptsCost(p)' /\ Blames(p)'
  <2>1. CASE p = q
    BY <1>5, <2>1, StartCosts, OwnCost
  <2>2. CASE p # q
    <3>1. SameCommand(p) /\ UNCHANGED <<tree, manifest, edits>>
      BY <1>5, <2>2, StepAlone, StepKeeps DEF IndexTyped, Alone, world
    <3> QED
      BY <1>1, <1>2, <3>1
  <2> QED
    BY <2>1, <2>2
<1> QED
  BY <1>3, <1>4, <1>5 DEF Next

\* Each attempt a command gives up has an edit of its own, so the tree is blamed only
\* if it changed during each of the attempts: for any bound on the attempts, of a
\* command that does not trust stamps, where extracted facts stay valid.
THEOREM DriftIsTheTrees == ASSUME FactsAreValid PROVE Spec => []DriftBlamesTheTree
<1>1. Init => \A p \in Procs : AttemptsCost(p) /\ Blames(p)
  BY DEF Init, AttemptsCost, Blames, NoAnswer
<1>2. (\A p \in Procs : AttemptsCost(p) /\ Blames(p)) => DriftBlamesTheTree
  BY DEF Blames, DriftBlamesTheTree
<1> QED
  BY <1>1, <1>2, InitIsTyped, IndexIsTyped, CostsStep, PTL DEF Spec
=============================================================================
