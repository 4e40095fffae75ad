------------------------ MODULE CacheDirectoryProofs ------------------------
(***************************************************************************)
(* What opening a cache guarantees, for any number of processes of any     *)
(* builds.                                                                 *)
(***************************************************************************)
EXTENDS CacheDirectory, TLAPS

\* The invariant: types, the tables a version stands for, and what `recreate` is
\* entered with.
IndInv == TypeOK /\ TablesHaveVersions /\ RecreatesOlder

DatabaseRecords == [version : Versions \cup {0}, layout : Layouts, snapshots : BOOLEAN]
FilesOK == files \in [Files -> DatabaseRecords] /\ TablesHaveVersions

LEMMA InitIndInv == Init => IndInv
<1> SUFFICES ASSUME Init PROVE IndInv
  OBVIOUS
<1> USE DirectoryAssumption
<1>1. /\ Pristine \in DatabaseRecords /\ Pristine.version = 0 /\ Pristine.layout = "none"
      /\ Databases \subseteq DatabaseRecords
      /\ \A d \in Databases : d.version = 0 <=> d.layout = "none"
  <2>1. /\ Pristine \in DatabaseRecords /\ Pristine.version = 0 /\ Pristine.layout = "none"
    BY DEF DatabaseRecords, Database, Pristine, Layouts
  <2>2. ASSUME NEW v \in Versions, NEW l \in {"legacy", "current"}, NEW b \in BOOLEAN
        PROVE  /\ Database(v, l, b) \in DatabaseRecords
               /\ Database(v, l, b).version # 0 /\ Database(v, l, b).layout # "none"
    BY <2>2 DEF DatabaseRecords, Database, Layouts
  <2>3. ASSUME NEW d \in Databases
        PROVE  d = Pristine \/ \E v \in Versions, l \in {"legacy", "current"}, b \in BOOLEAN :
                                 d = Database(v, l, b)
    BY <2>3 DEF Databases
  <2>4. QED
    BY <2>1, <2>2, <2>3
<1>2. FilesOK
  BY <1>1 DEF Init, FilesOK, TablesHaveVersions
<1>3. root \in BOOLEAN /\ dir \in BOOLEAN /\ created \in 0 .. MaxFiles
        /\ link \in 1 .. created \cup {NoFile} /\ (link # NoFile => dir)
  <2>1. root \in BOOLEAN
    BY DEF Init
  <2>2. CASE created = 0 /\ link = NoFile /\ dir = FALSE
    <3>1. dir \in BOOLEAN /\ (link # NoFile => dir)
      BY <2>2, Zenon
    <3>2. QED
      BY <2>1, <2>2, <3>1
  <2>3. CASE MaxFiles > 0 /\ created = 1 /\ link = 1 /\ dir = TRUE
    BY <2>1, <2>3
  <2>4. QED
    BY <2>2, <2>3 DEF Init
<1>4. /\ pc = [p \in Procs |-> "idle"] /\ handle = [p \in Procs |-> NoFile]
      /\ seen = [p \in Procs |-> 0]
  BY DEF Init
<1>5. QED
  BY <1>2, <1>3, <1>4
  DEF IndInv, TypeOK, FilesOK, DatabaseRecords, RecreatesOlder, Connected, Unconnected

\* The three ways a database is written keep it a database.
LEMMA WritesKeepFilesOK ==
  ASSUME IndInv, NEW p \in Procs, pc[p] \in Connected,
         Create(p) \/ files' = [files EXCEPT ![handle[p]] = Database(@.version, @.layout, TRUE)]
  PROVE  FilesOK'
<1> USE DirectoryAssumption DEF IndInv, TypeOK, TablesHaveVersions, FilesOK, DatabaseRecords
<1>1. handle[p] \in Files /\ SchemaOf[p] \in Versions /\ 0 \notin Versions
  BY DEF Files
<1>2. CASE Create(p)
  BY <1>1, <1>2 DEF Create, Database, Layouts
<1>3. CASE files' = [files EXCEPT ![handle[p]] = Database(@.version, @.layout, TRUE)]
  <2>1. \A f \in Files : /\ files'[f].version = files[f].version
                         /\ files'[f].layout = files[f].layout
                         /\ files'[f] \in DatabaseRecords
    BY <1>1, <1>3 DEF Database
  <2>2. QED
    BY <1>3, <2>1
<1>4. QED
  BY <1>2, <1>3

\* What the rest of the state owes the invariant.
ProcessesOK ==
  /\ pc \in [Procs -> Connected \cup Unconnected]
  /\ handle \in [Procs -> 1 .. created \cup {NoFile}]
  /\ \A p \in Procs : pc[p] \in Connected <=> handle[p] # NoFile
  /\ seen \in [Procs -> Versions \cup {0}]
  /\ RecreatesOlder
DirectoryOK ==
  /\ root \in BOOLEAN /\ dir \in BOOLEAN
  /\ created \in 0 .. MaxFiles
  /\ link \in 1 .. created \cup {NoFile}
  /\ link # NoFile => dir

LEMMA PartsOfIndInv ==
  /\ IndInv <=> FilesOK /\ DirectoryOK /\ ProcessesOK
  /\ IndInv' <=> FilesOK' /\ DirectoryOK' /\ ProcessesOK'
  BY DEF IndInv, TypeOK, FilesOK, DatabaseRecords, DirectoryOK, ProcessesOK

\* Every step keeps the invariant.
LEMMA NextIndInv == IndInv /\ [Next]_vars => IndInv'
<1> SUFFICES ASSUME IndInv, [Next]_vars PROVE IndInv'
  OBVIOUS
<1> USE DirectoryAssumption
    DEF IndInv, TypeOK, TablesHaveVersions, RecreatesOlder, Files, Layouts, Connected, Unconnected
<1>1. CASE ToggleProject
  BY <1>1 DEF ToggleProject
<1>2. ASSUME NEW p \in Procs, MakeDirectory(p) PROVE IndInv'
  BY <1>2 DEF MakeDirectory, Goto
<1>3. ASSUME NEW p \in Procs, Connect(p) PROVE IndInv'
  <2>1. CASE link # NoFile /\ handle' = [handle EXCEPT ![p] = link]
               /\ Goto(p, "version") /\ UNCHANGED <<link, created, seen>>
    BY <1>3, <2>1 DEF Connect, Goto
  <2>2. CASE /\ link = NoFile /\ dir /\ created < MaxFiles
             /\ created' = created + 1
             /\ link' = created + 1
             /\ handle' = [handle EXCEPT ![p] = created + 1]
             /\ Goto(p, "version")
             /\ UNCHANGED seen
    <3>1. DirectoryOK'
      BY <1>3, <2>2 DEF Connect, DirectoryOK
    <3>2. ProcessesOK'
      BY <1>3, <2>2 DEF Connect, Goto, ProcessesOK
    <3>3. FilesOK'
      BY <1>3 DEF Connect, FilesOK, DatabaseRecords
    <3>4. QED
      BY <3>1, <3>2, <3>3, PartsOfIndInv
  <2>3. CASE link = NoFile /\ ~dir /\ Leave(p) /\ UNCHANGED <<link, created>>
    BY <1>3, <2>3 DEF Connect, Goto, Leave
  <2>4. QED
    BY <1>3, <2>1, <2>2, <2>3 DEF Connect
<1>4. ASSUME NEW p \in Procs, ReadVersion(p) PROVE IndInv'
  <2>1. CASE Leave(p)
    BY <1>4, <2>1 DEF ReadVersion, Goto, Leave
  <2>2. CASE ~Leave(p)
    <3>1. handle[p] \in Files /\ Found(p).version \in Versions \cup {0}
      BY <1>4 DEF ReadVersion, Found
    <3>2. /\ Found(p).version <= SchemaOf[p] /\ seen' = [seen EXCEPT ![p] = Found(p).version]
          /\ UNCHANGED handle
          /\ pc' = [pc EXCEPT ![p] = CASE Found(p).version = 0           -> "initialize"
                                        [] Found(p).version = SchemaOf[p] -> "validate"
                                        [] OTHER                          -> "recreate"]
      BY <1>4, <2>2, <3>1 DEF ReadVersion, Goto
    <3>3. /\ pc'[p] \in {"initialize", "validate", "recreate"}
          /\ pc'[p] = "recreate" => seen'[p] \in Versions /\ seen'[p] < SchemaOf[p]
      BY <3>1, <3>2
    <3>4. \A q \in Procs \ {p} : pc'[q] = pc[q] /\ seen'[q] = seen[q]
      BY <3>2
    <3>5. ProcessesOK'
      <4>1. handle[p] # NoFile
        BY <1>4 DEF ReadVersion
      <4>2. pc' \in [Procs -> Connected \cup Unconnected] /\ seen' \in [Procs -> Versions \cup {0}]
        BY <3>1, <3>2, <3>3, <3>4
      <4>3. QED
        BY <1>4, <3>2, <3>3, <3>4, <4>1, <4>2 DEF ReadVersion, ProcessesOK
    <3>6. FilesOK' /\ DirectoryOK'
      BY <1>4 DEF ReadVersion, FilesOK, DirectoryOK, DatabaseRecords
    <3>7. QED
      BY <3>5, <3>6, PartsOfIndInv
  <2>3. QED
    BY <2>1, <2>2
<1>5. ASSUME NEW p \in Procs, InitializeOrJoin(p) PROVE IndInv'
  <2>1. ProcessesOK' /\ DirectoryOK'
    BY <1>5, ZenonT(40) DEF InitializeOrJoin, Goto, Leave, ProcessesOK, DirectoryOK
  <2>2. FilesOK'
    BY <1>5, WritesKeepFilesOK DEF InitializeOrJoin, FilesOK, DatabaseRecords
  <2>3. QED
    BY <2>1, <2>2, PartsOfIndInv
<1>6. ASSUME NEW p \in Procs, Validate(p) PROVE IndInv'
  BY <1>6, ZenonT(40) DEF Validate, Goto, Leave
<1>7. ASSUME NEW p \in Procs, ResetLegacy(p) PROVE IndInv'
  <2>1. ProcessesOK' /\ DirectoryOK'
    BY <1>7, ZenonT(40) DEF ResetLegacy, Goto, Leave, ProcessesOK, DirectoryOK
  <2>2. FilesOK'
    BY <1>7, WritesKeepFilesOK DEF ResetLegacy, FilesOK, DatabaseRecords
  <2>3. QED
    BY <2>1, <2>2, PartsOfIndInv
<1>8. ASSUME NEW p \in Procs, Recreate(p) PROVE IndInv'
  BY <1>8 DEF Recreate, Goto, Create, Database
<1>9. ASSUME NEW p \in Procs, Publish(p) PROVE IndInv'
  <2>1. ProcessesOK' /\ DirectoryOK'
    BY <1>9 DEF Publish, ProcessesOK, DirectoryOK
  <2>2. FilesOK'
    BY <1>9, WritesKeepFilesOK DEF Publish
  <2>3. QED
    BY <2>1, <2>2, PartsOfIndInv
<1>10. ASSUME NEW p \in Procs, Close(p) PROVE IndInv'
  BY <1>10 DEF Close, Goto, Leave
<1>11. ASSUME NEW p \in Procs, Judge(p) \/ Clear(p) PROVE IndInv'
  BY <1>11 DEF Judge, Clear, Goto
<1>12. ASSUME NEW p \in Procs, Unlink(p) PROVE IndInv'
  BY <1>12 DEF Unlink, Goto
<1>13. ASSUME NEW p \in Procs, RemoveDirectory(p) PROVE IndInv'
  BY <1>13 DEF RemoveDirectory, Goto, Occupied
<1>14. CASE UNCHANGED vars
  BY <1>14 DEF vars
<1>15. QED
  BY <1>1, <1>2, <1>3, <1>4, <1>5, <1>6, <1>7, <1>8, <1>9, <1>10, <1>11, <1>12,
     <1>13, <1>14 DEF Next

\* The bookkeeping of the directory, its files and the connections to them is
\* consistent whatever the processes do.
THEOREM TypeCorrect == Spec => []TypeOK
<1>1. Init => IndInv
  BY InitIndInv
<1>2. IndInv /\ [Next]_vars => IndInv'
  BY NextIndInv
<1>3. IndInv => TypeOK
  BY DEF IndInv
<1>4. QED
  BY <1>1, <1>2, <1>3, PTL DEF Spec

\* A database a build has just created is one it understands.
LEMMA CreateMakesItsOwn ==
  ASSUME TypeOK, NEW p \in Procs, pc[p] \in Connected, Create(p)
  PROVE  /\ files'[handle[p]].version = SchemaOf[p]
         /\ files'[handle[p]].layout = "current"
  BY DirectoryAssumption DEF TypeOK, Create, Database, Files

\* `open_writable` succeeds only on the layout of the process's own build,
\* however many openers, pruners and rebuilders of other builds there are.
THEOREM OpenersGetTheirLayout == Spec => OpensSafely
<1>1. ASSUME TypeOK, [Next]_vars PROVE OpensOnItsOwnLayout
  <2> SUFFICES ASSUME NEW p \in Procs, pc[p] # "open", pc'[p] = "open"
               PROVE  /\ files'[handle'[p]].version = SchemaOf[p]
                      /\ files'[handle'[p]].layout = "current"
    BY DEF OpensOnItsOwnLayout
  <2>1. pc \in [Procs -> Connected \cup Unconnected]
    BY <1>1 DEF TypeOK
  <2>2. InitializeOrJoin(p) \/ Validate(p) \/ Recreate(p)
    <3>1. pc' # pc
      BY <2>1
    <3>2. PICK q \in Procs :
            \/ MakeDirectory(q) \/ Connect(q) \/ ReadVersion(q) \/ InitializeOrJoin(q)
            \/ Validate(q) \/ ResetLegacy(q) \/ Recreate(q) \/ Publish(q) \/ Close(q)
            \/ Judge(q) \/ Clear(q) \/ Unlink(q) \/ RemoveDirectory(q)
      BY <1>1, <3>1 DEF Next, vars, ToggleProject
    <3>3. q = p
      BY <2>1, <3>2 DEF MakeDirectory, Connect, ReadVersion, InitializeOrJoin, Validate,
         ResetLegacy, Recreate, Publish, Close, Judge, Clear, Unlink, RemoveDirectory,
         Goto, Leave
    <3>4. ~(MakeDirectory(p) \/ Connect(p) \/ Publish(p) \/ Close(p) \/ Judge(p)
            \/ Clear(p) \/ Unlink(p) \/ RemoveDirectory(p) \/ ResetLegacy(p))
      BY <2>1 DEF MakeDirectory, Connect, ResetLegacy, Publish, Close, Judge, Clear, Unlink,
         RemoveDirectory, Goto, Leave
    <3>5. ~ReadVersion(p)
      BY <2>1 DEF ReadVersion, Goto, Leave
    <3>6. QED
      BY <3>2, <3>3, <3>4, <3>5
  <2>3. ASSUME InitializeOrJoin(p)
        PROVE  UNCHANGED handle /\ (Create(p) \/ (UNCHANGED files /\ Understood(p)))
    <3>1. ~Leave(p)
      BY <2>1 DEF Leave, Goto
    <3>2. QED
      BY <2>3, <3>1 DEF InitializeOrJoin
  <2>4. CASE InitializeOrJoin(p)
    <3>1. pc[p] \in Connected
      BY <2>4 DEF InitializeOrJoin, Connected
    <3>2. QED
      BY <1>1, <2>3, <2>4, <3>1, CreateMakesItsOwn DEF Understood, Found
  <2>5. CASE Validate(p)
    BY <2>1, <2>5 DEF Validate, Understood, Found, Leave, Goto
  <2>6. CASE Recreate(p)
    BY <1>1, <2>6, CreateMakesItsOwn DEF Recreate, Connected
  <2>7. QED
    BY <2>2, <2>4, <2>5, <2>6
<1>2. QED
  BY <1>1, TypeCorrect, PTL DEF Spec, OpensSafely

\* Whatever openers, publishers and pruners of any builds do, a published snapshot
\* of a database is lost only to a process that took it for an older release's:
\* the first to initialize or to reset a database wins, and the others join it.
THEOREM OnlyRebuildsDropSnapshots == Spec => OpeningKeepsSnapshots
<1>1. ASSUME IndInv, [Next]_vars PROVE KeepsSnapshots
  <2> SUFFICES ASSUME NEW f \in Files, files[f].layout = "current", files[f].snapshots,
                      ~files'[f].snapshots
               PROVE  \E p \in Procs :
                        /\ pc[p] = "recreate" /\ pc'[p] = "open"
                        /\ handle[p] = f /\ 0 < seen[p] /\ seen[p] < SchemaOf[p]
    BY DEF KeepsSnapshots
  <2> USE DirectoryAssumption DEF IndInv, TypeOK
  <2>1. ASSUME NEW p \in Procs, Recreate(p)
        PROVE  /\ pc[p] = "recreate" /\ pc'[p] = "open"
               /\ handle[p] = f /\ 0 < seen[p] /\ seen[p] < SchemaOf[p]
    <3>1. pc[p] = "recreate" /\ pc'[p] = "open"
      BY <1>1, <2>1 DEF Recreate, Goto
    <3>2. 0 < seen[p] /\ seen[p] < SchemaOf[p]
      <4>1. seen[p] \in Versions /\ seen[p] < SchemaOf[p]
        BY <1>1, <3>1, Zenon DEF RecreatesOlder
      <4>2. \A v \in Versions : 0 < v
        BY ONLY DirectoryAssumption DEF DirectoryAssumption
      <4>3. QED
        BY <4>1, <4>2, Zenon
    <3>3. handle[p] = f
      BY <1>1, <2>1 DEF Recreate, Create
    <3>4. QED
      BY <3>1, <3>2, <3>3
  <2>2. ASSUME NEW p \in Procs, InitializeOrJoin(p) PROVE FALSE
    BY <1>1, <2>2 DEF InitializeOrJoin, Create, VersionUnderLock, Found,
       TablesHaveVersions
  <2>3. ASSUME NEW p \in Procs, ResetLegacy(p) PROVE FALSE
    BY <1>1, <2>3 DEF ResetLegacy, Create, IsLegacy, Found
  <2>4. ASSUME NEW p \in Procs, Publish(p) PROVE FALSE
    <3>1. f # handle[p] => files'[f] = files[f]
      BY <1>1, <2>4 DEF Publish
    <3>2. f = handle[p] => files'[f].snapshots = TRUE
      BY <1>1, <2>4 DEF Publish, Database
    <3>3. QED
      BY <3>1, <3>2
  <2>5. files' = files \/ \E p \in Procs :
          Recreate(p) \/ InitializeOrJoin(p) \/ ResetLegacy(p) \/ Publish(p)
    BY <1>1 DEF Next, vars, ToggleProject, MakeDirectory, Connect, ReadVersion,
       Validate, Close, Judge, Clear, Unlink, RemoveDirectory
  <2>6. QED
    BY <2>1, <2>2, <2>3, <2>4, <2>5
<1>2. QED
  BY <1>1, InitIndInv, NextIndInv, PTL DEF Spec, OpeningKeepsSnapshots
=============================================================================
