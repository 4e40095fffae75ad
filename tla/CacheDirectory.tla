--------------------------- MODULE CacheDirectory ---------------------------
(***************************************************************************)
(* The directory of one project's cache, shared by processes of several    *)
(* builds: `CacheStore::open_writable` creates the database, joins one     *)
(* that another process is creating, or rebuilds an older layout           *)
(* (cli/src/cache/store.rs, schema.rs), while `cache prune`, `cache clear` *)
(* and `cache rebuild` delete the directory (cli/src/execution/            *)
(* lifecycle.rs).  What a transaction does inside the database is the      *)
(* business of module CacheStore.                                          *)
(***************************************************************************)
EXTENDS Integers

CONSTANTS
  Procs,      \* processes
  SchemaOf,   \* SCHEMA_VERSION of the build each process runs
  Versions,   \* layout versions a database may carry
  NoFile,     \* no database
  MaxFiles    \* bound: database files ever created

ASSUME DirectoryAssumption ==
  /\ Versions \subseteq Nat \ {0}
  /\ SchemaOf \in [Procs -> Versions]
  /\ MaxFiles \in Nat
  /\ NoFile \notin Nat

Files == 1 .. MaxFiles

VARIABLES
  root,     \* the project the cache is for still exists
  dir,      \* the directory exists
  link,     \* the file its database path names
  files,    \* the databases, unlinked ones that are still open included
  created,  \* files 1 .. created have existed
  pc,       \* where each process is
  handle,   \* the file its connection has open
  seen      \* the user_version it read before it took any lock

vars == <<root, dir, link, files, created, pc, handle, seen>>

\* A database: its user_version, whether its tables are those of that version or
\* the unreleased monolithic ones, and whether any snapshot is published in it.
Layouts == {"none", "legacy", "current"}
Database(version, layout, snapshots) ==
  [version |-> version, layout |-> layout, snapshots |-> snapshots]
Pristine == Database(0, "none", FALSE)
Databases ==
  {Pristine}
    \cup {Database(v, l, s) : v \in Versions, l \in {"legacy", "current"}, s \in BOOLEAN}

Init ==
  /\ root \in BOOLEAN
  /\ \/ created = 0 /\ link = NoFile /\ dir = FALSE /\ files = [f \in Files |-> Pristine]
     \/ /\ MaxFiles > 0
        /\ created = 1 /\ link = 1 /\ dir = TRUE
        /\ \E d \in Databases : files = [f \in Files |-> IF f = 1 THEN d ELSE Pristine]
  /\ pc = [p \in Procs |-> "idle"]
  /\ handle = [p \in Procs |-> NoFile]
  /\ seen = [p \in Procs |-> 0]

Goto(p, label) == pc' = [pc EXCEPT ![p] = label]

\* Closes the connection: the command is over, failed or killed.
Leave(p) ==
  /\ Goto(p, "idle")
  /\ handle' = [handle EXCEPT ![p] = NoFile]
  /\ seen' = [seen EXCEPT ![p] = 0]

-----------------------------------------------------------------------------
\* `open_writable`.

MakeDirectory(p) ==
  /\ pc[p] = "idle"
  /\ dir' = TRUE
  /\ Goto(p, "connect")
  /\ UNCHANGED <<root, link, files, created, handle, seen>>

\* Opens the file at the path, creating it if need be; the directory may have
\* been removed meanwhile.
Connect(p) ==
  /\ pc[p] = "connect"
  /\ \/ /\ link # NoFile
        /\ handle' = [handle EXCEPT ![p] = link]
        /\ Goto(p, "version")
        /\ UNCHANGED <<link, created, seen>>
     \/ /\ link = NoFile /\ dir /\ created < MaxFiles
        /\ created' = created + 1
        /\ link' = created + 1
        /\ handle' = [handle EXCEPT ![p] = created + 1]
        /\ Goto(p, "version")
        /\ UNCHANGED seen
     \/ /\ link = NoFile /\ ~dir
        /\ Leave(p)
        /\ UNCHANGED <<link, created>>
  /\ UNCHANGED <<root, dir, files>>

Found(p) == files[handle[p]]

\* The branch is chosen on a version read outside any transaction.
ReadVersion(p) ==
  /\ pc[p] = "version"
  /\ IF Found(p).version > SchemaOf[p] THEN Leave(p)
     ELSE /\ seen' = [seen EXCEPT ![p] = Found(p).version]
          /\ Goto(p, CASE Found(p).version = 0           -> "initialize"
                       [] Found(p).version = SchemaOf[p] -> "validate"
                       [] OTHER                          -> "recreate")
          /\ UNCHANGED handle
  /\ UNCHANGED <<root, dir, link, files, created>>

\* `validate_v1`: the tables are exactly those of this build.
AcceptsAnyLayout(p) == Found(p).version = SchemaOf[p]
Understood(p) == Found(p).version = SchemaOf[p] /\ Found(p).layout = "current"

\* `create_v1`.
Create(p) == files' = [files EXCEPT ![handle[p]] = Database(SchemaOf[p], "current", FALSE)]

\* The version is read again under the write lock, for the process that waited
\* for another to create the tables.
VersionAsSeen(p) == seen[p]
VersionUnderLock(p) == Found(p).version

InitializeOrJoin(p) ==
  /\ pc[p] = "initialize"
  /\ \/ VersionUnderLock(p) = 0 /\ Create(p) /\ Goto(p, "open") /\ UNCHANGED <<handle, seen>>
     \/ /\ VersionUnderLock(p) # 0 /\ Understood(p)
        /\ Goto(p, "open")
        /\ UNCHANGED <<files, handle, seen>>
     \/ VersionUnderLock(p) # 0 /\ ~Understood(p) /\ Leave(p) /\ UNCHANGED files
  /\ UNCHANGED <<root, dir, link, created>>

\* Without a transaction; again after a reset, when there is no second reset.
Validate(p) ==
  /\ pc[p] \in {"validate", "revalidate"}
  /\ \/ Understood(p) /\ Goto(p, "open") /\ UNCHANGED <<handle, seen>>
     \/ ~Understood(p) /\ pc[p] = "validate" /\ Goto(p, "reset") /\ UNCHANGED <<handle, seen>>
     \/ ~Understood(p) /\ pc[p] = "revalidate" /\ Leave(p)
  /\ UNCHANGED <<root, dir, link, files, created>>

\* `reset_legacy_graph_layout` replaces only the monolithic layout, and drops its
\* graphs.  A process that another one beat to it fails.
ResetsAnything(p) == TRUE
IsLegacy(p) == Found(p).version = SchemaOf[p] /\ Found(p).layout = "legacy"

ResetLegacy(p) ==
  /\ pc[p] = "reset"
  /\ \/ IsLegacy(p) /\ Create(p) /\ Goto(p, "revalidate") /\ UNCHANGED <<handle, seen>>
     \/ ~IsLegacy(p) /\ Leave(p) /\ UNCHANGED files
  /\ UNCHANGED <<root, dir, link, created>>

\* `recreate_v1` drops every table there is and creates its own.
Recreate(p) ==
  /\ pc[p] = "recreate"
  /\ Create(p)
  /\ Goto(p, "open")
  /\ UNCHANGED <<root, dir, link, created, handle, seen>>

\* A publication through an open handle.  If another build has replaced the
\* tables meanwhile, it fails or lands, as the columns it names happen to exist.
Publish(p) ==
  /\ pc[p] = "open"
  /\ files' = [files EXCEPT ![handle[p]] = Database(@.version, @.layout, TRUE)]
  /\ UNCHANGED <<root, dir, link, created, pc, handle, seen>>

\* The command ends, or dies wherever it is; SQLite undoes its transaction.
Close(p) ==
  /\ pc[p] # "idle"
  /\ Leave(p)
  /\ UNCHANGED <<root, dir, link, files, created>>

-----------------------------------------------------------------------------
\* `cache prune`, `cache clear`, `cache rebuild`.

\* `prune_reason`: an outdated database, or one nobody will open.
Keeps(p) == link # NoFile /\ files[link].version >= SchemaOf[p] /\ root

Judge(p) ==
  /\ pc[p] = "idle"
  /\ dir /\ ~Keeps(p)
  /\ Goto(p, "prune")
  /\ UNCHANGED <<root, dir, link, files, created, handle, seen>>

Clear(p) ==
  /\ pc[p] = "idle"
  /\ dir
  /\ Goto(p, "clear")
  /\ UNCHANGED <<root, dir, link, files, created, handle, seen>>

\* `remove_dir_all` unlinks the database, then removes the directory, which
\* fails if a database has appeared in it again.
Unlink(p) ==
  /\ pc[p] \in {"prune", "clear"}
  /\ link' = NoFile
  /\ Goto(p, "rmdir")
  /\ UNCHANGED <<root, dir, files, created, handle, seen>>

AlwaysEmpties == FALSE
Occupied == link # NoFile

RemoveDirectory(p) ==
  /\ pc[p] = "rmdir"
  /\ dir' = Occupied
  /\ Goto(p, "idle")
  /\ UNCHANGED <<root, link, files, created, handle, seen>>

\* The user deletes the project's checkout, or makes it again.
ToggleProject ==
  /\ root' = ~root
  /\ UNCHANGED <<dir, link, files, created, pc, handle, seen>>

Next ==
  \/ ToggleProject
  \/ \E p \in Procs :
       \/ MakeDirectory(p) \/ Connect(p) \/ ReadVersion(p) \/ InitializeOrJoin(p)
       \/ Validate(p) \/ ResetLegacy(p) \/ Recreate(p) \/ Publish(p) \/ Close(p)
       \/ Judge(p) \/ Clear(p) \/ Unlink(p) \/ RemoveDirectory(p)

Spec == Init /\ [][Next]_vars

-----------------------------------------------------------------------------
\* Properties.

Connected == {"version", "initialize", "validate", "revalidate", "reset", "recreate", "open"}
Unconnected == {"idle", "connect", "prune", "clear", "rmdir"}

TypeOK ==
  /\ root \in BOOLEAN /\ dir \in BOOLEAN
  /\ created \in 0 .. MaxFiles
  /\ files \in [Files -> [version : Versions \cup {0}, layout : Layouts, snapshots : BOOLEAN]]
  /\ link \in 1 .. created \cup {NoFile}
  /\ pc \in [Procs -> Connected \cup Unconnected]
  /\ handle \in [Procs -> 1 .. created \cup {NoFile}]
  /\ \A p \in Procs : pc[p] \in Connected <=> handle[p] # NoFile
  /\ seen \in [Procs -> Versions \cup {0}]
  /\ link # NoFile => dir

\* However the openers of several builds interleave, `open_writable` succeeds
\* only on a database in the layout of its own build.
OpensOnItsOwnLayout ==
  \A p \in Procs :
    pc[p] # "open" /\ pc'[p] = "open" =>
      /\ files'[handle'[p]].version = SchemaOf[p]
      /\ files'[handle'[p]].layout = "current"
OpensSafely == [][OpensOnItsOwnLayout]_vars

\* Processes that both found the database empty, or both found the monolithic
\* layout, share what the first of them made: a published snapshot is lost only to
\* a process that read the version of an older release from that very database.
KeepsSnapshots ==
  \A f \in Files :
    files[f].layout = "current" /\ files[f].snapshots /\ ~files'[f].snapshots =>
      \E p \in Procs :
        /\ pc[p] = "recreate" /\ pc'[p] = "open"
        /\ handle[p] = f /\ 0 < seen[p] /\ seen[p] < SchemaOf[p]
OpeningKeepsSnapshots == [][KeepsSnapshots]_vars

-----------------------------------------------------------------------------
\* Only a database without a version has no tables.
TablesHaveVersions == \A f \in Files : files[f].version = 0 <=> files[f].layout = "none"

\* What a process that is about to rebuild a database knows of it.
RecreatesOlder ==
  \A p \in Procs : pc[p] = "recreate" => seen[p] \in Versions /\ seen[p] < SchemaOf[p]
=============================================================================
