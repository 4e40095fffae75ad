----------------------------- MODULE WorkerPool -----------------------------
(***************************************************************************)
(* The extraction pool of `code2graph index`: pool threads that pull work  *)
(* items off a shared cursor, the long-lived worker process each of them   *)
(* owns, the crash recovery policy of one file, and the monitor thread     *)
(* that kills registered workers once the deadline or a cancellation       *)
(* trips (cli/src/refresh/prepare/{pool,recovery,api}.rs and               *)
(* cli/src/worker/persistent.rs).                                          *)
(*                                                                         *)
(* A step is what the code does between two points where another thread,   *)
(* a worker process or the monitor can be observed: an atomic cursor       *)
(* operation, a critical section of the registry lock, a process spawn or  *)
(* reap, one pipe operation, one deadline check.  Process ids are recycled *)
(* by the operating system as soon as a process has been reaped.           *)
(***************************************************************************)
EXTENDS Integers, Sequences

CONSTANTS Threads,    \* pool threads: min(available_parallelism, |work|)
          Pids,       \* process ids the operating system may hand out
          NoPid,      \* an empty Option<KillHandle> or Option<Session>
          WorkLen,    \* number of work items; an empty batch returns early
          Natures,    \* what the files of this instance may do to a worker
          MaxStrays   \* bound: worker deaths that no file caused

AllNatures ==
  {"facts", "extraction-error", "invalid-facts", "protocol", "crash", "hang"}

ASSUME PoolAssumption ==
  /\ Threads # {}
  /\ NoPid \notin Pids
  /\ WorkLen \in Nat \ {0}
  /\ Natures \subseteq AllNatures
  /\ MaxStrays \in Nat

Items == 0 .. WorkLen - 1

\* The files whose worker answers with a frame, and what the caller makes of
\* the answer: `detailed_omission` turns the two per-file failures into an
\* omission and leaves every other failure fatal.
Replying == {"facts", "extraction-error", "invalid-facts", "protocol"}

LaunderedOutcome(answer) == IF answer = "facts" THEN "facts" ELSE "omitted"

Outcome(answer) ==
  CASE answer = "facts" -> "facts"
    [] answer \in {"extraction-error", "invalid-facts"} -> "omitted"
    [] OTHER -> "fatal"

Outcomes ==
  {"facts", "omitted", "fatal", "worker-crash", "expired", "spawn-failed"}

VARIABLES
  nature,     \* what each file does to the worker that extracts it
  expired,    \* the deadline has passed or the run was cancelled (never undone)
  cursor,     \* AtomicUsize: next work item to claim
  results,    \* Mutex<Vec>: the outcomes pushed, grouped by work item
  registry,   \* Mutex<Vec<Option<KillHandle>>>: the slot of each thread
  pc,         \* where each pool thread is
  item,       \* the work item a thread has claimed
  attempt,    \* 1, or 2 for the retry after a worker death
  session,    \* the worker a thread's session owns
  spare,      \* the replacement a respawn has spawned and not yet installed
  process,    \* each process: free, idle, busy or dead (a zombie until reaped)
  reply,      \* the response frame waiting in the worker's stdout pipe
  torn,       \* workers whose stdout no longer starts at a frame boundary
  monitor,    \* the deadline monitor thread
  main,       \* the thread that called parallel_extract
  strays,     \* deaths no file caused, counted up to MaxStrays
  disturbed   \* items that met a stray death or a failed spawn

threadVars == <<pc, item, attempt, session, spare>>
vars == <<nature, expired, cursor, results, registry, threadVars, process,
          reply, torn, monitor, main, strays, disturbed>>

-----------------------------------------------------------------------------
Labels == {"claim", "session", "register", "check", "send", "read", "died",
           "respawn", "unslot", "reap", "reslot", "clear", "drop", "done"}

\* A thread at one of these labels holds a claimed item it has not answered.
Working == {"session", "register", "check", "send", "read", "died",
            "respawn", "unslot", "reap", "reslot"}

TypeOK ==
  /\ nature \in [Items -> Natures]
  /\ expired \in BOOLEAN
  /\ cursor \in Nat
  /\ results \in [Items -> Seq(Outcomes)]
  /\ registry \in [Threads -> Pids \cup {NoPid}]
  /\ pc \in [Threads -> Labels]
  /\ item \in [Threads -> Items]
  /\ attempt \in [Threads -> {1, 2}]
  /\ session \in [Threads -> Pids \cup {NoPid}]
  /\ spare \in [Threads -> Pids \cup {NoPid}]
  /\ process \in [Pids -> {"free", "idle", "busy", "dead"}]
  /\ reply \in [Pids -> Replying \cup {"none"}]
  /\ torn \in SUBSET Pids
  /\ monitor \in {"polling", "stopped"}
  /\ main \in {"joining", "stopping", "returned"}
  /\ strays \in 0 .. MaxStrays
  /\ disturbed \in SUBSET Items

Init ==
  /\ nature \in [Items -> Natures]
  /\ expired \in BOOLEAN
  /\ cursor = 0
  /\ results = [i \in Items |-> <<>>]
  /\ registry = [t \in Threads |-> NoPid]
  /\ pc = [t \in Threads |-> "claim"]
  /\ item = [t \in Threads |-> 0]
  /\ attempt = [t \in Threads |-> 1]
  /\ session = [t \in Threads |-> NoPid]
  /\ spare = [t \in Threads |-> NoPid]
  /\ process = [p \in Pids |-> "free"]
  /\ reply = [p \in Pids |-> "none"]
  /\ torn = {}
  /\ monitor = "polling"
  /\ main = "joining"
  /\ strays = 0
  /\ disturbed = {}

-----------------------------------------------------------------------------
\* Pool threads.

Goto(t, label) == pc' = [pc EXCEPT ![t] = label]

\* `push_result` under the results lock; the thread then goes for its next item.
Push(t, outcome) ==
  /\ results' = [results EXCEPT ![item[t]] = Append(@, outcome)]
  /\ Goto(t, "claim")

\* One `cursor.fetch_add(1)`, and the lookup of the item it names.
LoadThenStore == cursor' \in {cursor, cursor + 1}
FetchAdd == cursor' = cursor + 1

OffByOneHasWork == cursor <= WorkLen
HasWork == cursor < WorkLen

Claim(t) ==
  /\ pc[t] = "claim"
  /\ FetchAdd
  /\ IF HasWork
     THEN /\ item' = [item EXCEPT ![t] = cursor]
          /\ attempt' = [attempt EXCEPT ![t] = 1]
          /\ Goto(t, IF session[t] = NoPid THEN "session" ELSE "check")
     ELSE /\ Goto(t, "clear")
          /\ UNCHANGED <<item, attempt>>
  /\ UNCHANGED <<nature, expired, results, registry, session, spare, process,
                 reply, torn, monitor, main, strays, disturbed>>

\* `FactsExtractor::session`: the worker is alive before its handle is
\* registered.  A worker that cannot be spawned is a fatal result of the item.
OpenSession(t) ==
  /\ pc[t] = "session"
  /\ \E p \in Pids :
       /\ process[p] = "free"
       /\ process' = [process EXCEPT ![p] = "idle"]
       /\ session' = [session EXCEPT ![t] = p]
  /\ Goto(t, "register")
  /\ UNCHANGED <<nature, expired, cursor, results, registry, item, attempt,
                 spare, reply, torn, monitor, main, strays, disturbed>>

SpawnFails(t) ==
  /\ pc[t] \in {"session", "respawn"}
  /\ Push(t, "spawn-failed")
  /\ disturbed' = disturbed \cup {item[t]}
  /\ UNCHANGED <<nature, expired, cursor, registry, item, attempt, session,
                 spare, process, reply, torn, monitor, main, strays>>

\* `slot.set` with the handle of the session's current worker.
SetSlotOnFirstSpawnOnly(t) ==
  registry' = IF pc[t] = "register" THEN [registry EXCEPT ![t] = session[t]]
                                    ELSE registry
SetSlot(t) == registry' = [registry EXCEPT ![t] = session[t]]

Register(t) ==
  /\ pc[t] = "register"
  /\ SetSlot(t)
  /\ Goto(t, "check")
  /\ UNCHANGED <<nature, expired, cursor, results, item, attempt, session,
                 spare, process, reply, torn, monitor, main, strays, disturbed>>

\* `deadline.check`: on entry to `extract_with_recovery`, and again after each
\* worker death, so a worker the monitor killed is never taken for a crash.
BreachedOnEntryOnly(t) == expired /\ pc[t] = "check"
Breached(t) == expired /\ pc[t] \in {"check", "died"}

RetryOnSameWorker(label) == "send"
AfterCheck(label) == IF label = "check" THEN "send" ELSE "respawn"

DeadlineCheck(t) ==
  /\ pc[t] \in {"check", "died"}
  /\ IF Breached(t)
     THEN Push(t, "expired")
     ELSE /\ Goto(t, AfterCheck(pc[t]))
          /\ UNCHANGED results
  /\ UNCHANGED <<nature, expired, cursor, registry, item, attempt, session,
                 spare, process, reply, torn, monitor, main, strays, disturbed>>

\* Writes the request frame; the pipe of a dead worker refuses it.
Send(t) ==
  /\ pc[t] = "send"
  /\ IF process[session[t]] = "dead"
     THEN Goto(t, "died") /\ UNCHANGED process
     ELSE /\ process' = [process EXCEPT ![session[t]] = "busy"]
          /\ Goto(t, "read")
  /\ UNCHANGED <<nature, expired, cursor, results, registry, item, attempt,
                 session, spare, reply, torn, monitor, main, strays, disturbed>>

\* Reads one response frame.  A frame already in the pipe is still read after
\* its worker has died.
Read(t) ==
  /\ pc[t] = "read"
  /\ reply[session[t]] # "none"
  /\ reply' = [reply EXCEPT ![session[t]] = "none"]
  /\ Push(t, Outcome(reply[session[t]]))
  /\ UNCHANGED <<nature, expired, cursor, registry, item, attempt, session,
                 spare, process, torn, monitor, main, strays, disturbed>>

\* End of file, or a frame cut short: the worker is gone.
ReadEof(t) ==
  /\ pc[t] = "read"
  /\ reply[session[t]] = "none"
  /\ process[session[t]] = "dead"
  /\ Goto(t, "died")
  /\ UNCHANGED <<nature, expired, cursor, results, registry, item, attempt,
                 session, spare, process, reply, torn, monitor, main, strays,
                 disturbed>>

\* `respawn`: spawn the replacement first; then clear the slot, drop (kill and
\* reap) the old worker, and register the new one, in that order.
Respawn(t) ==
  /\ pc[t] = "respawn"
  /\ \E p \in Pids :
       /\ process[p] = "free"
       /\ process' = [process EXCEPT ![p] = "idle"]
       /\ spare' = [spare EXCEPT ![t] = p]
  /\ Goto(t, "unslot")
  /\ UNCHANGED <<nature, expired, cursor, results, registry, item, attempt,
                 session, reply, torn, monitor, main, strays, disturbed>>

ClearSlotAtEndOnly(t) ==
  registry' = IF pc[t] = "clear" THEN [registry EXCEPT ![t] = NoPid] ELSE registry
ClearSlot(t) == registry' = [registry EXCEPT ![t] = NoPid]

Unslot(t) ==
  /\ pc[t] \in {"unslot", "clear"}
  /\ ClearSlot(t)
  /\ Goto(t, IF pc[t] = "unslot" THEN "reap" ELSE "drop")
  /\ UNCHANGED <<nature, expired, cursor, results, item, attempt, session,
                 spare, process, reply, torn, monitor, main, strays, disturbed>>

\* Dropping a `PersistentWorker` closes its pipes, kills its process group and
\* waits for it: the pid is free again, and with it go its pipe's contents.
ReapUnlessDead(p) ==
  /\ process' = [process EXCEPT ![p] = IF @ = "dead" THEN "dead" ELSE "free"]
  /\ reply' = [reply EXCEPT ![p] = "none"]
  /\ torn' = torn \ {p}

Reap(p) ==
  /\ process' = [process EXCEPT ![p] = "free"]
  /\ reply' = [reply EXCEPT ![p] = "none"]
  /\ torn' = torn \ {p}

ReplaceWorker(t) ==
  /\ pc[t] = "reap"
  /\ Reap(session[t])
  /\ session' = [session EXCEPT ![t] = spare[t]]
  /\ spare' = [spare EXCEPT ![t] = NoPid]
  /\ Goto(t, "reslot")
  /\ UNCHANGED <<nature, expired, cursor, results, registry, item, attempt,
                 monitor, main, strays, disturbed>>

\* Registers the replacement.  After the first death the file is tried once
\* more; after the second it is omitted as the file that crashes its worker.
Reslot(t) ==
  /\ pc[t] = "reslot"
  /\ SetSlot(t)
  /\ IF attempt[t] = 1
     THEN /\ attempt' = [attempt EXCEPT ![t] = 2]
          /\ Goto(t, "send")
          /\ UNCHANGED results
     ELSE Push(t, "worker-crash") /\ UNCHANGED attempt
  /\ UNCHANGED <<nature, expired, cursor, item, session, spare, process, reply,
                 torn, monitor, main, strays, disturbed>>

\* The cursor is exhausted and the slot is cleared: drop the session.
DropSession(t) ==
  /\ pc[t] = "drop"
  /\ IF session[t] = NoPid
     THEN UNCHANGED <<process, reply, torn>>
     ELSE Reap(session[t])
  /\ session' = [session EXCEPT ![t] = NoPid]
  /\ Goto(t, "done")
  /\ UNCHANGED <<nature, expired, cursor, results, registry, item, attempt,
                 spare, monitor, main, strays, disturbed>>

ThreadStep(t) ==
  \/ Claim(t) \/ OpenSession(t) \/ SpawnFails(t) \/ Register(t)
  \/ DeadlineCheck(t) \/ Send(t) \/ Read(t) \/ ReadEof(t) \/ Respawn(t)
  \/ Unslot(t) \/ ReplaceWorker(t) \/ Reslot(t) \/ DropSession(t)

-----------------------------------------------------------------------------
\* Worker processes.  `t` is the thread whose session owns the process.

\* A worker answers the frame it has read.  A frame that is not acceptable may
\* leave the stream in the middle of a frame, and then no later answer of the
\* same worker is acceptable either.
WorkerReplies(t) ==
  LET p == session[t]
      answer == IF p \in torn THEN "protocol" ELSE nature[item[t]]
  IN  /\ p # NoPid
      /\ process[p] = "busy"
      /\ answer \in Replying
      /\ process' = [process EXCEPT ![p] = "idle"]
      /\ reply' = [reply EXCEPT ![p] = answer]
      /\ IF answer = "protocol" THEN torn' \in {torn, torn \cup {p}}
                                ELSE UNCHANGED torn
      /\ UNCHANGED <<nature, expired, cursor, results, registry, threadVars,
                     monitor, main, strays, disturbed>>

\* The file it is extracting brings the worker down.
WorkerCrashes(t) ==
  /\ session[t] # NoPid
  /\ process[session[t]] = "busy"
  /\ nature[item[t]] = "crash"
  /\ process' = [process EXCEPT ![session[t]] = "dead"]
  /\ UNCHANGED <<nature, expired, cursor, results, registry, threadVars, reply,
                 torn, monitor, main, strays, disturbed>>

\* The operating system kills a worker for reasons of its own.
StrayDeath(p) ==
  /\ strays < MaxStrays
  /\ process[p] \in {"idle", "busy"}
  /\ process' = [process EXCEPT ![p] = "dead"]
  /\ strays' = strays + 1
  /\ disturbed' = disturbed \cup
       {item[t] : t \in {u \in Threads : pc[u] \in Working
                                          /\ p \in {session[u], spare[u]}}}
  /\ UNCHANGED <<nature, expired, cursor, results, registry, threadVars, reply,
                 torn, monitor, main>>

-----------------------------------------------------------------------------
\* The clock, the monitor and the calling thread.

Expire ==
  /\ ~expired
  /\ expired' = TRUE
  /\ UNCHANGED <<nature, cursor, results, registry, threadVars, process, reply,
                 torn, monitor, main, strays, disturbed>>

\* `kill_all` under the registry lock.  The monitor does this again every poll.
KillAll ==
  /\ monitor = "polling"
  /\ expired
  /\ process' = [p \in Pids |->
                   IF \E t \in Threads : registry[t] = p THEN "dead"
                                                         ELSE process[p]]
  /\ UNCHANGED <<nature, expired, cursor, results, registry, threadVars, reply,
                 torn, monitor, main, strays, disturbed>>

\* The caller joins every pool thread; only then does `MonitorStop` drop.
JoinPool ==
  /\ main = "joining"
  /\ \A t \in Threads : pc[t] = "done"
  /\ main' = "stopping"
  /\ UNCHANGED <<nature, expired, cursor, results, registry, threadVars,
                 process, reply, torn, monitor, strays, disturbed>>

MonitorExits ==
  /\ monitor = "polling"
  /\ main # "joining"
  /\ monitor' = "stopped"
  /\ UNCHANGED <<nature, expired, cursor, results, registry, threadVars,
                 process, reply, torn, main, strays, disturbed>>

ReturnResults ==
  /\ main = "stopping"
  /\ monitor = "stopped"
  /\ main' = "returned"
  /\ UNCHANGED <<nature, expired, cursor, results, registry, threadVars,
                 process, reply, torn, monitor, strays, disturbed>>

\* The batch is over and only stuttering is left.
Finished ==
  /\ main = "returned"
  /\ UNCHANGED vars

Next ==
  \/ \E t \in Threads : ThreadStep(t) \/ WorkerReplies(t) \/ WorkerCrashes(t)
  \/ \E p \in Pids : StrayDeath(p)
  \/ Expire \/ KillAll \/ JoinPool \/ MonitorExits \/ ReturnResults
  \/ Finished

Spec == Init /\ [][Next]_vars

\* Threads of the program are scheduled; nothing is assumed of the worker
\* processes, which may hang, nor of the clock.
Fairness ==
  /\ \A t \in Threads : WF_vars(ThreadStep(t))
  /\ WF_vars(KillAll)
  /\ WF_vars(JoinPool) /\ WF_vars(MonitorExits) /\ WF_vars(ReturnResults)

FairSpec == Spec /\ Fairness

-----------------------------------------------------------------------------
\* Properties.

\* The monitor never signals a process that has been reaped: a registered
\* handle names a process its own thread still owns, so `kill_all` cannot hit
\* a recycled pid (api.rs, the contract of WorkerSlot).
HandlesAreLive ==
  \A t \in Threads : registry[t] # NoPid =>
    /\ registry[t] = session[t]
    /\ process[registry[t]] # "free"

\* A worker that may be blocking its thread is always within the monitor's
\* reach, whatever respawns happened: a hung file cannot pin a thread.
BusyIsKillable ==
  \A p \in Pids : process[p] = "busy" => \E t \in Threads : registry[t] = p

\* What the recovery policy makes of a file when nothing else interferes.
PolicyOutcome(kind) ==
  IF kind \in Replying THEN {Outcome(kind)}
  ELSE IF kind = "crash" THEN {"worker-crash"} ELSE {}

\* Containment (recovery.rs): what a file comes to depends on that file only.
\* A neighbour that crashed, a worker found dead, or a kill by the monitor
\* never turns a good file into an omission or a fatal error, and only a file
\* that took down its own worker is omitted as the one that crashes workers.
\* The exceptions are the ones the code accepts: the deadline, a failure of
\* the operating system on that very file, and a stream left torn by a fatal
\* answer to an earlier item.
Contained ==
  \A i \in Items : results[i] # <<>> =>
    \/ results[i][1] \in PolicyOutcome(nature[i])
    \/ results[i][1] = "expired" /\ expired
    \/ i \in disturbed /\ results[i][1] \in {"worker-crash", "spawn-failed"}
    \/ results[i][1] = "fatal" /\ \E j \in Items :
         /\ j < i
         /\ nature[j] = "protocol"
         /\ results[j] = <<"fatal">>

\* The refresh fails on the first error in plan order.  When no deadline and no
\* operating system failure intervened, that error is the one a serial run
\* meets first, however the threads were scheduled.
Fatal(i) == results[i] # <<>> /\ results[i][1] = "fatal"
SerialVerdict ==
  main = "returned" /\ ~expired /\ disturbed = {} =>
    \A i \in Items : (\A j \in Items : j < i => ~Fatal(j))
                      => (Fatal(i) <=> nature[i] = "protocol")

\* When the pool returns no worker process is left behind, not even the ones a
\* failed or repeated respawn had a hand in, and every pid has been reaped.
NoWorkerOutlivesPool ==
  main = "returned" => \A p \in Pids : process[p] = "free"

\* The pool answers every item exactly once and returns only then.
Batch == INSTANCE ExtractionBatch WITH returned <- main = "returned"
AnswersEveryItemOnce == Batch!Spec

\* Once the deadline has passed the pool drains, whatever the workers do: the
\* monitor kills repeatedly until every blocked read has returned.
ExpiryDrainsPool == expired ~> main = "returned"

\* A file that never gets an answer is the only reason to need a deadline:
\* without one the pool returns by itself, crashes and respawns included, as long
\* as workers do answer or crash when their file lets them.
WorkersRun == \A t \in Threads : WF_vars(WorkerReplies(t) \/ WorkerCrashes(t))
AnswersWithoutHang ==
  WorkersRun /\ (\A i \in Items : nature[i] # "hang") => <>(main = "returned")

-----------------------------------------------------------------------------
\* The inductive invariant behind the monitor's kills.

\* Which processes a thread owns at which point of its loop, and when its slot
\* names the one it may be blocked on.
OwnershipOf(t) ==
  /\ pc[t] \in Working \ {"session"} => session[t] # NoPid
  /\ pc[t] \in {"session", "done"} => session[t] = NoPid
  /\ spare[t] # NoPid <=> pc[t] \in {"unslot", "reap"}
  /\ registry[t] =
       IF pc[t] \in {"session", "register", "reap", "reslot", "drop", "done"}
       THEN NoPid ELSE session[t]

\* No process has two owners.
Exclusive ==
  /\ \A t, u \in Threads : session[t] = session[u] /\ session[t] # NoPid => t = u
  /\ \A t, u \in Threads : spare[t] = spare[u] /\ spare[t] # NoPid => t = u
  /\ \A t, u \in Threads : session[t] = spare[u] => session[t] = NoPid

\* A process exists exactly while some thread owns it.
OwnedIffSpawned ==
  /\ \A t \in Threads : session[t] # NoPid => process[session[t]] # "free"
  /\ \A t \in Threads : spare[t] # NoPid => process[spare[t]] # "free"
  /\ \A p \in Pids : process[p] # "free" =>
       \E t \in Threads : p = session[t] \/ p = spare[t]

\* A worker is busy, or has an answer waiting, only while its owner reads; and
\* it is never both.
ReadByOwner ==
  \A p \in Pids : process[p] = "busy" \/ reply[p] # "none" =>
    /\ process[p] = "busy" => reply[p] = "none"
    /\ \E t \in Threads : session[t] = p /\ pc[t] = "read"

JoinedIsDone == main # "joining" => \A t \in Threads : pc[t] = "done"

Ownership ==
  /\ \A t \in Threads : OwnershipOf(t)
  /\ Exclusive
  /\ OwnedIffSpawned
  /\ ReadByOwner
  /\ JoinedIsDone

-----------------------------------------------------------------------------
\* The inductive invariant behind "every item exactly once".

\* A claimed item is below the cursor, unanswered, and held by one thread only.
ClaimsAreExclusive ==
  /\ \A t \in Threads : pc[t] \in Working =>
       item[t] < cursor /\ results[item[t]] = <<>>
  /\ \A t, u \in Threads :
       pc[t] \in Working /\ pc[u] \in Working /\ item[t] = item[u] => t = u

\* Below the cursor an item is answered or held; above it, it is untouched.
NothingLost ==
  /\ \A i \in Items : cursor <= i => results[i] = <<>>
  /\ \A i \in Items : i < cursor /\ results[i] = <<>> =>
       \E t \in Threads : pc[t] \in Working /\ item[t] = i

\* A thread leaves its loop only when the cursor has passed the last item.
ExhaustedWhenLeaving ==
  \A t \in Threads : pc[t] \in {"clear", "drop", "done"} => WorkLen <= cursor

Accounting ==
  /\ ClaimsAreExclusive
  /\ NothingLost
  /\ ExhaustedWhenLeaving

-----------------------------------------------------------------------------
\* The inductive invariant behind containment.

\* An earlier item has been answered with a fatal protocol failure of its own.
SpoiltBefore(i) ==
  \E j \in Items : j < i /\ nature[j] = "protocol" /\ results[j] = <<"fatal">>

\* An answer that waits is the one its file deserves, or one that a stream torn by
\* an earlier item has spoilt.
RepliesAreDeserved ==
  \A t \in Threads : pc[t] = "read" /\ reply[session[t]] # "none" =>
    \/ reply[session[t]] = nature[item[t]]
    \/ reply[session[t]] = "protocol" /\ SpoiltBefore(item[t])

\* A torn stream belongs to a session, and an item of that session tore it: the one
\* whose answer waits, or one below the cursor and below any its thread now holds.
TornByItsItems ==
  /\ \A t \in Threads : session[t] \in torn =>
       \/ /\ pc[t] = "read" /\ reply[session[t]] = "protocol"
          /\ nature[item[t]] = "protocol"
       \/ SpoiltBefore(cursor) /\ (pc[t] \in Working => SpoiltBefore(item[t]))
  /\ \A p \in torn : process[p] # "free" /\ \A t \in Threads : spare[t] # p

\* A worker that dies on the second attempt was spawned for its item alone, and so
\* were the deaths of the replacement before it was registered.
ItsOwnDeath(t) == nature[item[t]] = "crash" \/ item[t] \in disturbed
SecondDeathIsOwn(t) ==
  /\ pc[t] \in {"check", "session", "register"} => attempt[t] = 1
  /\ pc[t] = "died" => process[session[t]] = "dead"
  /\ pc[t] \in {"unslot", "reap"} /\ process[spare[t]] = "dead" => item[t] \in disturbed
  /\ pc[t] = "reslot" /\ process[session[t]] = "dead" => item[t] \in disturbed
  /\ attempt[t] = 2 /\ pc[t] \in {"send", "read", "died"}
       /\ process[session[t]] = "dead" => ItsOwnDeath(t) \/ expired
  /\ attempt[t] = 2 /\ pc[t] \in {"respawn", "unslot", "reap", "reslot"} => ItsOwnDeath(t)

SecondDeathsAreOwn == \A t \in Threads : SecondDeathIsOwn(t)

Containment ==
  /\ Contained
  /\ RepliesAreDeserved
  /\ TornByItsItems
  /\ SecondDeathsAreOwn
=============================================================================
