--------------------------- MODULE HostLifecycle ---------------------------
(***************************************************************************)
(* How a process that runs the Experience service comes up and goes down.  *)
(* The Host and the management CLI open the same canonical database and    *)
(* the same sidecar store (index.ts Experiences; database.ts open;         *)
(* projection-store.ts open).  A start bootstraps the database, settles    *)
(* the one local owner, opens the sidecar - bootstrapping it, bringing an  *)
(* older schema up to date in several transactions, or putting a store it  *)
(* cannot read aside -, installs the worker and drains the learning queue; *)
(* a failed start and a disposal close in one order.  A process can die    *)
(* between any two steps.                                                  *)
(*                                                                         *)
(* A file at the sidecar's path is a record of what an opening looks at    *)
(* and what must outlive it: the owner's decisions and the requests of     *)
(* finished tasks.  `app`: 0 none, 1 Experience, 2 another application.    *)
(***************************************************************************)
EXTENDS Naturals, Sequences, FiniteSets

CONSTANTS Processes, MaxStarts \* bound: starts of processes

VARIABLES
  db,          \* the canonical database: its schema and local_owner_principals
  files,       \* every sidecar file there has been; a rename keeps the file
  current,     \* the file at the sidecar's path, 0: none
  proc,        \* per process: where it is and what it holds
  starts,
  overlapped   \* (history) two processes were opening the sidecar at once

life == <<db, files, current, proc, starts, overlapped>>

Recognised == 4..7 \* user_version a start accepts; 7 is current

EmptyFile == [app |-> 0, version |-> 0, progress |-> FALSE, ends |-> FALSE, legacy |-> FALSE,
              generation |-> 0, condition |-> "sound", decisions |-> {}, pending |-> {}]

\* What an earlier build left: the progress tables came with version 6, the
\* ends of the requests with 7; version 4 holds a first retrieval generation.
StoreOf(v) == [EmptyFile EXCEPT
  !.app = 1, !.version = v, !.progress = v >= 6, !.ends = v >= 7, !.legacy = v = 4,
  !.decisions = {"kept"},
  !.pending = CASE v = 6 -> {"observed", "history"} [] v >= 7 -> {"observed"} [] OTHER -> {}]

EarlierStores ==
  {StoreOf(v) : v \in {4, 6, 7, 8}}
  \cup {[StoreOf(7) EXCEPT !.condition = "garbled"], [StoreOf(4) EXCEPT !.condition = "damaged"]}

Down == [at |-> "down", handle |-> 0, saw |-> 0, recovered |-> FALSE, principal |-> 0, job |-> FALSE]

LifeInit ==
  /\ \/ db = [ready |-> FALSE, owners |-> {}] /\ files = <<>> /\ current = 0
     \/ \E f \in EarlierStores :
          db = [ready |-> TRUE, owners |-> {1}] /\ files = <<f>> /\ current = 1
  /\ proc = [h \in Processes |-> Down]
  /\ starts = 0
  /\ overlapped = FALSE

OpenSteps == {"ensure", "identity", "schema", "bootstrap", "dispositions", "progress", "requests",
              "legacy", "retire", "assert", "invalid"}
Opening(h) == proc[h].at \in OpenSteps
Working(h) == proc[h].at \in {"learning", "serving"}
Store(h) == files[proc[h].handle]

\* h goes on to a step, with what it has just read.
Goes(h, to, read) == proc' = [proc EXCEPT ![h].at = to, ![h].saw = read]
\* One transaction on the file h has open.
Writes(h, file) == files' = [files EXCEPT ![proc[h].handle] = file]

-----------------------------------------------------------------------------
\* The canonical database.  Its identity and its tables are two reads; a
\* failure closes the handle, and the service does not start.

Start(h) ==
  /\ proc[h].at = "down" /\ starts < MaxStarts
  /\ starts' = starts + 1
  /\ Goes(h, "dbIdentity", 0)
  /\ UNCHANGED <<db, files, current, overlapped>>

\* A database that has the schema keeps it, and is only validated.
SeeDatabase(h) ==
  /\ proc[h].at = "dbIdentity"
  /\ Goes(h, IF db.ready THEN "principal" ELSE "dbTables", 0)
  /\ UNCHANGED <<db, files, current, starts, overlapped>>

\* Tables without the identity that was read: another process bootstrapped.
SeeTables(h) ==
  /\ proc[h].at = "dbTables"
  /\ Goes(h, IF db.ready THEN "down" ELSE "dbBootstrap", 0)
  /\ UNCHANGED <<db, files, current, starts, overlapped>>

\* bootstrap does not look again: CREATE TABLE fails if another process won.
BootstrapDatabase(h) ==
  /\ proc[h].at = "dbBootstrap"
  /\ Goes(h, IF db.ready THEN "down" ELSE "principal", 0)
  /\ db' = [db EXCEPT !.ready = TRUE]
  /\ UNCHANGED <<files, current, starts, overlapped>>

\* The owner a start finds, or makes in the same transaction.
Owner(owners) == IF owners = {} THEN {1} ELSE owners

InitializePrincipal(h) ==
  /\ proc[h].at = "principal"
  /\ db' = [db EXCEPT !.owners = @ \cup Owner(@)]
  /\ proc' = [proc EXCEPT ![h].at = "ensure", ![h].principal = CHOOSE p \in Owner(db.owners) : TRUE]
  /\ overlapped' = (overlapped \/ \E k \in Processes \ {h} : Opening(k))
  /\ UNCHANGED <<files, current, starts>>

-----------------------------------------------------------------------------
\* The sidecar store.

\* The file is created if the path has none.
Creates ==
  IF current = 0
    THEN files' = Append(files, EmptyFile) /\ current' = Len(files) + 1
    ELSE UNCHANGED <<files, current>>

EnsureFile(h) ==
  /\ proc[h].at = "ensure"
  /\ Creates
  /\ Goes(h, "identity", 0)
  /\ UNCHANGED <<db, starts, overlapped>>

\* The handle stays with the file it opened, whatever becomes of the path.
SeeIdentity(h) ==
  /\ proc[h].at = "identity"
  /\ Creates
  /\ LET f == files'[current']
     IN proc' = [proc EXCEPT ![h].handle = current',
                             ![h].saw = f.app,
                             ![h].at = IF f.condition = "garbled" THEN "invalid" ELSE "schema"]
  /\ UNCHANGED <<db, starts, overlapped>>

\* user_version and the tables are read after the identity, and decide what
\* the opening does in its transactions.
OpenPath(app, version) ==
  IF app = 0 /\ version = 0 THEN "bootstrap"
  ELSE IF app # 1 \/ version \notin Recognised THEN "invalid"
  ELSE CASE version = 4 -> "dispositions" [] version = 5 -> "progress"
         [] version = 6 -> "requests" [] version = 7 -> "legacy"

SeeSchema(h) ==
  /\ proc[h].at = "schema"
  /\ Goes(h, OpenPath(proc[h].saw, Store(h).version), 0)
  /\ UNCHANGED <<db, files, current, starts, overlapped>>

\* bootstrap looks again inside its transaction.
Bootstrap(h) ==
  /\ proc[h].at = "bootstrap"
  /\ IF Store(h).app = 1 /\ Store(h).version = 7 THEN Goes(h, "assert", 0) /\ UNCHANGED files
     ELSE IF Store(h).app # 0 THEN Goes(h, "invalid", 0) /\ UNCHANGED files
     ELSE /\ Writes(h, [EmptyFile EXCEPT !.app = 1, !.version = 7, !.progress = TRUE, !.ends = TRUE])
          /\ Goes(h, "assert", 0)
  /\ UNCHANGED <<db, current, starts, overlapped>>

\* (mutant) The first transaction claims the whole upgrade.
AllAtOnce(f) == [f EXCEPT !.version = 7]
\* Version 4: the dispositions are copied to a table without the old
\* constraint; the transaction sets the version to 5, whatever it was.
NewDispositions(f) == [f EXCEPT !.version = 5]

UpgradeDispositions(h) ==
  /\ proc[h].at = "dispositions"
  /\ Writes(h, NewDispositions(Store(h)))
  /\ Goes(h, "progress", 0)
  /\ UNCHANGED <<db, current, starts, overlapped>>

\* Versions 4 and 5: the progress tables; published results queue nothing.
UpgradeProgress(h) ==
  /\ proc[h].at = "progress"
  /\ IF Store(h).progress
       THEN Goes(h, "refused", 0) /\ UNCHANGED files \* table already exists
       ELSE /\ Writes(h, [Store(h) EXCEPT !.version = 7, !.progress = TRUE, !.ends = TRUE])
            /\ Goes(h, "legacy", 0)
  /\ UNCHANGED <<db, current, starts, overlapped>>

\* What stays to be done: requests of observed tasks, not historical scans.
Observed(pending) == pending \ {"history"}

\* Version 6: the ends of the requests get a column.
UpgradeRequests(h) ==
  /\ proc[h].at = "requests"
  /\ IF Store(h).ends
       THEN Goes(h, "refused", 0) /\ UNCHANGED files \* duplicate column
       ELSE /\ Writes(h, [Store(h) EXCEPT !.version = 7, !.ends = TRUE, !.pending = Observed(@)])
            /\ Goes(h, "legacy", 0)
  /\ UNCHANGED <<db, current, starts, overlapped>>

\* A first-format retrieval generation is read and validated ...
SeeLegacy(h) ==
  /\ proc[h].at = "legacy"
  /\ IF Store(h).legacy THEN Goes(h, "retire", Store(h).generation + 1) ELSE Goes(h, "assert", 0)
  /\ UNCHANGED <<db, files, current, starts, overlapped>>

\* ... and replaced by an empty one, in a transaction of its own.
RetireLegacy(h) ==
  /\ proc[h].at = "retire"
  /\ IF Store(h).generation >= proc[h].saw
       THEN Goes(h, "refused", 0) /\ UNCHANGED files \* the generation exists
       ELSE /\ Writes(h, [Store(h) EXCEPT !.legacy = FALSE, !.generation = proc[h].saw])
            /\ Goes(h, "assert", 0)
  /\ UNCHANGED <<db, current, starts, overlapped>>

\* The tables, their integrity and every payload.
AssertStore(h) ==
  /\ proc[h].at = "assert"
  /\ Goes(h, IF Store(h).condition = "sound" /\ Store(h).progress THEN "worker" ELSE "invalid", 0)
  /\ UNCHANGED <<db, files, current, starts, overlapped>>

\* A store that cannot be read is put aside once: whatever is at the path by
\* now is renamed, and the opening begins again with a new file.
Quarantine(h) ==
  /\ proc[h].at = "invalid"
  /\ IF proc[h].recovered
       THEN Goes(h, "refused", 0) /\ UNCHANGED current
       ELSE /\ proc' = [proc EXCEPT ![h].at = "ensure", ![h].handle = 0, ![h].saw = 0,
                                    ![h].recovered = TRUE]
            /\ current' = 0
  /\ UNCHANGED <<db, files, starts, overlapped>>

-----------------------------------------------------------------------------
\* The service.

\* The worker's constructor gives up obsolete historical requests.
InstallWorker(h) ==
  /\ proc[h].at = "worker"
  /\ Writes(h, [Store(h) EXCEPT !.pending = Observed(@)])
  /\ Goes(h, "learning", 0)
  /\ UNCHANGED <<db, current, starts, overlapped>>

\* The learning queue is drained before the service is published.
Publish(h) ==
  /\ proc[h].at = "learning"
  /\ Goes(h, "serving", 0)
  /\ UNCHANGED <<db, files, current, starts, overlapped>>

Dismiss(h) ==
  /\ proc[h].at = "serving"
  /\ "new" \notin Store(h).decisions
  /\ Writes(h, [Store(h) EXCEPT !.decisions = @ \cup {"new"}])
  /\ UNCHANGED <<db, current, proc, starts, overlapped>>

\* A job of the worker reads, and publishes unless the worker was stopped.
RunJob(h) ==
  /\ Working(h) /\ ~proc[h].job /\ Store(h).pending # {}
  /\ proc' = [proc EXCEPT ![h].job = TRUE]
  /\ UNCHANGED <<db, files, current, starts, overlapped>>

JobEnds(h) ==
  /\ proc[h].job
  /\ proc' = [proc EXCEPT ![h].job = FALSE]
  /\ IF Working(h) THEN Writes(h, [Store(h) EXCEPT !.pending = {}]) ELSE UNCHANGED files
  /\ UNCHANGED <<db, current, starts, overlapped>>

\* A step fails, or the owner of the service disposes it.
Stops(h) ==
  /\ proc[h].at \in {"principal", "ensure", "worker", "learning", "serving"}
  /\ Goes(h, "closing", 0)
  /\ UNCHANGED <<db, files, current, starts, overlapped>>

\* Both ways down take one order: worker, store, database.
ClosesNext(at) ==
  CASE at \in {"refused", "closing"} -> "stop" [] at = "stop" -> "closeStore"
    [] at = "closeStore" -> "closeDatabase" [] OTHER -> "down"

\* Stopping the worker awaits its job.
CloseNextPart(h) ==
  /\ proc[h].at \in {"refused", "closing", "stop", "closeStore", "closeDatabase"}
  /\ proc[h].at = "stop" => ~proc[h].job
  /\ LET next == ClosesNext(proc[h].at)
         handle == IF proc[h].at = "closeStore" THEN 0 ELSE proc[h].handle
     IN proc' = [proc EXCEPT ![h] = IF next = "down" THEN Down
                                    ELSE [proc[h] EXCEPT !.at = next, !.handle = handle]]
  /\ UNCHANGED <<db, files, current, starts, overlapped>>

\* The process dies; an open transaction is rolled back with it.
ProcessDies(h) ==
  /\ proc[h].at # "down"
  /\ proc' = [proc EXCEPT ![h] = Down]
  /\ UNCHANGED <<db, files, current, starts, overlapped>>

LifeNext == \E h \in Processes :
  \/ Start(h) \/ SeeDatabase(h) \/ SeeTables(h) \/ BootstrapDatabase(h) \/ InitializePrincipal(h)
  \/ EnsureFile(h) \/ SeeIdentity(h) \/ SeeSchema(h) \/ Bootstrap(h)
  \/ UpgradeDispositions(h) \/ UpgradeProgress(h) \/ UpgradeRequests(h)
  \/ SeeLegacy(h) \/ RetireLegacy(h) \/ AssertStore(h) \/ Quarantine(h)
  \/ InstallWorker(h) \/ Publish(h) \/ Dismiss(h) \/ RunJob(h) \/ JobEnds(h)
  \/ Stops(h) \/ CloseNextPart(h) \/ ProcessDies(h)

LifeSpec == LifeInit /\ [][LifeNext]_life

-----------------------------------------------------------------------------
\* A file a start could go on with, and one no start can.
Readable(f) == f.condition = "sound" /\ f.app = 1 /\ f.version \in Recognised
Stuck(f) == f.version \in {4, 5} /\ f.progress

\* However earlier starts were interrupted, an opening that no other opening
\* overlaps does not fail, puts no readable store aside and leaves none that
\* later starts cannot open; what it serves is the store at the path, brought
\* up to date.
OpensAlone == overlapped \/
  /\ \A h \in Processes :
       /\ proc[h].at # "refused"
       /\ proc[h].at \in {"worker", "learning", "serving"} =>
            Readable(Store(h)) /\ Store(h).version = 7 /\ ~Store(h).legacy
  /\ \A i \in DOMAIN files : Readable(files[i]) => i = current /\ ~Stuck(files[i])

\* However starts race, there is one local owner and every process acts for it.
OneOwner ==
  /\ Cardinality(db.owners) <= 1
  /\ \A h \in Processes : proc[h].principal # 0 => proc[h].principal \in db.owners

\* The worker never runs on a store that is closed.
WorkerHasStore == \A h \in Processes : proc[h].job => proc[h].handle # 0

\* However starts race or were interrupted there is one local owner, a worker
\* never runs on a closed store, and an opening that no other one overlaps
\* comes up with the store at the path, brought up to date, and puts no
\* readable one aside.
StartsSound == OneOwner /\ WorkerHasStore /\ OpensAlone

\* Every decision of the owner stays in its file, and a request of a finished
\* task goes only with the job that did it - through upgrades, races, deaths.
RowsKept == [][\A i \in DOMAIN files :
  /\ files[i].decisions \subseteq files'[i].decisions
  /\ "observed" \in files[i].pending \ files'[i].pending =>
       \E h \in Processes : proc[h].handle = i /\ proc[h].job /\ ~proc'[h].job /\ Working(h)]_life
=============================================================================
