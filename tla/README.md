# A formal model of LayerScope

LayerScope is a self-hosted service that scans container-image archives with
Trivy: a FastAPI backend (`backend/app`), a SQLite database, Trivy child
processes, a React frontend and a command-line client. This directory holds
TLA+ modules that model everything in the backend that keeps state, TLC
configurations that model-check them on small instances, and TLAPS proofs of
their main invariants.

`PROJECT.json` lists, for every definition that models code, the lines it
models; every run, the properties it checks and what it shows; the hazards the
properties are aimed at; and the theorems.

## 1. Inventory

### How the backend runs

- One process, one asyncio event loop. `async def` handlers, the scan workers
  and the maintenance worker are coroutines: what one does between two
  suspensions is not interrupted by another. SQLAlchemy sessions are
  synchronous, so a whole `with SessionLocal()` block is part of such a stretch.
- Handlers declared with plain `def` run in threads of the server's pool,
  really in parallel with the loop and with each other. Only SQLite's write
  lock orders them; a `SELECT` before the first write holds nothing.
- Trivy runs as a child process; the shared vulnerability database on disk is
  protected by the read/write lock of `locks.py`.
- What survives a restart: the SQLite file, raw results (`/data/raw`), uploaded
  archives (`/data/uploads`). Queues, sets of ids, locks and process handles do
  not. Compose restarts the container.

### Components

| Component | State | Operations | Hard part | Correct when |
|---|---|---|---|---|
| Database access lock (`locks.py`) | `readers`, `writer`, `waiting_writers`, a condition | acquire/release read/write | wake-ups and cancellation | a writer is alone, counters are exact, nobody sleeps for ever |
| Scan dispatcher (`scanner.py`) | `queue`, `queued_ids`, `active_ids`, `processes`; table `scans`; raw files | start, stop, recover, enqueue, cancel, worker, run_scan, fail_job | awaits between transactions; crash; timeout; id reuse | every admitted scan is dispatched once and settles once, with its own results |
| Admission and removal (`main.py`) | `admission_lock`; tables `images`, `scans` | request, retry, cancel, remove scan/image, restore image | event loop against threads, several commits and files | one active scan per image, capacity, no active scan removed |
| Component maintenance (`components.py`) | job table, queue, one worker, process | start, stop, request, cancel, check, download | lock hand-over, cancellation while waiting | one active job per component, jobs settle, cancelled ones do nothing |
| Uploads (`uploads.py`, `main.py`) | partial files, `images`, `upload_jobs` | stream, validate, insert, clean up | same name twice, crash, discovery in parallel | a batch appears as a whole or not at all |
| Discovery (`main.py`) | `images`, cached time | discover | parallel with uploads and removals | one row per file |
| Backup and restore (`backups.py`) | stages, tokens, a pending marker, data directories | export, download once, import, restore, swap at start | crash in the swap, work admitted before the restart | old data or new data, never a mixture |
| Accounts (`auth.py`, `users.py`) | users, sessions, recovery codes, activation tokens | setup, activate, login, 2FA, revoke, demote, remove | two requests spending one code; last administrator | a code is spent once, an administrator remains |
| API tokens, administrator recovery | tokens; offline reset | create, revoke, reset | revocation beside use | a revoked credential is not accepted |
| Groups (`groups.py`) | membership rows | create, replace, add, delete | image removal in parallel | members are visible images |
| Reports (`reports.py`) | imported scans | export, import | the same report twice | import is idempotent and atomic |
| QoS and events (`qos.py`, `scanner.py`, `main.py`) | request windows, subscriber queues | admit request, publish, subscribe | full queues, window edges | limits hold |
| Schema, configuration (`database.py`, `models.py`, `config.py`) | tables | create, upgrade | id reuse, foreign keys | (used by the models above) |
| Queries, overview, diagnostics | none | reads | - | - |
| Sanitising, API pages | none | pure text | - | - |
| CLI (`cli/`) | none | upload, scan, wait, compare, gate | waiting for a job that vanishes | exit codes |
| Frontend, deployment | view state; configuration | - | - | - |

### How they interact

`main.py` admits scans into the table and hands their ids to
`ScanManager.enqueue`; workers take ids from the queue, share
`database_access` as readers, run Trivy, and write results to the table.
`ComponentManager.download` and the backup export take the same lock as
writers. Removal handlers delete rows and files from threads without asking the
dispatcher. `ScanManager.publish` feeds the event stream of every manager. At
shutdown `component_manager.stop()` comes first, then `manager.stop()`; at start
a pending restore is applied, then scans, then maintenance jobs are recovered.

## 2. Modules

| Module | Kind | Models |
|---|---|---|
| `DatabaseGate` | abstract | what the lock promises: who has the database, and when one may enter |
| `ReadWriteLock` | detailed | `locks.py` with the `asyncio.Condition` it stands on |
| `ScanLedger` | abstract | what the `scans` table promises: the life cycle of a scan |
| `ScanManager` | detailed | `scanner.py` and the handlers of `main.py` that admit, cancel, retry and remove |
| `ComponentManager` | detailed | `components.py`; uses `DatabaseGate` for the lock it shares with the scans |
| `ImageLibrary` | detailed | `uploads.py`, and upload, discovery, removal and restoration of `main.py` |
| `BackupRestore` | detailed | `backups.py`, and what the other handlers do to the data it copies |
| `Accounts` | detailed | `auth.py`, `users.py`, `api_tokens.py`, `admin_recovery.py` |
| `Reports` | detailed | `groups.py`, the export and import of `reports.py` and their handlers |
| `MC_*` | instances | the constants and symmetries of the runs, one module per detailed module |
| `ReadWriteLock_proofs`, `ScanManager_proofs`, `ComponentManager_proofs`, `ImageLibrary_proofs`, `BackupRestore_proofs`, `Accounts_proofs`, `Reports_proofs` | proofs | section 4 |
| `ScanDispatch_proofs` | proofs | the queue, the results and the ledger of `ScanManager`; extends `ScanManager_proofs` |

In all modules an action is what the code does between two points at which
another actor may act: on the event loop from one real suspension to the next
(or to the next commit, where a thread may see it), in a thread from one
statement on the database or the file system to the next. Definitions marked
"mutant" are not part of a specification; they are plausible bugs that show what
each property is able to catch.

### ReadWriteLock

The condition's own mutex is never contended: nothing suspends between taking
it and leaving it or sleeping. So each method is one action up to `wait_for`,
and one more (`WakeReader`, `WakeWriter`) when a notified task runs again; it may
find its predicate false and sleep anew at the end of the FIFO. `CancelWait` is
the `CancelledError` that `stop()` sends into a waiting task, with the
notification CPython passes on to the next sleeper. The condition (`Sleep`,
`Resume`, `NotifyAll`, ...) is the library's, modelled from its use.

### ScanManager

| Model | Code |
|---|---|
| `scans[i]` | the row with id `i`; status, image, order of `queued_at`, whose findings are stored |
| `library`, `archives` | the `images` rows (visible, hidden, deleted) and the TAR files |
| `raw[i]` | `scan-<i>.json`: whose report it holds |
| `queue`, `queued_ids`, `active_ids`, `processes` | the fields of `ScanManager` |
| `workers[w]` | where `run_scan` of a worker is suspended, its locals, and its Trivy process |
| `loop` | the coroutine that keeps the event loop across several commits |
| `admit` | the images whose scans admission has decided to insert |
| `removal[a]` | the ids, files and images a removal thread has read |
| `writer`, `readers` | `database_access`, as `DatabaseGate` promises it |

Actions: `RequestScans`, `RetryScan` and `InsertScans` (admission: its reads, and
its insertion with `enqueue`), `CancelScan`; `Dequeue`, `AcquireRead`,
`SpawnTrivy`, `SpawnFails`, `TrivyTimesOut`, `ReapTimedOut`, `CollectResult`,
`SaveResult`, `CompleteScan` (a worker); `TrivyExits` (the operating system);
`AskExclusive`, `TakeExclusive`, `ReleaseExclusive` (maintenance, external to this
module); `RemoveScans`, `RemoveImages`, `UnlinkFiles`, `RemovalFails`
(any of its files may be gone by then),
`CommitRemoval`, `RestoreImage`; `Start`, `Stop`, `StopWorker`, `Exit`, `Crash`.

Granularity. A coroutine's stretch between two awaits that may really suspend
is one action. `publish_job`, `update_job` and `queue.put` on an unbounded queue
are coroutines that never suspend, so they do not split a stretch; but where
such a stretch commits several times (admission, saving then completing) a
thread may act in between, and the stretch is several actions during which
`loop` is kept. A removal is three steps: read and check, unlink, delete and
commit. In a removal of several records the code unlinks and deletes record by
record; the model unlinks all of them first, so it allows a little more between
the first unlink and the commit than SQLite's write lock does.

Row ids are reused: `models.py` declares plain integer primary keys, and SQLite
without `AUTOINCREMENT` numbers a new row one past the largest id in use
(`IsLastId`).

Abstracted: progress, stages, messages and the event stream; the contents of
reports (a report is the image it is about); imported, report-only images; the
coverage warning; storage headroom; database errors inside the dispatcher.
Requests that change nothing (all images already active, a retry that finds an
active scan) are left out, as is the authentication of whoever asks.

### ComponentManager

| Model | Code |
|---|---|
| `jobs` | the `maintenance_jobs` rows in id order: component, action, status, progress |
| `queue`, `queued_ids` | the fields of `ComponentManager` |
| `worker` | where the one worker coroutine is suspended (`idle`, `lock`, `spawn`, `wait`, `registry`), or that it is `dead` or `down`; the job it holds |
| `process` | the Trivy download registered for that job |
| `mode` | the database lock, through `INSTANCE DatabaseGate` with this worker as its one writer |

`Request` and `Cancel` are the handlers. The worker's `Dequeue` continues at once
to what comes first: `Skip` (the job was cancelled), `RunCheck`, `RunDownload` or
`RunRaises`. A download goes on with `EnterLock`, `Spawned`, `Consume` (a line
of one of the pipes, in any order), and ends in `DownloadSucceeds`,
`DownloadFails` (exit code or timeout), `SpawnFails`; a check ends in
`RegistryAnswers`. `RunRaises` and `FailRaises` are commits that fail ("database
is locked") where no `except` catches them: the only worker is then `dead` until
the restart, its lock given back by the `finally` clauses. `Stop` is shutdown or
crash, `Start` recovers. `ScanSteps` is what a scan worker does to the lock, as
`ScanManager` has it. Left out: the metadata files, versions, the event stream.

### ImageLibrary

| Model | Code |
|---|---|
| `disk` | files below the upload directory and the mounted roots: path to content (whose upload) |
| `rows` | committed `images` rows: id, path, hidden, and which upload inserted them |
| `upload[u]`, `job[u]` | an upload request (names sent, destinations reserved, archives renamed, flushed rows) and its `upload_jobs` row |
| `discovery` | the thread inside `_discovery_lock`: rows read, files found |
| `removal[t]` | a removal thread and its row |
| `holder` | the upload that holds SQLite's write lock over an await |
| `torn` | rows whose removal failed or died between the unlink and the commit (history) |

An upload is `BeginUpload`, per archive `OnHeadersFinished` (the name is chosen)
and `Finish` (the temporary is renamed), `StreamEnds`, `InsertRow` per archive
but the last (the flush takes the write lock, the next validation is awaited),
`InsertLastRow` (the last flush and the commit of all rows) and `CompleteJob`
(the commit of the job, a step of its own because threads may act, and the
process may die, between the two). `FailUpload` may come at any point before the
rows are committed, `CompletionFails` after it: the same except clause unlinks
every destination *reserved*, written or not, and marks the job, unless that
write fails as well. Discovery reads rows, walks the directories and commits or
fails, and others act in between. A removal is `RemovalReads`, `RemovalUnlinks`
and `RemovalCommits`, or `RemovalFails` at any point. `Crash` loses the requests,
and their temporaries are not archives; the cancellation of requests at a
shutdown leaves what a crash leaves. Sizes, limits and the multipart grammar are
one outcome, failure. Left out: an unlink of the clean-up that itself raises, and
the sizes and times that discovery writes into rows it knows. An image removed
here has no scans; `ScanManager` has that side.

### BackupRestore

| Model | Code |
|---|---|
| `live` | the four parts on disk in the order in which they are swapped: database file, `auth.key`, raw results, uploads |
| `view` | the database as connections see it, with its write-ahead log |
| `export`, `tickets`, `held` | the export under the lock, its finished file, what was downloaded |
| `stages`, `pending` | the `restore-<token>` directories and those with a `READY` marker, newest first |
| `up`, `swap` | running, leaving (the 1.5 s before `os._exit`), down, swapping; how far the swap is |
| `troubles` | how swaps ended that did not finish: raised, killed, or late (raised, and the new database's log stayed) |
| `world`, `export.gone` | history: whose data should be served, which files went while a backup was made |

`ExportBegins`, `ExportCopies` (one part each), `ExportEnds`, `ExportFails`,
`Download`, `TicketRemoved`; `ImportBegins`, `ImportValidated`, `ImportFails`,
`CancelChecks`, `CancelLists` and `CancelLeaves` or `CancelRemoves`;
`RestoreChecks`, `RestoreConfirms`, `Exit`, `Crash`, `Start`; `SwapBegins`,
`MoveAway` and `Install` per part, `SessionsDeleted`, `SwapEnds`, `SwapRaises`
(undo), `SwapKilled`. The removal of a cancelled stage is two steps, because
`rmtree` lists the directory and then unlinks what it has listed: a `READY` that
the restore of the same stage writes in between is not among it, and a directory
with the marker and nothing else is left (`hollow`). Every other `rmtree` is one
step. `SessionsDeleted` commits to the write-ahead log of the database that was
installed; when the swap is undone after that (`SwapRaises`), the log may be gone
with its connection, or stay and be replayed into the old database. What the rest of the program does to the same
data is there in short: `UploadFile`, `UploadRow`, `ScanCompletes`, `RemoveFile`,
`RemoveRow`, `WorkBegins`, `WorkEnds`, `SignIn`, and SQLite's `Checkpoint`.

What the model lets happen because the code does: two `READY` stages, of which
the older is installed at a later start; two concurrent downloads of one ticket,
both served; work admitted between the check of a restore and the exit, cut off
by it; and a start that fails for ever, when the newest `READY` is in a directory
that is not a stage.

### Accounts

`users`, `sessions` and `tokens` are rows. `request[a]` is what the actor `a` (a
thread, or the event loop) has read and is about to write. Synchronous handlers
are two actions, reads (`UpdateReads`, `RemoveReads`, `VerifyReads`,
`TokenReads`, ...) and one transaction (`AdminWrites`, `VerifyWrites`,
`TokenWrites`), and where `ensure_not_last_admin` counts the administrators its
query is an action between them (`AdminCounts`); login, activation and re-enrolment run on the loop
(`LoopWrites`). An UPDATE names only the columns the handler changed
(`Changes`), which is what decides between two overlapping requests. `Setup` and
`RecoverAdmin` read inside their transaction and are one action. Ids are reused
as in `ScanManager`: `late`, `overtaken` and `inherited` remember which requests
were made for an account whose id has been given to another since, which ids
were given out in such a moment, and what an account holds of an earlier one
(history). Passwords, codes and clocks are right or wrong, there or
not; sessions and tokens may end at any time.

### Reports

`images`, `scans`, `groups` and `members` are rows; `export[t]` is what an
exporting thread has read, one SELECT per action (`SelectGroups`,
`CountMembers`, `SelectLatest`, `ListUnscanned`, `SelectScans`, `ReadScans`,
`ReadFindings`); `files` are the JSON exports, and `import[q]` an import between
its reads and its commit (`ImportReads`, `ImportCommits`, `ImportFails`), on the
event loop. A row's content is a number; `found` is the one read in `findings`,
`marker` the fingerprint of an imported report, `calm` whether nothing was
removed and no membership changed during the export (history). Changes by other
handlers (`AdmitScan`, `CompleteScan`, `RemoveScan`, `RemoveImage`, ...) are
whole here. Of the checks of an import the model has those of status and
selection (`SelectionAccepted`); it does not have sizes (section 7). Two pairs of
SELECTs are one step each: the scans with their images (`ReadScans`), and the
findings with the packages of a scan (`ReadFindings`).

## 3. What is checked

Every property below has a mutant: a plausible bug in the code it is about
(listed in `PROJECT.json`) under which TLC finds it violated in the same run.

| Run | Instance | Shows |
|---|---|---|
| `lock_cancel` | 3 readers, 2 writers, everyone cancellable | `ExclusiveWriter`, `CountersExact`, `SleeperHasWaker`, `ImplementsWriterService` |
| `lock_gate` | the same, readers cancellable | `ImplementsGate`: the whole promise, service of readers included |
| `scans_core` | 2 workers, 3 images, capacity 2, 3 scans, 1 crash or shutdown, 1 maintenance | `TypeOK`, `WithinCapacity`, `NoStrandedScan`, `DispatchExact`, `ResultsMatchImage`, `MaintenanceAlone`, `FifoQueue`, `ImplementsLedger` |
| `scans_liveness` | the same with 2 images and 2 scans | `EveryScanSettles` |
| `scans_removal` | 1 worker, 1 removal thread, 2 images (one uploaded), 3 scans | `OneActivePerImage`, `ActiveNotRemoved`, `SettledIsFinal` |
| `components` | 2 components, 3 jobs, 1 scan worker, 1 stop or crash, 1 failed commit | `TypeOK`, `OneActiveJob`, `NothingForgotten`, `DownloadAlone`, `TerminalIsFinal`, `ProgressNeverFalls`, `JobsSettle` |
| `library` | 2 uploads of up to 2 archives of one name, 1 mounted archive, 1 removal thread, 3 row ids, 1 crash | `TypeOK`, `FailedLeavesNoFile`, `LoneUploadKeepsFiles`, `HiddenStaysHidden` |
| `backup` | 1 scan, 1 image, 2 stages, 2 changes, 1 export, 1 restore, 1 swap that is killed or raises | `TypeOK`, `ServedWhole`, `BackupComplete`, `ServerReturns` |
| `accounts` | 2 users, 2 threads and the loop, 1 session and 1 token per user, 5 requests | `TypeOK`, `TokensNearCap`, `NothingInherited`, `OnlyStaleCountsTakeLastAdmin` |
| `reports` | 1 mounted archive, 2 groups, 1 exporter, 2 importers, 1 member, 2 contents, 2 exports, 2 changes | `TypeOK`, `CalmExportsAddUp`, `ImportedOnce` |
| `finding_overwritten`, `finding_lost_rollback` | a small instance that shows it | one disagreement each, section 6 |

### Bounds

`MaxScans`, `MaxCrashes` and `MaxMaintenance` bound how many scans are
created, how often the process dies and how often maintenance is asked for.
Three scans over three images are enough for a scan to be queued behind a running
one while a third is retried, for capacity 2 to be refused to a batch and to a
retry, and for a queue of two scans to be rebuilt; with a removal thread, for an
id to be given out again. Two workers are enough for one to wait for the lock
while another holds it. One crash or shutdown may come between any two commits;
recovery reads nothing but the table, so a second one starts from a table of the
same kind.

Components: three jobs over two components let one run, one wait behind it and a
third be refused or follow a finished one; after a stop the running and the
queued one are both recovered. The bounds on faults let each come at any point.
Library: two uploads of two archives are enough for two reservations of one name,
for a clean-up that meets a foreign file, for the write lock kept over an await,
and for a completion that fails beside another upload of the name. With two removal threads `HiddenStaysHidden` fails, for the reason that
`ActiveNotRemoved` does (section 6): the second removal hits a row that has been
given the same id; and `LoneUploadKeepsFiles` fails, because the second unlinks
an archive that was uploaded under the same name in between.
Backup: two stages and one restore reach the second `READY` marker; two changes
are a row and its file, or a commit still in the log. `MaxTroubles = 1` is a
hypothesis and not only a bound: a swap that is killed and then raises in its
second attempt does leave a mixture, which the code has no answer to; `RestoreIsWhole`
is stated under it. An undo that itself raises is left out.
Accounts: two users and three actors let two requests about the last two
administrators overlap while a third removes, recreates or signs in. Five
requests reach a request that outlives its account and the account that gets the
id next; for the token to open that account it must be activated and enrolled
too, which takes more: section 6 gives the instance that shows it.
Reports: one archive in one of two groups, which is removed, hidden or gets its
key from an imported report while the export is between any two SELECTs; two
importers carry the same file. Two exports, one after the other, so that what
was imported from the first is exported again: a file that shows a scan without
its findings can be imported, and the copy be exported by an undisturbed export.

Symmetry is used for workers and images (`scans_core`, where all images are
mounted), uploads (`library`), threads (`accounts`) and importers and groups
(`reports`); no property of those runs names one of them, and no run that checks
liveness uses it.

Deadlock checking is off in all runs but the lock's: with no request the system
is at rest, and with its counters used up it must be.

`scans_core` and `scans_liveness` have no removal thread, and this matters. With
removals the id of a removed scan is given out again while the queue or a worker
still has it, and TLC finds `NoStrandedScan`, `DispatchExact`, `FifoQueue`,
`ResultsMatchImage` and `ImplementsLedger` violated on instances with one removal
thread. `scans_removal` has one removal thread and one worker, and this matters,
too: with two threads `ActiveNotRemoved` fails, and with two workers
`SettledIsFinal`. See section 6.

### Fairness

- The lock's `Spec`: a notified task runs and a holder releases (`finally`
  clauses, and the Trivy timeout).
- `ScanManager`'s `Spec`: weak fairness of each worker's next step, of the loop's
  insertion, of maintenance finishing, of removal threads, of `Start` and `Exit`
  (Compose restarts the backend), and a process that was sent SIGTERM ends
  (SIGKILL follows after a timeout). Nothing is assumed of requests, nor that
  Trivy ends by itself: `EveryScanSettles` rests on the timeout, as its mutant
  shows.
- `ComponentManager`'s `LiveSpec`: the worker's next step (the loop runs it, and
  the download's timeout bounds its wait), `Start`, and that a scan which has the
  database leaves it (that is what `EveryScanSettles` rests on, too).
  `JobsSettle` excepts a worker that an exception has ended.
- `BackupRestore`'s `Spec`: `Exit`, `Start` and the steps of a swap. Nothing
  makes an administrator restore. `ServerReturns` excepts a process killed in
  the middle of a swap, whose next attempt may find the stage incomplete and
  raise at every start; a database into which a foreign log was replayed; and a
  `READY` marker outside a whole stage (`AlwaysServesAgain`, section 6).

Faults are bounded, so they do not recur for ever.

Two limits of the lock met on the way, neither a defect of the program as it is
used: a writer that can enter may be overtaken by another writer (fairness
between writers is only weak); and when a waiting *writer* is cancelled while
three readers wait behind it, CPython notifies one of them, and the others may
sleep on although the database is free. Only shutdown cancels waiting tasks, so
nobody is left to notice; `lock_gate` therefore cancels readers only, and
`lock_cancel` shows what still holds when anyone is cancelled.

## 4. What is proved

Every safety property that a passing run checks is stated by a theorem here, and TLAPS
checks it for every value of the constants. The assumptions are those of the
modules, and TLC evaluates them in every run:
`TasksAssumption` (finitely many tasks, readers are not writers),
`ConstantsAssumption` (finitely many images, bounds are naturals, no worker is
one of the markers of the loop), `ComponentAssumption`, `LibraryAssumption`,
`BackupAssumption`, `AccountsAssumption` and `ReportsAssumption` (finite sets,
bounds are naturals, reserved values are distinct; archives of `Reports` are
among the contents). Some theorems have a hypothesis of their own. It is there
because the code breaks the property without it, and TLC has the trace:

| Hypothesis | Theorems | Without it |
|---|---|---|
| no record is removed (`Admins = {}`) | `NoScanIsStranded`, `DispatchIsExact`, `QueueIsFifo`, `DispatcherImplementsLedger`, `ResultsAreOfTheImage` | a removed id is given out again while the queue or a worker has it |
| at most one removal thread | `RemovalTakesNoActiveScan` | the second removal deletes a scan that was given the id |
| at most one worker, or no removals | `OutcomeIsFinalForOneWorker`, `OutcomeIsFinal` | two workers hold one id, and the second fails what the first completed |
| at most one removal thread (`OneRemoval`) | `LoneUploadsAreKept`, `HiddenImagesStay` | the second removal acts on a row that was read before the first |
| `MaxTroubles <= 1` | `RestoreIsWhole` | a swap that is killed and then raises leaves a mixture |

Two properties carry an exception in their formula for the same reason, and
section 6 shows the excepted case: the database of a swap undone with a log left
behind (`ServedWhole`, against `RolledBackWhole`), and what requests that outlive
their account leave (`NothingInherited`, against `OldTokensEnd`).

The first is stronger than necessary: what the argument needs is that no removed
id is still in the queue or with a worker.

Lock (`ReadWriteLock_proofs`). `LockIsExclusive`, `LockCountersExact`:
`ExclusiveWriter` is not inductive, because the code decides by counters and not
by who is in. The invariant adds that the counters are the cardinalities of the
sets of tasks they stand for; `MoveCounts` is the lemma about one task moving
between two places. `LockImplementsGate` maps initial states and steps to
`DatabaseGate`. `LockLosesNoWakeup`: `SleeperHasWaker` needs that the condition's
queue holds the sleepers once each (`QueueExact`), which writers have been called
(`WritersCalled`), and that whoever left the lock free called someone
(`SomeoneCalled`); a cancelled task that had been called passes the call on.

Scans with any number of removal threads (`ScanManager_proofs`).
- `DispatcherTypes`: that the result a worker parses has a type needs `Occupied`
  (a worker in `run_scan` has a scan).
- `NoDuplicateScan`, `CapacityRespected`: admission reads in one step and
  inserts in another, and threads commit in between. The invariant says that an
  image under admission has no active scan (`AdmissionFresh`) and that its place
  is reserved (`PlaceReserved`); the insertion takes ids of no existing row.
- `MaintenanceIsAlone`: a worker past the lock is a reader (`Occupied`), and
  `Exclusion` is the lock's promise.

With one removal thread, `RemovalTakesNoActiveScan`: the removal checks its scans
in one step and deletes them in another. `RemovalSettled` says that in between
they have ended; no other step makes an ended scan active (`RowsStay`), because
retrying makes a new row, and ids are only given out again by a deletion.

Scans while no record is removed (`ScanDispatch_proofs`, `Admins = {}`).
`NoScanIsStranded`, `DispatchIsExact`, `QueueIsFifo`, `OutcomeIsFinal`,
`DispatcherImplementsLedger`, `ResultsAreOfTheImage`, for any images, workers,
crashes, shutdowns and restarts.
The invariant `Kept` says who holds which scan (`JobsKept`), what the queue holds
and in which order (`QueueKept`), and what is in memory in each phase
(`MemoryKept`). The many steps of a worker have two shapes as far as it is
concerned: nothing changes (`Rests`), or a worker gives its scan back
(`Leaves`); `NextShapes` reduces `Next` to six cases, which all of the lemmas
then go through. `ResultsKept` adds what a worker carries (`Carries`) and what a
row and a raw file store (`Stores`).

With removals and one worker, `OutcomeIsFinalForOneWorker`: `complete_scan` and
`fail_job` look at the status only for a cancellation, so what keeps a settled
outcome is that the scan a worker holds has not got one (`HeldUnsettled`). The id
it holds may come to name another scan, but only this worker could settle that.

Components (`ComponentManager_proofs`). `OneJobPerComponent`,
`JobsAreNotForgotten`, `DownloadIsAlone`, `OutcomesAreFinal`. The invariant says
what the worker may hold at each suspension (`WorkerHolds`), that the queue names
jobs of the table once each (`QueueOfJobs`), and where the lock is held
(`LockHeld`). `ProgressIsMonotone` and `ComponentTypes` follow from the same
invariant: every write of a progress is to a row that runs, by the worker that
holds it, and `WorkerHolds` says which row that is.

Image library (`ImageLibrary_proofs`). `FailureLeavesNoFile`: that no file of a
failed upload is left, not even under a name that another upload or a discovery
also had, needs that its data is only under names it reserved (`DataReserved`)
and that its job says failed only when the request has ended (`JobFollows`).
Nothing like it holds of its rows (`FailedLeavesNoRow`, section 6).
`LibraryTypes` says more than types: no two rows share an id or a path
(`RowsDistinct`). The paths of flushed rows are not checked again at the commit;
`HeldRowsFree` says that the request holds the write lock meanwhile, so that no
row with one of them has been committed, and `OwnNames` that its own
destinations differ.
`LoneUploadsAreKept` and `HiddenImagesStay`: the row a removal has read is still
there and visible until it commits (`RemovalCurrent`, the conjunct that a second
removal breaks); then an uploaded archive that nobody else reserved is on disk as
long as its row is (`FlushedKept` before the commit; `RowsKept` after it, while
the upload still stands: before its job is settled, and when it is completed).

Backups (`BackupRestore_proofs`). `BackupsAreComplete`: the snapshot comes first,
and a file that a row of the snapshot names can then only go by being removed
(`ExportServes`, `ExportHolds`). `RestoreIsWhole`, under `MaxTroubles <= 1`: at
every point of a swap each part is where it was, installed, or moved away and
can be put back (`Intact`, `Done`, `CanUndo`), and a swap that was killed starts
again from one of these states (`StartsWithOne`, `SwapsToOne`). An undo gives
back files and key whatever raised; of the database only the file, when the
deletion of the sessions has been committed to the new log (`SignsOut`,
`Foreign`). `BackupTypes`
contains that a `READY` marker is in a directory that exists and is not being
unpacked: a confirmation
and a cancellation of one stage overlap, and so do two confirmations, so the
invariant says what each may still come for (`ConfirmsStaged`), what is marked
(`MarkersStaged`) and what a swap holds (`SwapsStaged`); `WorldsLeft` counts the
stages that can still become the served data. To be reasoned about, the markers
that remain after a removal are described (`StillReady`: the sequence of them in
the same order) and not computed by a recursive filter.

Accounts (`Accounts_proofs`). `TokensStayNearCap`, `NothingIsInherited`,
`LastAdminNeedsStaleCount`, for any users, threads and limits. For
`NothingIsInherited`, an id without an account has no session and no token
(`NothingLeft`), so a new account begins with none; what it may get of an earlier
one is brought by a request that is `late`, and `PastInvariant` keeps the ids of
those among the `overtaken` ones as long as they run. `AccountTypes` contains that session ids are distinct and within the bound, which needs to count
the requests that are about to create one (`SessionsFit`).

Reports (`Reports_proofs`). `ImportsAreDeduplicated`: at most one import is
between its reads and its commit (`OneReader`), and it has seen every marker that
is in the table (`SeesMarkers`). `TablesAreConsistent`: ids are unique and no
scan or membership is without its image or group, although an import writes with
ids it read earlier. `CalmExportsAreSnapshots`: for each of its SELECTs the
invariant says what an undisturbed export has by then (`CountKept`, `PicksKept`,
`ListKept`, `RowsKept`), and every other step is shown either to end the calm or
to leave these alone (`CalmStep`). The proof corrected the property. It used to
say that an undisturbed file has no report with other findings than its scan's;
the step that imports did not go through, and TLC then found the state with two
exports: an import accepts the torn file of a disturbed export, and the copy is
exported faithfully. `CalmExportsAddUp` now traces such a report to that file
(`TornBefore`, `TornScans`, `TornReports`), and the run has two exports.

Model-checked only, because ENABLED and fairness are out of the prover's reach:
`EveryScanSettles`, `JobsSettle`, `ServerReturns`, and the fairness parts of
`ImplementsGate` and `ImplementsWriterService` (`LockImplementsGate` is their
safety part).

## 5. What is not modelled

- Rate limiting and load shedding (`qos.py`): sequential arithmetic over clock
  readings on the event loop, with no interleaving to explore; unit tests cover
  both edges. The event queues only tell views to refresh, which also poll.
- The command-line client: it keeps no state, and sends the requests whose
  handlers are modelled; its wait loop polls a status until it is terminal.
- Read-only queries, overview and diagnostics; input sanitising and the API
  pages; the frontend. They change no state of the system.
- Deployment files, but for the restart policy that the fairness of `Start` uses.
- Inside modelled parts: the contents of reports beyond whose they are, rendering
  (HTML, PDF, Elastic, DefectDojo), encryption and archive formats, password
  hashing, one-time codes and lockout clocks, metadata of components, names and
  colours of groups, wording and progress of scans.
- Database errors inside the scan dispatcher: `fail_job` may itself raise and end
  its worker (`scanner.py:265`). The like is modelled for maintenance.

## 6. Where code and documents disagree

Two runs show a trace of their own.

- `finding_overwritten`: TECHNICAL_README.md:225 says existing uploads are never
  overwritten. Two requests that send one name before either has renamed its
  temporary both reserve the plain name (`uploads.py:111`), and the second rename
  replaces the first archive.
- `finding_lost_rollback`: README.md:256 says the previous data is rolled back
  when an installation fails. The swap unlinks the write-ahead log of the live
  database before it moves anything (`backups.py:385`); commits that were only
  in the log are lost, also when the swap then fails and is undone.

The others are stated as properties in the modules, and TLC finds each violated
when it is added to a configuration of the module (and its own properties are
left out). Those of `ScanManager` need
`MC_ScanManager` with `SafeSpec`, `Uploaded <- NoImages`, `MaxPending = 2`,
`MaxScans = 2`, `MaxCrashes = MaxMaintenance = 0` and:

| Property | Document | Images, workers, removal threads | What happens |
|---|---|---|---|
| `ActiveNotRemoved` | README.md:250 | `OneImage`, `OneWorker`, `TwoAdmins` | two concurrent removals of one scan delete its successor, which has been given the same id |
| `SettledIsFinal` | TECHNICAL_README.md:58 | `OneImage`, `TwoWorkers`, `OneAdmin`, and `MaxScans = 3` | two workers come to hold one id that was given out again, and a scan that the one has completed becomes failed by the other |
| `RemovedNotScanned` | README.md:250 | `OneImage`, `OneWorker`, `OneAdmin` | an image removed between the reads and the insertion of an admission is scanned |
| `FindingsMatchImage` | TECHNICAL_README.md:76 | `TwoImages`, `TwoWorkers`, `OneAdmin` | a worker that still holds a cancelled, removed scan completes the scan that took over its id, with the old image's findings |
| `NoStrandedScan` | TECHNICAL_README.md:71 | `TwoImages`, `OneWorker`, `OneAdmin` | `enqueue()` refuses an id it still knows, nobody looks at the answer, and the scan stays queued until the next restart |
| `RemovalAllOrNothing` | TECHNICAL_README.md:148 | `OneImage`, `OneWorker`, `OneAdmin` | a failure after the first unlink keeps the rows and loses raw results |
| `CancelStopsTrivy` | TECHNICAL_README.md:76 | `OneImage`, `OneWorker`, `NoAdmin` | a cancellation before the process is registered terminates nothing, and the scan is carried out in full before it is dropped |

`CancelledIsNotStarted` (TECHNICAL_README.md:123), with the constants of
`components.cfg` and `Spec`: a database update cancelled while it waits for the
scans to leave is carried out when they have.

Those of the image library, `MC_ImageLibrary` with the constants of
`finding_overwritten.cfg`:

- `FailedLeavesNoRow` (invariant): TECHNICAL_README.md:87 says a failing upload
  removes all its files and rolls back its rows. The rows are committed before
  the job is completed (`main.py:470`, 471), in one try; when the second fails,
  the files go and the rows stay.
- `OutcomeRetained` (invariant, with `MaxFiles = 2`): the same line says a request
  retains a success or failure outcome. An upload that fails at the write lock of
  another one cannot write its failure either (`main.py:480`), and its job stays
  running. A crash (`MaxCrashes = 1`) leaves it running, too: no start looks at
  `upload_jobs` (`main.py:285`).

Those of backup and restore, `MC_BackupRestore` with the constants of
`finding_lost_rollback.cfg`:

- `RolledBackWhole` (invariant): README.md:256 says that when the installation
  fails the previous database is rolled back. The restored sessions are deleted
  after the swap (`backups.py:399-405`), in a database in WAL mode: the commit is
  in a new log. If the write of `last-restore.json` (408) then raises, the undo
  puts the old database file back and does not touch the log; where it stays (the
  connection that wrote it is not closed before) SQLite replays it into the old
  database.
- `NoWorkCutOff` (invariant): TECHNICAL_README.md:205 and README.md:256 say a
  restore is made with no scan or component job active. The check
  (`backups.py:543`) comes before the stage is validated, `READY` is written and
  the 1.5 seconds pass; nothing refuses work in between.
- `AlwaysServesAgain` (property, with `Spec` and `MaxChanges = MaxTroubles = 0`):
  README.md:256 says the backend restarts and replaces the data. When a
  cancellation and the restore of one stage overlap, the directory may be left
  with `READY` alone; `validate_stage` then raises at every start
  (`backups.py:372`), outside the try that would remove the stage.

That of the accounts, `MC_Accounts` with the constants of `accounts.cfg`, but
`MaxRequests = 7`, and `FromSignedIn` for `Spec` (it begins with a member who has
signed in, a state that two requests reach):

- `OldTokensEnd` (invariant): README.md:205 says the removal of an account
  prevents old tokens from retaining access. `create_api_token` inserts for the
  id it was given at its start (`api_tokens.py:50`); by then the account may have
  been removed and the id given to a new one, which the token then opens once it
  has been activated.

Without a property of its own:

- The last active administrator cannot be removed or demoted, say
  TECHNICAL_README.md:248 and README.md:195; two overlapping requests can, which
  is why `OnlyStaleCountsTakeLastAdmin` says what is true instead.
- A recovery code works once (README.md:70); two overlapping verifications
  with it both pass (`auth.py:461`).
- A file exported while a scan is being removed may show it completed and
  without findings; one exported while a member is added may be refused by an
  import. `CalmExportsAddUp` says when neither happens.
- An export that nothing disturbed may still be too large to be imported: the
  limits of an import have no counterpart in an export (section 7).
- The fingerprint of a report includes `generated_at`, so two exports of one scan
  are two reports to an import; `ImportedOnce` is about one file.

## 7. What is left

1. Errors of the database inside the dispatcher (`fail_job`, and after the commit
   that completes a scan).
2. The event queues and the rate-limit window, should either come to matter to
   another component; the CLI's wait loop against a job that vanishes.
3. The limits of an import: 250,000 findings and 500,000 packages
   (`reports.py:467`, 501), 64 MiB (`main.py:930`), lengths and required texts
   (`reports.py:386`, 455, 479-515). An export does not enforce them, and how large
   a report is is not part of the model: `CalmExportsAddUp` is about which scans a
   file has.
4. An undo of a restore, or a clean-up of an upload, that itself raises.
5. The dispatch theorems with removals, under the hypothesis that no removed id
   is still in the queue or with a worker.
