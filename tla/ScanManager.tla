----------------------------- MODULE ScanManager -----------------------------
(***************************************************************************)
(* The scan-job dispatcher: ScanManager of app/scanner.py with the request *)
(* handlers of app/main.py that admit, cancel, retry and remove scans.     *)
(*                                                                         *)
(* Three kinds of actor share the scans table.                             *)
(*   - Coroutines on the event loop: workers, admission, cancellation.     *)
(*     What runs between two suspensions is never interrupted by another   *)
(*     coroutine; it is one action, or several during which the coroutine  *)
(*     keeps "loop", where another actor may act between two commits.      *)
(*   - Threads of the server's pool: the removal handlers are plain def    *)
(*     functions, so they run beside the loop, step by step.               *)
(*   - The operating system: Trivy processes end, the backend dies.        *)
(*                                                                         *)
(* Row ids are SQLite rowids without AUTOINCREMENT: a new row takes the    *)
(* largest id in the table plus one, so the id of a removed last row is    *)
(* given out again.                                                        *)
(***************************************************************************)
EXTENDS Integers, FiniteSets, Sequences, SequencesExt

CONSTANTS
    Images,             \* image archives
    Uploaded,           \* those the dashboard manages; the others are mounted
    Workers,            \* settings.scan_concurrency coroutines
    Admins,             \* threads that run removal requests
    MaxPending,         \* settings.max_pending_scans
    None,               \* no image, no worker
    MaxScans,           \* bound: scans ever created
    MaxCrashes,         \* bound: crashes and shutdowns
    MaxMaintenance      \* bound: requests for the exclusive database lock

ASSUME ConstantsAssumption ==
    /\ IsFiniteSet(Images)
    /\ Uploaded \subseteq Images
    /\ Workers \cap {"free", "admission"} = {}
    /\ MaxPending \in Nat
    /\ MaxScans \in Nat
    /\ MaxCrashes \in Nat
    /\ MaxMaintenance \in Nat
    /\ None \notin Images \cup Workers

Ids == 1..MaxScans

VARIABLES
    \* The database and the files: they survive a restart.
    scans,              \* the scans table, NoScan where there is no row
    library,            \* images: "visible", "hidden", or row "deleted"
    raw,                \* whose result the file scan-<id>.json holds
    archives,           \* the TAR files that exist
    \* The backend process.
    phase,              \* "down", "up" or "stopping"
    loop,               \* the coroutine that keeps the event loop, or "free"
    queue,              \* self.queue
    queued_ids,         \* self.queued_ids
    active_ids,         \* self.active_ids
    processes,          \* self.processes: the worker whose process it is
    workers,            \* each worker's run_scan
    admit,              \* images for which admission is about to add rows
    removal,            \* each removal request
    writer,             \* the exclusive side of database_access
    readers,            \* workers with read_lock
    \* Bounded counters.
    created, crashes, maintenance

disk == <<scans, library, raw, archives>>
dispatch == <<queue, queued_ids, active_ids, processes>>
gate == <<writer, readers>>
requests == <<admit, removal>>
counters == <<created, crashes, maintenance>>
vars == <<disk, phase, loop, dispatch, workers, requests, gate, counters>>

Active == {"queued", "running"}
Terminal == {"completed", "failed", "cancelled"}

\* A row: findings says whose findings and packages are stored for the scan,
\* queued_at is the order of creation.
Scan == [status : {"absent"} \cup Active \cup Terminal,
         image : Images \cup {None},
         queued_at : Nat,
         findings : Images \cup {None}]
NoScan == [status |-> "absent", image |-> None, queued_at |-> 0,
           findings |-> None]

\* Where a worker that has taken a job is suspended: in acquire_read, in
\* create_subprocess_exec, in process.wait, in the wait that follows a
\* timeout; "save" and "complete" keep the loop.
InScan == {"lock", "spawn", "run", "kill", "save", "complete"}

\* Locals of run_scan: scan_id, image_path, the parsed result, the Trivy
\* process, and whether that was sent SIGTERM.
Worker == [pc : {"down", "idle"} \cup InScan,
           job : Ids \cup {0},
           source : Images \cup {None},
           payload : Images \cup {None},
           proc : {"none", "alive", "ok", "error"},
           signalled : BOOLEAN]
AtRest(place) == [pc |-> place, job |-> 0, source |-> None, payload |-> None,
                  proc |-> "none", signalled |-> FALSE]

Removal == [step : {"idle", "checked", "unlinked"}, scans : SUBSET Ids,
            raws : SUBSET Ids, images : SUBSET Images]
NoRemoval == [step |-> "idle", scans |-> {}, raws |-> {}, images |-> {}]

(***************************************************************************)
(* Types: every status is one the API knows, and whatever the queue, a     *)
(* worker, a process or a removal names is the id of a row.                *)
(***************************************************************************)
TypeOK ==
    /\ scans \in [Ids -> Scan]
    /\ library \in [Images -> {"visible", "hidden", "deleted"}]
    /\ raw \in [Ids -> Images \cup {None}]
    /\ archives \subseteq Images
    /\ phase \in {"down", "up", "stopping"}
    /\ loop \in {"free", "admission"} \cup Workers
    /\ queue \in Seq(Ids)
    /\ queued_ids \subseteq Ids
    /\ active_ids \subseteq Ids
    /\ processes \in [Ids -> Workers \cup {None}]
    /\ workers \in [Workers -> Worker]
    /\ admit \subseteq Images
    /\ removal \in [Admins -> Removal]
    /\ writer \in {"none", "waiting", "holding"}
    /\ readers \subseteq Workers
    /\ created \in Nat /\ crashes \in Nat /\ maintenance \in Nat

Init == /\ scans = [i \in Ids |-> NoScan]
        /\ library = [m \in Images |-> "visible"]
        /\ raw = [i \in Ids |-> None]
        /\ archives = Images
        /\ phase = "down"
        /\ loop = "free"
        /\ queue = <<>> /\ queued_ids = {} /\ active_ids = {}
        /\ processes = [i \in Ids |-> None]
        /\ workers = [w \in Workers |-> AtRest("down")]
        /\ admit = {}
        /\ removal = [a \in Admins |-> NoRemoval]
        /\ writer = "none" /\ readers = {}
        /\ created = 0 /\ crashes = 0 /\ maintenance = 0

------------------------------------------------------------------------------
(* The scans table. *)

Status(i) == scans[i].status
Present(i) == Status(i) # "absent"
ActiveScans == {i \in Ids : Status(i) \in Active}
ScansOf(m) == {i \in Ids : Present(i) /\ scans[i].image = m}
Scanning(m) == \E i \in ActiveScans : scans[i].image = m

SetStatus(i, s) == scans' = [scans EXCEPT ![i].status = s]

\* (Mutant: no ORDER BY.)
AnyOrder(S, rows) ==
    {s \in [1..Cardinality(S) -> S] :
        \A a, b \in DOMAIN s : a # b => s[a] # s[b]}

\* The ids of S as the one sequence in the order of queued_at in rows.
InOrder(S, rows) ==
    {s \in [1..Cardinality(S) -> S] :
        \A a, b \in DOMAIN s :
            a < b => rows[s[a]].queued_at < rows[s[b]].queued_at}

\* A coroutine that is ready runs when no other one keeps the loop.
Runs == phase = "up" /\ loop = "free"

------------------------------------------------------------------------------
(* Admission: POST /api/scans and POST /api/jobs/{id}/retry.  Both hold the  *)
(* admission lock and the event loop from the reads to the enqueueing, but   *)
(* a removal thread may commit between the reads and the insertion.          *)

\* (Mutant) the check ignores how many scans the request adds.
RoomForOne(n) ==
    /\ Cardinality(ActiveScans) < MaxPending
    /\ created + n <= MaxScans

RoomFor(n) ==
    /\ Cardinality(ActiveScans) + n <= MaxPending
    /\ created + n <= MaxScans              \* bound of the model

BeginAdmission(new) ==
    /\ Runs
    /\ RoomFor(Cardinality(new))
    /\ admit' = new
    /\ loop' = "admission"
    /\ UNCHANGED <<disk, phase, dispatch, workers, removal, gate, counters>>

\* An image with an active scan reuses it; a request without a new image
\* changes nothing and is left out.
RequestScans(selected) ==
    LET new == {m \in selected : ~Scanning(m)} IN
    /\ \A m \in selected : library[m] = "visible" /\ m \in archives
    /\ new # {}
    /\ BeginAdmission(new)

\* (Mutant) a retry that does not look for an active scan of the image.
RetryAnyway(i) ==
    /\ Status(i) \in {"failed", "cancelled"}
    /\ scans[i].image \in archives
    /\ BeginAdmission({scans[i].image})

\* A retry does not ask whether the image is hidden.
RetryScan(i) ==
    /\ Status(i) \in {"failed", "cancelled"}
    /\ scans[i].image \in archives
    /\ ~Scanning(scans[i].image)
    /\ BeginAdmission({scans[i].image})

\* The rowid after which SQLite numbers new rows: the largest in use.
IsLastId(last) ==
    /\ \A i \in Ids : Present(i) => i <= last
    /\ last # 0 => Present(last)

\* enqueue() refuses an id the manager still knows from an earlier scan, and
\* nobody looks at the answer.
Enqueue(new) ==
    LET accepted == new \ (queued_ids \cup active_ids) IN
    /\ queued_ids' = queued_ids \cup accepted
    /\ \E s \in InOrder(accepted, scans') : queue' = queue \o s

\* The insertion fails as a whole when an image row is gone (foreign key).
InsertScans ==
    /\ loop = "admission"
    /\ loop' = "free"
    /\ admit' = {}
    /\ \/ /\ \E m \in admit : library[m] = "deleted"
          /\ UNCHANGED <<scans, created, queue, queued_ids>>
       \/ /\ \A m \in admit : library[m] # "deleted"
          /\ \E last \in 0..MaxScans, order \in [1..Cardinality(admit) -> admit] :
                LET new == {i \in Ids : i - last \in DOMAIN order} IN
                /\ IsLastId(last)
                /\ \A a, b \in DOMAIN order : order[a] = order[b] => a = b
                /\ scans' = [i \in Ids |->
                      IF i \notin new THEN scans[i]
                      ELSE [status |-> "queued", image |-> order[i - last],
                            queued_at |-> created + (i - last),
                            findings |-> None]]
                /\ Enqueue(new)
          /\ created' = created + Cardinality(admit)
    /\ UNCHANGED <<library, raw, archives, phase, active_ids, processes,
                   workers, removal, gate, crashes, maintenance>>

------------------------------------------------------------------------------
(* POST /api/jobs/{id}/cancel: the process registered under the id is        *)
(* terminated if it still runs.                                              *)

CancelScan(i) ==
    /\ Runs
    /\ Status(i) \in Active
    /\ SetStatus(i, "cancelled")
    /\ queued_ids' = queued_ids \ {i}
    /\ workers' = [w \in Workers |->
                     IF processes[i] = w /\ workers[w].proc = "alive"
                     THEN [workers[w] EXCEPT !.signalled = TRUE]
                     ELSE workers[w]]
    /\ UNCHANGED <<library, raw, archives, phase, loop, queue, active_ids,
                   processes, requests, gate, counters>>

------------------------------------------------------------------------------
(* worker() and run_scan(). *)

At(w, place) == workers[w].pc = place
Job(w) == workers[w].job
Update(w, new) == workers' = [workers EXCEPT ![w] = new]
Move(w, place) == workers' = [workers EXCEPT ![w].pc = place]

\* (Mutant) only the existence of the row is looked at.
Gone(i) == Status(i) = "absent"

\* not current or current.status == "cancelled"
Dropped(i) == Status(i) \in {"absent", "cancelled"}

\* (Mutant) the worker's finally clause forgets active_ids.
KeepMark(i) == UNCHANGED active_ids

\* active_ids.discard(scan_id)
Unmark(i) == active_ids' = active_ids \ {i}

\* run_scan's finally clause and then the worker's: the entry of processes
\* goes, whoever registered it, and so does the id's mark in active_ids.
LeaveScan(w, place) ==
    /\ Update(w, AtRest(place))
    /\ processes' = [processes EXCEPT ![Job(w)] = None]
    /\ Unmark(Job(w))
    /\ readers' = readers \ {w}
    /\ UNCHANGED <<queue, queued_ids, writer>>

EndScan(w) == LeaveScan(w, "idle") /\ loop' = "free"

\* raw_path.unlink(missing_ok=True)
DropRaw(i) == raw' = [raw EXCEPT ![i] = None]

\* except Exception: the raw file goes, and fail_job marks the scan unless it
\* is gone or cancelled.
Fail(w) ==
    /\ DropRaw(Job(w))
    /\ IF Dropped(Job(w)) THEN UNCHANGED scans ELSE SetStatus(Job(w), "failed")
    /\ EndScan(w)

\* The return of a worker that finds its scan removed or cancelled.
Abandon(w) ==
    /\ Dropped(Job(w))
    /\ DropRaw(Job(w))
    /\ EndScan(w)
    /\ UNCHANGED scans

\* queue.get() returns; only a scan that is still queued is run.
Dequeue(w) ==
    /\ Runs
    /\ At(w, "idle")
    /\ queue # <<>>
    /\ LET i == Head(queue) IN
        /\ queue' = Tail(queue)
        /\ queued_ids' = queued_ids \ {i}
        /\ \/ /\ Status(i) = "queued"
              /\ SetStatus(i, "running")
              /\ active_ids' = active_ids \cup {i}
              /\ Update(w, [AtRest("lock") EXCEPT !.job = i,
                                                  !.source = scans[i].image])
           \/ /\ Status(i) # "queued"
              /\ Unmark(i)
              /\ UNCHANGED <<scans, workers>>
    /\ UNCHANGED <<library, raw, archives, phase, loop, processes, requests,
                   gate, counters>>

\* database_access.acquire_read(), as DatabaseGate promises it.
AcquireRead(w) ==
    /\ Runs
    /\ At(w, "lock")
    /\ writer = "none"
    /\ readers' = readers \cup {w}
    /\ Move(w, "spawn")
    /\ UNCHANGED <<disk, phase, loop, dispatch, requests, writer, counters>>

\* create_subprocess_exec returns, and nobody has looked at the row since the
\* worker took the job.
SpawnTrivy(w) ==
    /\ Runs
    /\ At(w, "spawn")
    /\ Update(w, [workers[w] EXCEPT !.pc = "run", !.proc = "alive"])
    /\ processes' = [processes EXCEPT ![Job(w)] = w]
    /\ UNCHANGED <<disk, phase, loop, queue, queued_ids, active_ids, requests,
                   gate, counters>>

\* It raises, as the creation of the workspace before it may.
SpawnFails(w) ==
    /\ Runs
    /\ At(w, "spawn")
    /\ Fail(w)
    /\ UNCHANGED <<library, archives, phase, requests, counters>>

\* The process ends; with 0 it has written its report to the scan's raw path.
TrivyExits(w) ==
    /\ workers[w].proc = "alive"
    /\ \/ /\ Update(w, [workers[w] EXCEPT !.proc = "ok"])
          /\ raw' = [raw EXCEPT ![Job(w)] = workers[w].source]
       \/ /\ Update(w, [workers[w] EXCEPT !.proc = "error"])
          /\ UNCHANGED raw
    /\ UNCHANGED <<scans, library, archives, phase, loop, dispatch, requests,
                   gate, counters>>

\* (Mutant) process.wait() without wait_for.
NoTimeout(w) == FALSE

\* trivy_timeout_seconds pass: SIGTERM, and SIGKILL five seconds later.
TrivyTimesOut(w) ==
    /\ Runs
    /\ At(w, "run") /\ workers[w].proc = "alive"
    /\ Update(w, [workers[w] EXCEPT !.pc = "kill", !.signalled = TRUE])
    /\ UNCHANGED <<disk, phase, loop, dispatch, requests, gate, counters>>

\* The process that timed out is gone: RuntimeError.
ReapTimedOut(w) ==
    /\ Runs
    /\ At(w, "kill") /\ workers[w].proc # "alive"
    /\ Fail(w)
    /\ UNCHANGED <<library, archives, phase, requests, counters>>

\* process.wait() returns.  A cancelled scan is dropped, an exit code other
\* than 0 or an unreadable or too large report is an error, and otherwise the
\* report is parsed and the worker goes on with the loop in its hands.
CollectResult(w) ==
    /\ Runs
    /\ At(w, "run") /\ workers[w].proc # "alive"
    /\ \/ Abandon(w)
       \/ ~Dropped(Job(w)) /\ Fail(w)
       \/ /\ ~Dropped(Job(w))
          /\ workers[w].proc = "ok"
          /\ raw[Job(w)] # None
          /\ Update(w, [workers[w] EXCEPT !.pc = "save",
                                          !.payload = raw[Job(w)]])
          /\ loop' = w
          /\ UNCHANGED <<scans, raw, dispatch, gate>>
    /\ UNCHANGED <<library, archives, phase, requests, counters>>

\* (Mutant) the transaction is not committed.
SaveRolledBack(w) ==
    /\ loop = w /\ At(w, "save")
    /\ Move(w, "complete")
    /\ UNCHANGED <<disk, phase, loop, dispatch, requests, gate, counters>>

\* One transaction replaces the scan's findings and packages.
SaveResult(w) ==
    /\ loop = w /\ At(w, "save")
    /\ IF Dropped(Job(w))
       THEN Abandon(w)
       ELSE /\ scans' = [scans EXCEPT ![Job(w)].findings = workers[w].payload]
            /\ Move(w, "complete")
            /\ UNCHANGED <<raw, loop, dispatch, gate>>
    /\ UNCHANGED <<library, archives, phase, requests, counters>>

\* A second one marks the scan completed.
CompleteScan(w) ==
    /\ loop = w /\ At(w, "complete")
    /\ IF Dropped(Job(w)) THEN UNCHANGED scans
                          ELSE SetStatus(Job(w), "completed")
    /\ EndScan(w)
    /\ UNCHANGED <<library, raw, archives, phase, requests, counters>>

------------------------------------------------------------------------------
(* The exclusive side of database_access: component downloads and backup     *)
(* export.                                                                   *)

AskExclusive ==
    /\ Runs
    /\ writer = "none"
    /\ maintenance < MaxMaintenance
    /\ writer' = "waiting"
    /\ maintenance' = maintenance + 1
    /\ UNCHANGED <<disk, phase, loop, dispatch, workers, requests, readers,
                   created, crashes>>

\* (Mutant) maintenance that does not wait for the readers.
TakeExclusiveAtOnce ==
    /\ Runs
    /\ writer = "waiting"
    /\ writer' = "holding"
    /\ UNCHANGED <<disk, phase, loop, dispatch, workers, requests, readers,
                   counters>>

TakeExclusive ==
    /\ Runs
    /\ writer = "waiting"
    /\ readers = {}
    /\ writer' = "holding"
    /\ UNCHANGED <<disk, phase, loop, dispatch, workers, requests, readers,
                   counters>>

ReleaseExclusive ==
    /\ Runs
    /\ writer = "holding"
    /\ writer' = "none"
    /\ UNCHANGED <<disk, phase, loop, dispatch, workers, requests, readers,
                   counters>>

------------------------------------------------------------------------------
(* Removal requests, each in a thread of its own: DELETE /api/scans/{id},    *)
(* DELETE /api/images/{id} and their bulk forms.  The rows are read and      *)
(* checked, files are unlinked, and the rows are deleted by id and committed.*)

\* (Mutant) nobody looks whether a scan is active.
AnyRow(i) == Present(i)

Removable(i) == Present(i) /\ Status(i) \notin Active

StartRemoval(a, ids, images) ==
    /\ phase = "up"
    /\ removal[a].step = "idle"
    /\ \A i \in ids : Removable(i)
    /\ removal' = [removal EXCEPT ![a] =
                     [step |-> "checked", scans |-> ids, images |-> images,
                      raws |-> {i \in ids : Status(i) = "completed"}]]
    /\ UNCHANGED <<disk, phase, loop, dispatch, workers, admit, gate,
                   counters>>

RemoveScans(a, ids) == ids # {} /\ StartRemoval(a, ids, {})

RemoveImages(a, images) ==
    /\ images # {}
    /\ \A m \in images : library[m] = "visible"
    /\ StartRemoval(a, UNION {ScansOf(m) : m \in images}, images)

Unlink(raws, images) ==
    /\ raw' = [i \in Ids |-> IF i \in raws THEN None ELSE raw[i]]
    /\ archives' = archives \ (images \cap Uploaded)

UnlinkFiles(a) ==
    /\ removal[a].step = "checked"
    /\ Unlink(removal[a].raws, removal[a].images)
    /\ removal' = [removal EXCEPT ![a].step = "unlinked"]
    /\ UNCHANGED <<scans, library, phase, loop, dispatch, workers, admit, gate,
                   counters>>

\* A file that cannot be unlinked, or a database error after an unlink: the
\* request ends with an error and no row is deleted, but the raw results and
\* archives of the records before it are gone.
RemovalFails(a) ==
    /\ \/ /\ removal[a].step = "checked"
          /\ \E raws \in SUBSET removal[a].raws,
                images \in SUBSET removal[a].images : Unlink(raws, images)
       \/ /\ removal[a].step = "unlinked"
          /\ UNCHANGED <<raw, archives>>
    /\ removal' = [removal EXCEPT ![a] = NoRemoval]
    /\ UNCHANGED <<scans, library, phase, loop, dispatch, workers, admit, gate,
                   counters>>

\* Rows that reference a deleted image (foreign key) undo the transaction.
\* A mounted image is hidden, an uploaded one is deleted.
CommitRemoval(a) ==
    LET r == removal[a]
        uploads == r.images \cap Uploaded
        referenced == {m \in uploads : ScansOf(m) \ r.scans # {}}
    IN
    /\ r.step = "unlinked"
    /\ \/ /\ referenced # {}
          /\ UNCHANGED <<scans, library>>
       \/ /\ referenced = {}
          /\ scans' = [i \in Ids |->
                         IF i \in r.scans THEN NoScan ELSE scans[i]]
          /\ library' = [m \in Images |->
                           IF m \notin r.images THEN library[m]
                           ELSE IF m \in Uploaded THEN "deleted" ELSE "hidden"]
    /\ removal' = [removal EXCEPT ![a] = NoRemoval]
    /\ UNCHANGED <<raw, archives, phase, loop, dispatch, workers, admit, gate,
                   counters>>

\* POST /api/images/{id}/restore, for an image whose file still exists.
RestoreImage(m) ==
    /\ phase = "up"
    /\ library[m] = "hidden"
    /\ m \in archives
    /\ library' = [library EXCEPT ![m] = "visible"]
    /\ UNCHANGED <<scans, raw, archives, phase, loop, dispatch, workers,
                   requests, gate, counters>>

------------------------------------------------------------------------------
(* Start, shutdown and crash. *)

\* (Mutants) a recovery that forgets the jobs that were running; the stage
\* "recovered" written to the status.
RecoverQueuedOnly ==
    /\ queued_ids' = {i \in Ids : Status(i) = "queued"}
    /\ UNCHANGED scans
RecoverAsStage ==
    /\ queued_ids' = ActiveScans
    /\ scans' = [i \in Ids |-> IF Status(i) = "running"
                               THEN [scans[i] EXCEPT !.status = "recovered"]
                               ELSE scans[i]]

\* recover_jobs() puts running jobs back, and everything active is enqueued.
RecoverJobs ==
    /\ queued_ids' = ActiveScans
    /\ scans' = [i \in Ids |-> IF Status(i) = "running"
                               THEN [scans[i] EXCEPT !.status = "queued"]
                               ELSE scans[i]]

Start ==
    /\ phase = "down"
    /\ phase' = "up"
    /\ RecoverJobs
    /\ queue' \in InOrder(ActiveScans, scans)
    /\ workers' = [w \in Workers |-> AtRest("idle")]
    /\ UNCHANGED <<library, raw, archives, loop, active_ids, processes,
                   requests, gate, counters>>

\* stop(): requests are over and component maintenance has stopped; running
\* processes are terminated and the workers cancelled.
Stop ==
    /\ Runs
    /\ crashes < MaxCrashes
    /\ \A a \in Admins : removal[a].step = "idle"
    /\ phase' = "stopping"
    /\ crashes' = crashes + 1
    /\ writer' = "none"
    /\ workers' = [w \in Workers |->
                     IF workers[w].proc = "alive"
                     THEN [workers[w] EXCEPT !.signalled = TRUE]
                     ELSE workers[w]]
    /\ UNCHANGED <<disk, loop, dispatch, requests, readers, created,
                   maintenance>>

\* A cancelled worker waits for its process and puts its job back.
StopWorker(w) ==
    /\ phase = "stopping"
    /\ workers[w].proc # "alive"
    /\ \/ /\ workers[w].pc \in InScan
          /\ IF Status(Job(w)) = "running" THEN SetStatus(Job(w), "queued")
                                           ELSE UNCHANGED scans
          /\ LeaveScan(w, "down")
       \/ /\ At(w, "idle")
          /\ Move(w, "down")
          /\ UNCHANGED <<scans, dispatch, gate>>
    /\ UNCHANGED <<library, raw, archives, phase, loop, requests, counters>>

\* The process ends, and with it everything that was only in its memory.
MemoryLost ==
    /\ phase' = "down"
    /\ loop' = "free"
    /\ queue' = <<>> /\ queued_ids' = {} /\ active_ids' = {}
    /\ processes' = [i \in Ids |-> None]
    /\ workers' = [w \in Workers |-> AtRest("down")]
    /\ admit' = {}
    /\ removal' = [a \in Admins |-> NoRemoval]
    /\ writer' = "none" /\ readers' = {}
    /\ UNCHANGED <<disk, created, maintenance>>

Exit ==
    /\ phase = "stopping"
    /\ \A w \in Workers : At(w, "down")
    /\ MemoryLost
    /\ UNCHANGED crashes

\* The container dies at any point, its Trivy processes with it.
Crash ==
    /\ phase # "down"
    /\ crashes < MaxCrashes
    /\ MemoryLost
    /\ crashes' = crashes + 1

------------------------------------------------------------------------------

WorkerStep(w) == \/ Dequeue(w)
                 \/ AcquireRead(w)
                 \/ SpawnTrivy(w)
                 \/ SpawnFails(w)
                 \/ TrivyTimesOut(w)
                 \/ ReapTimedOut(w)
                 \/ CollectResult(w)
                 \/ SaveResult(w)
                 \/ CompleteScan(w)
                 \/ StopWorker(w)

Request == \/ \E selected \in SUBSET Images : RequestScans(selected)
           \/ \E i \in Ids : RetryScan(i) \/ CancelScan(i)
           \/ InsertScans

Maintain == AskExclusive \/ TakeExclusive \/ ReleaseExclusive

RemovalStep(a) == \/ \E ids \in SUBSET Ids : RemoveScans(a, ids)
                  \/ \E images \in SUBSET Images : RemoveImages(a, images)
                  \/ UnlinkFiles(a)
                  \/ RemovalFails(a)
                  \/ CommitRemoval(a)

Next == \/ Request
        \/ \E w \in Workers : WorkerStep(w) \/ TrivyExits(w)
        \/ Maintain
        \/ \E a \in Admins : RemovalStep(a)
        \/ \E m \in Images : RestoreImage(m)
        \/ Start \/ Stop \/ Exit \/ Crash

SafeSpec == Init /\ [][Next]_vars

\* The event loop runs every ready coroutine and every thread of the pool ends;
\* the timeout bounds a Trivy run, and a process sent SIGTERM ends: by itself,
\* or by the SIGKILL that follows a timeout.  Compose restarts the backend.
\* Nobody has to make a request.
Fairness ==
    /\ WF_vars(InsertScans)
    /\ \A w \in Workers :
          /\ WF_vars(WorkerStep(w))
          /\ WF_vars(workers[w].signalled /\ TrivyExits(w))
    /\ WF_vars(TakeExclusive \/ ReleaseExclusive)
    /\ \A a \in Admins :
          WF_vars(UnlinkFiles(a) \/ RemovalFails(a) \/ CommitRemoval(a))
    /\ WF_vars(Start \/ Exit)

Spec == SafeSpec /\ Fairness

------------------------------------------------------------------------------
(* Properties. *)

(***************************************************************************)
(* Duplicate suppression: an image never has two active scans, however     *)
(* requests, retries, removals and restarts interleave.                    *)
(***************************************************************************)
OneActivePerImage ==
    \A i, j \in ActiveScans : scans[i].image = scans[j].image => i = j

(***************************************************************************)
(* Queued plus running scans never exceed max_pending_scans.               *)
(***************************************************************************)
WithinCapacity == Cardinality(ActiveScans) <= MaxPending

(***************************************************************************)
(* While the backend is up, every queued scan is in the queue and every    *)
(* running one has a worker: no job is stranded until the next restart.    *)
(***************************************************************************)
NoStrandedScan ==
    phase = "up" =>
        \A i \in Ids :
            /\ Status(i) = "queued" => i \in ToSet(queue)
            /\ Status(i) = "running" => \E w \in Workers : Job(w) = i

(***************************************************************************)
(* queued_ids and active_ids, which enqueue() trusts to refuse an id, say  *)
(* exactly which scans wait in the queue and which have a worker, and no   *)
(* scan has two.  An id left behind would keep a later scan from running.  *)
(***************************************************************************)
DispatchExact ==
    phase = "up" =>
        /\ queued_ids = {i \in ToSet(queue) : Status(i) = "queued"}
        /\ active_ids = {Job(w) : w \in Workers} \ {0}
        /\ \A v, w \in Workers : v # w /\ Job(v) # 0 => Job(v) # Job(w)

(***************************************************************************)
(* The findings and packages of a completed scan are those of its image.   *)
(***************************************************************************)
FindingsMatchImage ==
    \A i \in Ids :
        Status(i) = "completed" => scans[i].findings = scans[i].image

(***************************************************************************)
(* A completed scan holds its own image's results, in the database and in  *)
(* the raw file, whatever failed, timed out or crashed before.             *)
(***************************************************************************)
ResultsMatchImage ==
    /\ FindingsMatchImage
    /\ \A i \in Ids : Status(i) = "completed" => raw[i] = scans[i].image

(***************************************************************************)
(* No Trivy process runs while maintenance has the vulnerability database. *)
(***************************************************************************)
MaintenanceAlone ==
    writer = "holding" => \A w \in Workers : workers[w].proc # "alive"

(***************************************************************************)
(* The queue hands out queued scans in the order they were submitted,      *)
(* across restarts.                                                        *)
(***************************************************************************)
FifoQueue ==
    \A a, b \in DOMAIN queue :
        a < b /\ Status(queue[a]) = "queued" /\ Status(queue[b]) = "queued"
            => scans[queue[a]].queued_at < scans[queue[b]].queued_at

(***************************************************************************)
(* A scan that has ended keeps its outcome until its record is removed: a  *)
(* cancelled scan is not completed by the worker that still holds it.      *)
(***************************************************************************)
SettledIsFinal ==
    [][\A i \in Ids :
        Status(i) \in Terminal => Status(i)' \in {Status(i), "absent"}]_vars

(***************************************************************************)
(* A removal never takes an active scan away.                              *)
(***************************************************************************)
ActiveNotRemoved ==
    [][\A i \in Ids : Status(i) \in Active => Status(i)' # "absent"]_vars

(***************************************************************************)
(* An image that has been removed has no active scan.                      *)
(***************************************************************************)
RemovedNotScanned == \A m \in Images : library[m] # "visible" => ~Scanning(m)

(***************************************************************************)
(* A removal is done as a whole or not at all: a completed scan that is    *)
(* not being removed still has its raw result.                             *)
(***************************************************************************)
RemovalAllOrNothing ==
    \A i \in Ids : Status(i) = "completed" /\ raw[i] = None
        => \E a \in Admins : i \in removal[a].scans

(***************************************************************************)
(* The Trivy process of a cancelled scan has been told to end.             *)
(***************************************************************************)
CancelStopsTrivy ==
    \A w \in Workers :
        workers[w].proc = "alive" /\ Status(Job(w)) = "cancelled"
            => workers[w].signalled

Ledger == INSTANCE ScanLedger WITH
    status <- [i \in Ids |-> Status(i)],
    image <- [i \in Ids |-> scans[i].image]

(***************************************************************************)
(* The rows of the scans table change only as ScanLedger allows: whatever  *)
(* the queue, the workers and the restarts do, no scan skips a state, is   *)
(* settled twice, or is admitted beside another of its image.              *)
(***************************************************************************)
ImplementsLedger == Ledger!Spec

(***************************************************************************)
(* Every submitted scan comes to an end.                                   *)
(***************************************************************************)
EveryScanSettles ==
    \A i \in Ids :
        Status(i) = "queued" ~> Status(i) \in Terminal \cup {"absent"}
==============================================================================
