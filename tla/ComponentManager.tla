--------------------------- MODULE ComponentManager ---------------------------
(***************************************************************************)
(* The component maintenance worker of app/components.py: a persisted      *)
(* queue of "check" and "update" jobs, one worker coroutine, and the       *)
(* exclusive side of the Trivy database lock for a download.               *)
(*                                                                         *)
(* All of it runs on the event loop, so what happens between two real      *)
(* suspensions is one action: publishing an event and entering a free lock *)
(* do not suspend; an empty queue, a busy lock, starting a process,        *)
(* waiting for it and asking a registry do.                                *)
(***************************************************************************)
EXTENDS Naturals, Sequences, SequencesExt

CONSTANTS Components,           \* DATABASE_COMPONENTS
          Scans,                \* the scan workers that share the lock
          MaxJobs,              \* bound on the maintenance_jobs rows
          MaxHalts,             \* bound on crashes and graceful stops
          MaxErrors,            \* bound on failed commits ("database is locked")
          Maint                 \* the worker, as a user of the lock

ASSUME ComponentAssumption ==
    /\ MaxJobs \in Nat /\ MaxHalts \in Nat /\ MaxErrors \in Nat
    /\ Maint \notin Scans

VARIABLES jobs,                 \* the table, in id order
          queue, queued_ids,    \* asyncio.Queue and the set beside it
          worker,               \* where the worker coroutine is suspended
          process,              \* processes[worker.job]: the Trivy download
          mode,                 \* the database lock (module DatabaseGate)
          halts, errors         \* how often the bounded faults happened

vars == <<jobs, queue, queued_ids, worker, process, mode, halts, errors>>

Gate == INSTANCE DatabaseGate WITH Readers <- Scans, Writers <- {Maint}

Actions == {"check", "update"}
Active == {"queued", "running"}
TERMINAL == {"completed", "failed", "cancelled"}

Job == [component : Components, action : Actions,
        status : Active \cup TERMINAL, progress : 0..100]

\* "idle" waits in queue.get, "lock" in acquire_write, "spawn" in
\* create_subprocess_exec, "wait" in process.wait, "registry" in
\* registry_reachable; "dead" is a coroutine that ended with an exception and
\* "down" a server that is not running.  job is 0 when there is none.
Suspended == {"lock", "spawn", "wait", "registry"}
Worker == [at : Suspended \cup {"idle", "dead", "down"}, job : 0..MaxJobs]

TypeOK == /\ jobs \in Seq(Job) /\ Len(jobs) <= MaxJobs
          /\ queue \in Seq(1..MaxJobs)
          /\ queued_ids \subseteq 1..MaxJobs
          /\ worker \in Worker
          /\ process \in {"none", "running", "terminated"}
          /\ Gate!TypeOK
          /\ halts \in 0..MaxHalts /\ errors \in 0..MaxErrors

Init == /\ jobs = <<>> /\ queue = <<>> /\ queued_ids = {}
        /\ worker = [at |-> "idle", job |-> 0]
        /\ process = "none"
        /\ Gate!Init
        /\ halts = 0 /\ errors = 0

-------------------------------------------------------------------------------
(* Job rows *)

Up == worker.at # "down"
JobIds == 1..Len(jobs)
Larger(a, b) == IF a < b THEN b ELSE a

UpdatedBySum(job, p) == [job EXCEPT !.progress = @ + p]         \* mutant
UpdatedAsRead(job, p) == [job EXCEPT !.progress = p]            \* mutant

\* update, complete and fail leave a cancelled job alone.
Updated(job, p) == IF job.status = "cancelled" THEN job
                   ELSE [job EXCEPT !.progress = Larger(@, p)]
Completed(job) == IF job.status = "cancelled" THEN job
                  ELSE [job EXCEPT !.status = "completed", !.progress = 100]

FailedAlways(job) == [job EXCEPT !.status = "failed"]           \* mutant
Failed(job) == IF job.status = "cancelled" THEN job
               ELSE [job EXCEPT !.status = "failed"]

UnsettledJobs == {j \in JobIds : jobs[j].status \in Active}

QueuedFor(c) == {j \in JobIds : /\ jobs[j].component = c        \* mutant
                                /\ jobs[j].status = "queued"}
\* The jobs because of which a request for the component is not queued.
ActiveFor(c) == {j \in UnsettledJobs : jobs[j].component = c}

-------------------------------------------------------------------------------
(* Requests *)

\* An active job of the component, whatever its action, is reused.
Request(c, action) ==
    /\ Up
    /\ ActiveFor(c) = {}
    /\ Len(jobs) < MaxJobs
    /\ LET id == Len(jobs) + 1 IN
       /\ jobs' = Append(jobs, [component |-> c, action |-> action,
                                status |-> "queued", progress |-> 0])
       /\ queue' = Append(queue, id)
       /\ queued_ids' = queued_ids \cup {id}
    /\ UNCHANGED <<worker, process, mode, halts, errors>>

\* The id stays in the queue; the worker finds the job cancelled and skips it.
Cancel(j) ==
    /\ Up
    /\ jobs[j].status \notin TERMINAL
    /\ jobs' = [jobs EXCEPT ![j].status = "cancelled"]
    /\ process' = IF worker.job = j /\ process = "running" THEN "terminated"
                  ELSE process
    /\ queued_ids' = queued_ids \ {j}
    /\ UNCHANGED <<queue, worker, mode, halts, errors>>

-------------------------------------------------------------------------------
(* The worker *)

Dequeue == /\ worker.at = "idle" /\ queue # <<>>
           /\ queue' = Tail(queue)
           /\ queued_ids' = queued_ids \ {Head(queue)}

Suspend(at, j) == worker' = [at |-> at, job |-> j]
Become(at) == Suspend(at, 0)

Skip == /\ Dequeue
        /\ jobs[Head(queue)].status # "queued"
        /\ UNCHANGED <<jobs, worker, process, mode, halts, errors>>

\* run: the row becomes running, and check goes on to its registry request.
RunCheck ==
    /\ Dequeue
    /\ LET j == Head(queue) IN
       /\ jobs[j].status = "queued" /\ jobs[j].action = "check"
       /\ jobs' = [jobs EXCEPT ![j].status = "running", ![j].progress = 65]
       /\ Suspend("registry", j)
    /\ UNCHANGED <<process, mode, halts, errors>>

\* run and download up to the exclusive lock, which is taken at once if free.
RunDownload ==
    /\ Dequeue
    /\ LET j == Head(queue)
           free == ~Gate!Reading IN
       /\ jobs[j].status = "queued" /\ jobs[j].action = "update"
       /\ jobs' = [jobs EXCEPT ![j].status = "running",
                               ![j].progress = IF free THEN 20 ELSE 12]
       /\ IF free THEN Suspend("spawn", j) /\ Gate!GrantWrite(Maint)
                  ELSE Suspend("lock", j) /\ Gate!Ask(Maint)
    /\ UNCHANGED <<process, halts, errors>>

\* The commit at the head of run fails: no except clause is around it.
RunRaises ==
    /\ errors < MaxErrors
    /\ Dequeue
    /\ jobs[Head(queue)].status = "queued"
    /\ Become("dead")
    /\ errors' = errors + 1
    /\ UNCHANGED <<jobs, process, mode, halts>>

\* The last scan leaves.  Whether the job was cancelled meanwhile is not asked.
EnterLock == /\ worker.at = "lock"
             /\ Gate!GrantWrite(Maint)
             /\ jobs' = [jobs EXCEPT ![worker.job] = Updated(@, 20)]
             /\ worker' = [worker EXCEPT !.at = "spawn"]
             /\ UNCHANGED <<queue, queued_ids, process, halts, errors>>

Spawned == /\ worker.at = "spawn"
           /\ process' = "running"
           /\ worker' = [worker EXCEPT !.at = "wait"]
           /\ UNCHANGED <<jobs, queue, queued_ids, mode, halts, errors>>

\* consume: "downloading" and "extracting" lines of two pipes, in any order.
Consume(p) == /\ worker.at = "wait"
              /\ jobs' = [jobs EXCEPT ![worker.job] = Updated(@, p)]
              /\ jobs' # jobs
              /\ UNCHANGED <<queue, queued_ids, worker, process, mode, halts,
                             errors>>

ReleaseProcess == process' = "none" /\ UNCHANGED mode           \* mutant

\* The finally clauses: the process is forgotten, the lock released.
Release == /\ process' = "none"
           /\ mode' = [mode EXCEPT ![Maint] = "idle"]

\* run ends with this row; the worker goes back to the queue.
EndWith(job) == /\ jobs' = [jobs EXCEPT ![worker.job] = job]
                /\ Become("idle")
                /\ Release
                /\ UNCHANGED <<queue, queued_ids, halts, errors>>

\* check: the registry answers, or nothing of the answer can be used.
RegistryAnswers == /\ worker.at = "registry"
                   /\ \/ EndWith(Completed(jobs[worker.job]))
                      \/ EndWith(Failed(jobs[worker.job]))

\* The process could not be started.
SpawnFails == worker.at = "spawn" /\ EndWith(Failed(jobs[worker.job]))

\* The process exits well, and the metadata is there.
DownloadSucceeds == /\ worker.at = "wait"
                    /\ EndWith(Completed(Updated(jobs[worker.job], 90)))

\* It exits with an error, was terminated, times out, or left no metadata.
DownloadFails == /\ worker.at = "wait"
                 /\ EndWith(Failed(jobs[worker.job]))

\* fail() cannot commit either: its exception ends the worker.
FailRaises == /\ errors < MaxErrors
              /\ worker.at \in {"registry", "spawn", "wait"}
              /\ jobs[worker.job].status # "cancelled"
              /\ Become("dead")
              /\ Release
              /\ errors' = errors + 1
              /\ UNCHANGED <<jobs, queue, queued_ids, halts>>

-------------------------------------------------------------------------------
(* Stop, crash and start; the scans *)

\* stop terminates the process and cancels the worker; a crash loses both.
\* Neither writes to the table.
Stop == /\ Up /\ halts < MaxHalts
        /\ Become("down")
        /\ process' = "none"
        /\ queue' = <<>> /\ queued_ids' = {}
        /\ mode' = [t \in Gate!Tasks |-> "idle"]
        /\ halts' = halts + 1
        /\ UNCHANGED <<jobs, errors>>

QueuedJobs == {j \in JobIds : jobs[j].status = "queued"}       \* mutant
NothingQueued(ids) == ids = <<>>                                \* mutant

\* start: what was queued or running is queued again, in queued_at order.
ToRecover == UnsettledJobs
Recovers(ids) == /\ ToSet(ids) = ToRecover
                 /\ \A m, n \in DOMAIN ids : m < n => ids[m] < ids[n]

Start ==
    /\ ~Up
    /\ jobs' = [j \in JobIds |->
                  IF j \in ToRecover
                  THEN [jobs[j] EXCEPT !.status = "queued", !.progress = 0]
                  ELSE jobs[j]]
    /\ \E ids \in BoundedSeq(JobIds, Len(jobs)) : Recovers(ids) /\ queue' = ids
    /\ queued_ids' = ToSet(queue')
    /\ Become("idle")
    /\ UNCHANGED <<process, mode, halts, errors>>

\* A scan worker asks for the shared side, gets it, and gives it back.
ScanSteps(t) == /\ Up
                /\ \/ mode[t] = "idle" /\ Gate!GrantRead(t)
                   \/ Gate!Leave(t)
                /\ UNCHANGED <<jobs, queue, queued_ids, worker, process, halts,
                               errors>>

-------------------------------------------------------------------------------
WorkerStep == \/ Skip \/ RunCheck \/ RunDownload \/ EnterLock \/ Spawned
              \/ RegistryAnswers \/ DownloadSucceeds \/ DownloadFails

Next == \/ \E c \in Components, a \in Actions : Request(c, a)
        \/ \E j \in JobIds : Cancel(j)
        \/ WorkerStep
        \/ SpawnFails \/ RunRaises \/ FailRaises
        \/ \E p \in {48, 68} : Consume(p)
        \/ Stop \/ Start
        \/ \E t \in Scans : ScanSteps(t)

\* The loop schedules a ready worker; a process ends or times out; a scan
\* gives the lock back; the container is restarted.
Fairness == /\ WF_vars(WorkerStep)
            /\ WF_vars(Start)
            /\ \A t \in Scans : WF_vars(ScanSteps(t) /\ mode[t] = "read")

Spec == Init /\ [][Next]_vars
LiveSpec == Spec /\ Fairness

-------------------------------------------------------------------------------
(* Properties *)

\* Duplicate suppression: a component never has two active jobs, through
\* requests, cancellations, lost workers and restarts.
OneActiveJob == \A i, j \in UnsettledJobs :
                   jobs[i].component = jobs[j].component => i = j

\* While the worker lives, the table and the memory agree: an active job is
\* either in the queue, once, or the one the worker holds; so nothing is
\* forgotten, and nothing runs twice.
NothingForgotten ==
    worker.at \notin {"dead", "down"} => \A j \in JobIds :
        /\ jobs[j].status = "queued" =>
              /\ j # worker.job
              /\ j \in queued_ids
              /\ \E n \in DOMAIN queue : queue[n] = j
        /\ jobs[j].status = "running" => j = worker.job
        /\ \A m, n \in DOMAIN queue : queue[m] = j /\ queue[n] = j => m = n

\* A download never runs while a scan reads the Trivy database, and the lock
\* is never left behind by a worker that is not downloading.
DownloadAlone ==
    /\ process # "none" => mode[Maint] = "write" /\ ~Gate!Reading
    /\ mode[Maint] = "write" => worker.at \in {"spawn", "wait"}

\* A job that is completed, failed or cancelled stays so, also when its
\* download ends after the cancellation and when the server restarts.
TerminalIsFinal ==
    [][\A j \in JobIds : jobs[j].status \in TERMINAL => jobs'[j] = jobs[j]]_vars

\* The progress a client sees never falls while the job runs, whatever the
\* order in which the lines of the two pipes are read.
ProgressNeverFalls ==
    [][\A j \in JobIds : jobs[j].status = "running" /\ Up /\ worker'.at # "down"
          => jobs'[j].progress >= jobs[j].progress]_vars

\* Every job comes to an end, unless the worker has been lost to an exception.
JobsSettle ==
    \A j \in 1..MaxJobs :
        j \in UnsettledJobs
            ~> (worker.at = "dead" \/ j \in JobIds \ UnsettledJobs)

\* What the API table says of cancellation ("Cancel queued or running component
\* maintenance"): a job cancelled while it waits for the scans to leave the
\* database does not go on to download.
CancelledIsNotStarted ==
    [][worker.at = "lock" /\ worker'.at = "spawn"
          => jobs[worker.job].status # "cancelled"]_vars
===============================================================================
