------------------------ MODULE ComponentManager_proofs ------------------------
(***************************************************************************)
(* Proofs about component maintenance, for any components, scan workers    *)
(* and bounds: a component never has two active jobs, a job that the table *)
(* says is queued or running is queued in memory, once, or held by the     *)
(* worker, a download has the Trivy database to itself, an outcome is      *)
(* final, progress never falls, and everything keeps its type.             *)
(***************************************************************************)
EXTENDS ComponentManager, SequenceTheorems, TLAPS

\* The worker has a job where it is suspended in one, and only there; and that
\* job runs, or has been cancelled meanwhile.
WorkerHolds ==
    /\ worker.at \in Suspended =>
          /\ worker.job \in JobIds
          /\ jobs[worker.job].status \in {"running", "cancelled"}
    /\ worker.at \notin Suspended => worker.job = 0

QueueOfJobs == \A n \in DOMAIN queue : queue[n] \in JobIds

\* The lock is the worker's exactly where it downloads.
LockHeld == /\ mode[Maint] = "write" <=> worker.at \in {"spawn", "wait"}
            /\ mode[Maint] = "write" => ~Gate!Reading
            /\ process # "none" => worker.at = "wait"

ComponentInvariant == /\ TypeOK /\ OneActiveJob /\ NothingForgotten
                      /\ WorkerHolds /\ QueueOfJobs /\ LockHeld

(***************************************************************************)
(* Rows.                                                                   *)
(***************************************************************************)
LEMMA RowReplaced ==
    ASSUME jobs \in Seq(Job), NEW j \in JobIds, NEW row \in Job,
           jobs' = [jobs EXCEPT ![j] = row]
    PROVE  /\ jobs' \in Seq(Job) /\ Len(jobs') = Len(jobs)
           /\ jobs'[j] = row
           /\ \A k \in JobIds \ {j} : jobs'[k] = jobs[k]
  BY ExceptSeq DEF JobIds

LEMMA JobTyped ==
    ASSUME TypeOK, NEW j \in JobIds
    PROVE  /\ jobs[j] \in Job
           /\ Len(jobs) \in Nat /\ Len(jobs) <= MaxJobs /\ j \in 1..MaxJobs
  BY ElementOfSeq, LenProperties, ComponentAssumption DEF TypeOK, JobIds

LEMMA ProgressTyped ==
    ASSUME NEW job \in Job, NEW p \in 0..100
    PROVE  /\ Updated(job, p) \in Job
           /\ Updated(job, p).component = job.component
           /\ Updated(job, p).status = job.status
           /\ job.status = "cancelled" => Updated(job, p) = job
<1>1. Larger(job.progress, p) \in 0..100
  BY DEF Larger, Job
<1>2. [job EXCEPT !.progress = Larger(@, p)] \in Job
  BY <1>1 DEF Job
<1>3. QED
  BY <1>2 DEF Updated, Job

LEMMA EndTyped ==
    ASSUME NEW job \in Job, job.status \in {"running", "cancelled"}
    PROVE  /\ Completed(job) \in Job /\ Failed(job) \in Job
           /\ Completed(job).component = job.component
           /\ Failed(job).component = job.component
           /\ Completed(job).status \in TERMINAL
           /\ Failed(job).status \in TERMINAL
           /\ job.status = "cancelled" =>
                 Completed(job) = job /\ Failed(job) = job
<1>1. [job EXCEPT !.status = "completed", !.progress = 100] \in Job
  <2>1. PICK r \in Job : r = [job EXCEPT !.status = "completed"]
    BY DEF Job, TERMINAL
  <2>2. [r EXCEPT !.progress = 100] \in Job
    BY DEF Job
  <2>3. [job EXCEPT !.status = "completed", !.progress = 100]
            = [r EXCEPT !.progress = 100]
    BY <2>1 DEF Job
  <2>4. QED
    BY <2>2, <2>3
<1>2. [job EXCEPT !.status = "failed"] \in Job
  BY DEF Job, TERMINAL
<1>3. /\ [job EXCEPT !.status = "completed", !.progress = 100].component
              = job.component
      /\ [job EXCEPT !.status = "completed", !.progress = 100].status
              = "completed"
      /\ [job EXCEPT !.status = "failed"].component = job.component
      /\ [job EXCEPT !.status = "failed"].status = "failed"
  BY DEF Job
<1>4. CASE job.status = "cancelled"
  BY <1>4 DEF Completed, Failed, TERMINAL
<1>5. CASE job.status = "running"
  BY <1>1, <1>2, <1>3, <1>5 DEF Completed, Failed, TERMINAL
<1>6. QED
  BY <1>4, <1>5

(***************************************************************************)
(* A component keeps at most one active job when no job becomes active.    *)
(***************************************************************************)
LEMMA NoneActivated ==
    ASSUME TypeOK, OneActiveJob, Len(jobs') = Len(jobs),
           \A j \in JobIds : /\ jobs'[j].component = jobs[j].component
                             /\ jobs'[j].status \in Active =>
                                   jobs[j].status \in Active
    PROVE  OneActiveJob'
  BY DEF OneActiveJob, UnsettledJobs, JobIds

(***************************************************************************)
(* A row of the worker's job is written; the queue is left alone.  at and  *)
(* held say where the worker is then.                                      *)
(***************************************************************************)
LEMMA WorkerWrites ==
    ASSUME ComponentInvariant, worker.at \in Suspended,
           NEW row \in Job, jobs' = [jobs EXCEPT ![worker.job] = row],
           row.component = jobs[worker.job].component,
           \/ /\ worker' = [at |-> "idle", job |-> 0]
              /\ row.status \in TERMINAL
           \/ /\ \E at \in Suspended : worker' = [at |-> at, job |-> worker.job]
              /\ row.status = jobs[worker.job].status,
           UNCHANGED <<queue, queued_ids, halts, errors>>,
           process' \in {"none", "running", "terminated"},
           mode' \in [Gate!Tasks -> Gate!Modes],
           LockHeld'
    PROVE  ComponentInvariant'
<1> DEFINE j == worker.job
<1>1. /\ TypeOK /\ j \in JobIds /\ j # 0
      /\ jobs[j].status \in {"running", "cancelled"}
  BY DEF ComponentInvariant, WorkerHolds, JobIds
<1>2. /\ jobs' \in Seq(Job) /\ Len(jobs') = Len(jobs)
      /\ jobs'[j] = row /\ \A k \in JobIds \ {j} : jobs'[k] = jobs[k]
      /\ JobIds' = JobIds
  BY <1>1, RowReplaced DEF TypeOK, JobIds
<1>3. worker' \in Worker
  <2>1. 0 \in 0..MaxJobs /\ j \in 0..MaxJobs
    BY <1>1, JobTyped, ComponentAssumption
  <2>2. CASE worker' = [at |-> "idle", job |-> 0]
    BY <2>1, <2>2 DEF Worker
  <2>3. CASE \E at \in Suspended : worker' = [at |-> at, job |-> worker.job]
    BY <2>1, <2>3 DEF Worker
  <2>4. QED
    BY <2>2, <2>3
<1>4. TypeOK'
  BY <1>1, <1>2, <1>3 DEF TypeOK, Gate!TypeOK
<1>5. OneActiveJob'
  <2>1. \A k \in JobIds : /\ jobs'[k].component = jobs[k].component
                          /\ jobs'[k].status \in Active =>
                                jobs[k].status \in Active
    BY <1>1, <1>2 DEF Active, TERMINAL
  <2>2. QED
    BY <1>1, <1>2, <2>1, NoneActivated DEF ComponentInvariant
<1>6. WorkerHolds' /\ QueueOfJobs'
  BY <1>1, <1>2 DEF ComponentInvariant, WorkerHolds, QueueOfJobs, Suspended
<1>7. NothingForgotten'
  <2>1. worker.at \notin {"dead", "down"}
    BY DEF Suspended
  <2>2. ASSUME NEW k \in JobIds
        PROVE  /\ jobs'[k].status = "queued" =>
                     /\ k # worker'.job
                     /\ k \in queued_ids
                     /\ \E n \in DOMAIN queue : queue[n] = k
               /\ jobs'[k].status = "running" => k = worker'.job
    <3>1. CASE k = j
      BY <1>1, <1>2, <3>1 DEF TERMINAL
    <3>2. CASE k # j
      BY <1>1, <1>2, <2>1, <3>2 DEF ComponentInvariant, NothingForgotten, JobIds
    <3>3. QED
      BY <3>1, <3>2
  <2>3. QED
    BY <1>2, <2>1, <2>2 DEF ComponentInvariant, NothingForgotten
<1>8. QED
  BY <1>4, <1>5, <1>6, <1>7 DEF ComponentInvariant

(***************************************************************************)
(* The worker takes the head of the queue: nothing else leaves it.         *)
(***************************************************************************)
LEMMA Dequeued ==
    ASSUME ComponentInvariant, Dequeue
    PROVE  /\ Head(queue) \in JobIds
           /\ queue' \in Seq(1..MaxJobs) /\ queued_ids' \subseteq 1..MaxJobs
           /\ \A n \in DOMAIN queue' : queue'[n] \in JobIds \ {Head(queue)}
           /\ \A k \in JobIds :
                 /\ \A m, n \in DOMAIN queue' :
                       queue'[m] = k /\ queue'[n] = k => m = n
                 /\ k # Head(queue) =>
                       /\ k \in queued_ids => k \in queued_ids'
                       /\ (\E n \in DOMAIN queue : queue[n] = k) =>
                             \E n \in DOMAIN queue' : queue'[n] = k
<1> DEFINE h == Head(queue)
<1>1. /\ queue \in Seq(1..MaxJobs) /\ queue # <<>> /\ queue' = Tail(queue)
      /\ queued_ids \subseteq 1..MaxJobs
      /\ queued_ids' = queued_ids \ {h}
      /\ worker.at = "idle"
  BY DEF Dequeue, ComponentInvariant, TypeOK
<1>2. /\ Len(queue) \in Nat \ {0} /\ DOMAIN queue = 1..Len(queue)
      /\ h = queue[1]
  BY <1>1, LenProperties, EmptySeq
<1>3. /\ queue' \in Seq(1..MaxJobs) /\ Len(queue') = Len(queue) - 1
      /\ \A i \in 1..Len(queue') : queue'[i] = queue[i + 1]
  BY <1>1, HeadTailProperties
<1>4. DOMAIN queue' = 1..Len(queue')
  BY <1>3, LenProperties
<1>5. \A n \in DOMAIN queue' : n + 1 \in DOMAIN queue /\ n \in Nat \ {0}
                               /\ queue'[n] = queue[n + 1]
  BY <1>2, <1>3, <1>4
<1>6. \A k \in JobIds : \A m, n \in DOMAIN queue :
          queue[m] = k /\ queue[n] = k => m = n
  BY <1>1 DEF ComponentInvariant, NothingForgotten
<1>7. h \in JobIds
  BY <1>2 DEF ComponentInvariant, QueueOfJobs
<1>8. \A n \in DOMAIN queue' : queue'[n] \in JobIds \ {h}
  <2>1. TAKE n \in DOMAIN queue'
  <2>2. queue[n + 1] \in JobIds /\ queue'[n] = queue[n + 1]
    BY <1>5 DEF ComponentInvariant, QueueOfJobs
  <2>3. queue[n + 1] # h
    BY <1>2, <1>5, <1>6, <1>7
  <2>4. QED
    BY <2>2, <2>3
<1>9. ASSUME NEW k \in JobIds
      PROVE  \A m, n \in DOMAIN queue' :
                queue'[m] = k /\ queue'[n] = k => m = n
  BY <1>5, <1>6
<1>10. ASSUME NEW k \in JobIds, k # h, NEW n \in DOMAIN queue, queue[n] = k
       PROVE  \E m \in DOMAIN queue' : queue'[m] = k
  <2>1. n # 1 /\ n - 1 \in DOMAIN queue'
    BY <1>2, <1>3, <1>4, <1>10
  <2>2. queue'[n - 1] = k
    BY <1>2, <1>3, <1>4, <1>10, <2>1
  <2>3. QED
    BY <2>1, <2>2
<1>11. QED
  BY <1>1, <1>3, <1>7, <1>8, <1>9, <1>10

(***************************************************************************)
(* The worker dequeues a queued job and runs it.                           *)
(***************************************************************************)
LEMMA JobTaken ==
    ASSUME ComponentInvariant, Dequeue, jobs[Head(queue)].status = "queued",
           NEW row \in Job, jobs' = [jobs EXCEPT ![Head(queue)] = row],
           row.component = jobs[Head(queue)].component,
           row.status = "running",
           NEW at \in Suspended, worker' = [at |-> at, job |-> Head(queue)],
           UNCHANGED <<process, halts, errors>>,
           mode' \in [Gate!Tasks -> Gate!Modes],
           LockHeld'
    PROVE  ComponentInvariant'
<1> DEFINE h == Head(queue)
<1>1. TypeOK /\ h \in JobIds /\ worker.at = "idle"
  BY Dequeued DEF ComponentInvariant, Dequeue
<1>2. /\ jobs' \in Seq(Job) /\ Len(jobs') = Len(jobs)
      /\ jobs'[h] = row /\ \A k \in JobIds \ {h} : jobs'[k] = jobs[k]
      /\ JobIds' = JobIds
  BY <1>1, RowReplaced DEF TypeOK, JobIds
<1>3. worker' \in Worker
  BY <1>1, JobTyped, ComponentAssumption DEF Worker
<1>4. TypeOK'
  BY <1>1, <1>2, <1>3, Dequeued DEF TypeOK, Gate!TypeOK
<1>5. OneActiveJob'
  <2>1. \A k \in JobIds : /\ jobs'[k].component = jobs[k].component
                          /\ jobs'[k].status \in Active =>
                                jobs[k].status \in Active
    BY <1>1, <1>2 DEF Active
  <2>2. QED
    BY <1>1, <1>2, <2>1, NoneActivated DEF ComponentInvariant
<1>6. WorkerHolds' /\ QueueOfJobs'
  BY <1>1, <1>2, Dequeued DEF WorkerHolds, QueueOfJobs
<1>7. NothingForgotten'
  <2>1. ASSUME NEW k \in JobIds
        PROVE  /\ jobs'[k].status = "queued" =>
                     /\ k # worker'.job
                     /\ k \in queued_ids'
                     /\ \E n \in DOMAIN queue' : queue'[n] = k
               /\ jobs'[k].status = "running" => k = worker'.job
    <3>1. CASE k = h
      BY <1>1, <1>2, <3>1
    <3>2. CASE k # h
      <4>1. jobs[k].status = "running" => k = worker.job
        BY <1>1 DEF ComponentInvariant, NothingForgotten
      <4>2. worker.job = 0 /\ k # 0
        BY <1>1 DEF ComponentInvariant, WorkerHolds, Suspended, JobIds
      <4>3. QED
        BY <1>1, <1>2, <3>2, <4>1, <4>2, Dequeued
        DEF ComponentInvariant, NothingForgotten
    <3>3. QED
      BY <3>1, <3>2
  <2>2. QED
    BY <1>2, <2>1, Dequeued DEF NothingForgotten
<1>8. QED
  BY <1>4, <1>5, <1>6, <1>7 DEF ComponentInvariant

(***************************************************************************)
(* Requests and cancellations.                                             *)
(***************************************************************************)
LEMMA RequestKeeps ==
    ASSUME ComponentInvariant, NEW c \in Components, NEW a \in Actions,
           Request(c, a)
    PROVE  ComponentInvariant'
<1> DEFINE id == Len(jobs) + 1
           row == [component |-> c, action |-> a,
                   status |-> "queued", progress |-> 0]
<1>1. /\ TypeOK /\ ActiveFor(c) = {} /\ Len(jobs) < MaxJobs
      /\ jobs' = Append(jobs, row) /\ queue' = Append(queue, id)
      /\ queued_ids' = queued_ids \cup {id}
      /\ UNCHANGED <<worker, process, mode, halts, errors>>
  BY DEF ComponentInvariant, Request
<1>2. row \in Job
  BY DEF Job, Active
<1>3. row.component = c /\ row.status = "queued"
  OBVIOUS
<1> HIDE DEF row
<1>4. /\ jobs \in Seq(Job) /\ Len(jobs) \in Nat
      /\ jobs' \in Seq(Job) /\ Len(jobs') = id /\ jobs'[id] = row
      /\ \A k \in JobIds : jobs'[k] = jobs[k]
  BY <1>1, <1>2, AppendProperties, LenProperties DEF TypeOK, JobIds
<1>5. id \in 1..MaxJobs /\ id \notin JobIds /\ JobIds' = JobIds \cup {id}
  BY <1>1, <1>4, ComponentAssumption DEF JobIds
<1>6. /\ queue \in Seq(1..MaxJobs) /\ Len(queue) \in Nat
      /\ queue' \in Seq(1..MaxJobs) /\ Len(queue') = Len(queue) + 1
      /\ queue'[Len(queue) + 1] = id
      /\ \A n \in 1..Len(queue) : queue'[n] = queue[n]
  BY <1>1, <1>5, AppendProperties, LenProperties DEF TypeOK
<1>7. DOMAIN queue = 1..Len(queue) /\ DOMAIN queue' = 1..Len(queue')
  BY <1>6, LenProperties
<1>8. TypeOK'
  <2>1. Len(jobs') <= MaxJobs
    BY <1>4, <1>5, ComponentAssumption
  <2>2. queued_ids' \subseteq 1..MaxJobs
    BY <1>1, <1>5 DEF TypeOK
  <2>3. QED
    BY <1>1, <1>4, <1>6, <2>1, <2>2 DEF TypeOK, Gate!TypeOK
<1>9. OneActiveJob'
  <2>1. \A k \in JobIds : k \in UnsettledJobs => jobs[k].component # c
    BY <1>1 DEF ActiveFor
  <2>2. \A k \in JobIds : k \in UnsettledJobs' => k \in UnsettledJobs
    BY <1>4 DEF UnsettledJobs
  <2>3. SUFFICES ASSUME NEW i \in UnsettledJobs', NEW k \in UnsettledJobs',
                        jobs'[i].component = jobs'[k].component
                 PROVE  i = k
    BY DEF OneActiveJob
  <2>4. i \in JobIds \cup {id} /\ k \in JobIds \cup {id}
    BY <1>5 DEF UnsettledJobs
  <2>5. CASE i = id /\ k = id
    BY <2>5
  <2>6. CASE i \in JobIds /\ k \in JobIds
    BY <1>4, <2>2, <2>3, <2>6 DEF ComponentInvariant, OneActiveJob
  <2>7. CASE i = id /\ k \in JobIds
    BY <1>3, <1>4, <2>1, <2>2, <2>3, <2>7
  <2>8. CASE i \in JobIds /\ k = id
    BY <1>3, <1>4, <2>1, <2>2, <2>3, <2>8
  <2>9. QED
    BY <2>4, <2>5, <2>6, <2>7, <2>8
<1>10. WorkerHolds'
  BY <1>1, <1>4, <1>5 DEF ComponentInvariant, WorkerHolds
<1>11. QueueOfJobs'
  <2>1. SUFFICES ASSUME NEW n \in DOMAIN queue'
                 PROVE  queue'[n] \in JobIds'
    BY DEF QueueOfJobs
  <2>2. CASE n \in DOMAIN queue
    BY <1>5, <1>6, <1>7, <2>2 DEF ComponentInvariant, QueueOfJobs
  <2>3. CASE n = Len(queue) + 1
    BY <1>5, <1>6, <2>3
  <2>4. QED
    BY <1>6, <1>7, <2>2, <2>3
<1>12. NothingForgotten'
  <2>1. ASSUME worker.at \notin {"dead", "down"}, NEW k \in JobIds
        PROVE  /\ jobs'[k].status = "queued" =>
                     /\ k # worker'.job
                     /\ k \in queued_ids'
                     /\ \E n \in DOMAIN queue' : queue'[n] = k
               /\ jobs'[k].status = "running" => k = worker'.job
               /\ \A m, n \in DOMAIN queue' :
                     queue'[m] = k /\ queue'[n] = k => m = n
    <3>1. jobs'[k] = jobs[k] /\ k # id /\ worker' = worker
      BY <1>1, <1>4, <1>5, <2>1
    <3>2. \A n \in DOMAIN queue : n \in DOMAIN queue'
                                 /\ queue'[n] = queue[n]
      BY <1>6, <1>7
    <3>3. \A n \in DOMAIN queue' : queue'[n] = k => n \in DOMAIN queue
      BY <1>6, <1>7, <3>1
    <3>4. QED
      BY <1>1, <2>1, <3>1, <3>2, <3>3 DEF ComponentInvariant, NothingForgotten
  <2>2. /\ jobs'[id].status = "queued" /\ id # worker'.job
        /\ id \in queued_ids'
        /\ \E n \in DOMAIN queue' : queue'[n] = id
    <3>1. worker.job # id
      BY <1>5, <1>4 DEF ComponentInvariant, WorkerHolds, JobIds
    <3>2. QED
      BY <1>1, <1>3, <1>4, <1>6, <1>7, <3>1
  <2>3. \A m, n \in DOMAIN queue' : queue'[m] = id /\ queue'[n] = id => m = n
    <3>1. \A n \in DOMAIN queue' : queue'[n] = id => n = Len(queue) + 1
      BY <1>5, <1>6, <1>7 DEF ComponentInvariant, QueueOfJobs
    <3>2. QED
      BY <3>1
  <2>4. worker'.at = worker.at /\ \A k \in JobIds' : k \in JobIds \/ k = id
    BY <1>1, <1>5
  <2>5. jobs'[id].status # "running"
    BY <2>2
  <2>6. QED
    BY <2>1, <2>2, <2>3, <2>4, <2>5 DEF NothingForgotten
<1>13. LockHeld'
  BY <1>1 DEF ComponentInvariant, LockHeld, Gate!Reading
<1>14. QED
  BY <1>8, <1>9, <1>10, <1>11, <1>12, <1>13 DEF ComponentInvariant

LEMMA CancelKeeps ==
    ASSUME ComponentInvariant, NEW j \in JobIds, Cancel(j)
    PROVE  ComponentInvariant'
<1> DEFINE row == [jobs[j] EXCEPT !.status = "cancelled"]
<1>1. /\ TypeOK /\ jobs[j].status \notin TERMINAL
      /\ process' = IF worker.job = j /\ process = "running" THEN "terminated"
                    ELSE process
      /\ queued_ids' = queued_ids \ {j}
      /\ UNCHANGED <<queue, worker, mode, halts, errors>>
  BY DEF ComponentInvariant, Cancel
<1>2. row \in Job /\ row.component = jobs[j].component
      /\ row.status = "cancelled"
  <2>1. jobs[j] \in Job
    BY <1>1, JobTyped
  <2>2. QED
    BY <2>1 DEF Job, TERMINAL
<1>3. jobs' = [jobs EXCEPT ![j] = row]
  BY DEF Cancel
<1> HIDE DEF row
<1>4. /\ jobs' \in Seq(Job) /\ Len(jobs') = Len(jobs) /\ jobs'[j] = row
      /\ \A k \in JobIds \ {j} : jobs'[k] = jobs[k]
      /\ JobIds' = JobIds
  BY <1>1, <1>2, <1>3, RowReplaced DEF TypeOK, JobIds
<1>5. TypeOK'
  BY <1>1, <1>4 DEF TypeOK, Gate!TypeOK
<1>6. OneActiveJob'
  <2>1. \A k \in JobIds : /\ jobs'[k].component = jobs[k].component
                          /\ jobs'[k].status \in Active =>
                                jobs[k].status \in Active
    BY <1>2, <1>4 DEF Active
  <2>2. QED
    BY <1>1, <1>4, <2>1, NoneActivated DEF ComponentInvariant
<1>7. WorkerHolds' /\ QueueOfJobs'
  BY <1>1, <1>2, <1>4 DEF ComponentInvariant, WorkerHolds, QueueOfJobs
<1>8. NothingForgotten'
  BY <1>1, <1>2, <1>4 DEF ComponentInvariant, NothingForgotten
<1>9. LockHeld'
  BY <1>1 DEF ComponentInvariant, LockHeld, Gate!Reading
<1>10. QED
  BY <1>5, <1>6, <1>7, <1>8, <1>9 DEF ComponentInvariant

(***************************************************************************)
(* The worker takes a job.                                                 *)
(***************************************************************************)
LEMMA SkipKeeps ==
    ASSUME ComponentInvariant, Skip
    PROVE  ComponentInvariant'
<1>1. /\ Dequeue /\ TypeOK /\ jobs[Head(queue)].status # "queued"
      /\ UNCHANGED <<jobs, worker, process, mode, halts, errors>>
      /\ JobIds' = JobIds
  BY DEF Skip, ComponentInvariant, JobIds
<1>2. TypeOK'
  BY <1>1, Dequeued DEF TypeOK, Gate!TypeOK
<1>3. OneActiveJob' /\ WorkerHolds' /\ QueueOfJobs'
  BY <1>1, Dequeued
  DEF ComponentInvariant, OneActiveJob, UnsettledJobs, WorkerHolds, QueueOfJobs
<1>4. NothingForgotten'
  BY <1>1, Dequeued DEF ComponentInvariant, NothingForgotten
<1>5. LockHeld'
  BY <1>1 DEF ComponentInvariant, LockHeld, Gate!Reading
<1>6. QED
  BY <1>2, <1>3, <1>4, <1>5 DEF ComponentInvariant

LEMMA RunRaisesKeeps ==
    ASSUME ComponentInvariant, RunRaises
    PROVE  ComponentInvariant'
<1>1. /\ Dequeue /\ TypeOK /\ errors < MaxErrors /\ errors' = errors + 1
      /\ worker.at = "idle" /\ worker' = [at |-> "dead", job |-> 0]
      /\ UNCHANGED <<jobs, process, mode, halts>>
      /\ JobIds' = JobIds
  BY DEF RunRaises, ComponentInvariant, JobIds, Dequeue, Become, Suspend
<1>2. worker' \in Worker
  BY <1>1, ComponentAssumption DEF Worker
<1>3. errors' \in 0..MaxErrors
  BY <1>1, ComponentAssumption DEF TypeOK
<1>4. TypeOK'
  BY <1>1, <1>2, <1>3, Dequeued DEF TypeOK, Gate!TypeOK
<1>5. OneActiveJob' /\ WorkerHolds' /\ QueueOfJobs' /\ NothingForgotten'
  BY <1>1, Dequeued
  DEF ComponentInvariant, OneActiveJob, UnsettledJobs, WorkerHolds,
      QueueOfJobs, NothingForgotten, Suspended
<1>6. LockHeld'
  BY <1>1 DEF ComponentInvariant, LockHeld, Gate!Reading
<1>7. QED
  BY <1>4, <1>5, <1>6 DEF ComponentInvariant

LEMMA RunTyped ==
    ASSUME NEW job \in Job, NEW p \in 0..100
    PROVE  /\ [job EXCEPT !.status = "running", !.progress = p] \in Job
           /\ [job EXCEPT !.status = "running", !.progress = p].component
                  = job.component
           /\ [job EXCEPT !.status = "running", !.progress = p].status
                  = "running"
<1>1. PICK r \in Job : r = [job EXCEPT !.status = "running"]
  BY DEF Job, Active
<1>2. [r EXCEPT !.progress = p] \in Job
  BY DEF Job
<1>3. [job EXCEPT !.status = "running", !.progress = p]
          = [r EXCEPT !.progress = p]
  BY <1>1 DEF Job
<1>4. QED
  BY <1>1, <1>2, <1>3 DEF Job

LEMMA RunCheckKeeps ==
    ASSUME ComponentInvariant, RunCheck
    PROVE  ComponentInvariant'
<1> DEFINE h == Head(queue)
           row == [jobs[h] EXCEPT !.status = "running", !.progress = 65]
<1>1. /\ Dequeue /\ jobs[h].status = "queued"
      /\ jobs' = [jobs EXCEPT ![h] = row]
      /\ worker' = [at |-> "registry", job |-> h]
      /\ UNCHANGED <<process, mode, halts, errors>>
  BY DEF RunCheck, Suspend
<1>2. /\ h \in JobIds /\ jobs[h] \in Job /\ TypeOK /\ worker.at = "idle"
  BY <1>1, Dequeued, JobTyped DEF ComponentInvariant, Dequeue
<1>3. /\ row \in Job /\ row.component = jobs[h].component
      /\ row.status = "running"
  <2>1. 65 \in 0..100
    OBVIOUS
  <2>2. QED
    BY <1>2, <2>1, RunTyped
<1> HIDE DEF row
<1>4. LockHeld'
  BY <1>1, <1>2 DEF ComponentInvariant, LockHeld, Gate!Reading
<1>5. mode' \in [Gate!Tasks -> Gate!Modes] /\ "registry" \in Suspended
  BY <1>1, <1>2 DEF TypeOK, Gate!TypeOK, Suspended
<1>6. QED
  BY <1>1, <1>3, <1>4, <1>5, JobTaken

LEMMA RunDownloadKeeps ==
    ASSUME ComponentInvariant, RunDownload
    PROVE  ComponentInvariant'
<1> DEFINE h == Head(queue)
<1>1. PICK p \in {12, 20}, at \in {"spawn", "lock"} :
          /\ Dequeue /\ jobs[h].status = "queued"
          /\ jobs' = [jobs EXCEPT ![h] =
                        [@ EXCEPT !.status = "running", !.progress = p]]
          /\ worker' = [at |-> at, job |-> h]
          /\ UNCHANGED <<process, halts, errors>>
          /\ at = "spawn" => ~Gate!Reading /\ Gate!GrantWrite(Maint)
          /\ at = "lock" => Gate!Ask(Maint)
  BY DEF RunDownload, Suspend
<1> DEFINE row == [jobs[h] EXCEPT !.status = "running", !.progress = p]
<1>2. /\ h \in JobIds /\ jobs[h] \in Job /\ TypeOK /\ worker.at = "idle"
  BY <1>1, Dequeued, JobTyped DEF ComponentInvariant, Dequeue
<1>3. /\ row \in Job /\ row.component = jobs[h].component
      /\ row.status = "running" /\ jobs' = [jobs EXCEPT ![h] = row]
  <2>1. p \in 0..100
    OBVIOUS
  <2>2. jobs' = [jobs EXCEPT ![h] = row]
    BY <1>1
  <2>3. QED
    BY <1>2, <2>1, <2>2, RunTyped
<1> HIDE DEF row
<1>4. /\ mode \in [Gate!Tasks -> Gate!Modes] /\ Maint \in Gate!Tasks
      /\ Maint \notin Scans /\ process = "none" /\ mode[Maint] # "write"
  BY <1>2, ComponentAssumption
  DEF TypeOK, Gate!TypeOK, Gate!Tasks, ComponentInvariant, LockHeld
<1>5. /\ mode' \in [Gate!Tasks -> Gate!Modes]
      /\ at = "spawn" => mode'[Maint] = "write" /\ ~Gate!Reading'
      /\ at = "lock" => mode'[Maint] # "write"
  BY <1>1, <1>4
  DEF Gate!GrantWrite, Gate!Ask, Gate!Becomes, Gate!Modes, Gate!Reading
<1>6. LockHeld' /\ at \in Suspended
  BY <1>1, <1>4, <1>5 DEF LockHeld, Suspended
<1>7. QED
  BY <1>1, <1>3, <1>5, <1>6, JobTaken

(***************************************************************************)
(* The worker goes on with its job, and ends it.                           *)
(***************************************************************************)
LEMMA HeldTyped ==
    ASSUME ComponentInvariant, worker.at \in Suspended
    PROVE  /\ worker.job \in JobIds /\ jobs[worker.job] \in Job
           /\ jobs[worker.job].status \in {"running", "cancelled"}
           /\ mode \in [Gate!Tasks -> Gate!Modes]
           /\ Maint \in Gate!Tasks /\ Maint \notin Scans
           /\ worker \in Worker /\ jobs \in Seq(Job)
           /\ process \in {"none", "running", "terminated"}
  BY JobTyped, ComponentAssumption
  DEF ComponentInvariant, WorkerHolds, TypeOK, Gate!TypeOK, Gate!Tasks

LEMMA EnterLockKeeps ==
    ASSUME ComponentInvariant, EnterLock
    PROVE  ComponentInvariant'
<1> DEFINE row == Updated(jobs[worker.job], 20)
<1>1. /\ worker.at = "lock" /\ worker.at \in Suspended
      /\ Gate!GrantWrite(Maint)
      /\ jobs' = [jobs EXCEPT ![worker.job] = row]
      /\ worker' = [worker EXCEPT !.at = "spawn"]
      /\ UNCHANGED <<queue, queued_ids, process, halts, errors>>
  BY DEF EnterLock, Suspended
<1>2. /\ row \in Job /\ row.component = jobs[worker.job].component
      /\ row.status = jobs[worker.job].status
  <2>1. 20 \in 0..100 /\ jobs[worker.job] \in Job
    BY <1>1, HeldTyped
  <2>2. QED
    BY <2>1, ProgressTyped
<1> HIDE DEF row
<1>3. worker' = [at |-> "spawn", job |-> worker.job]
  BY <1>1, HeldTyped DEF Worker
<1>4. /\ mode' \in [Gate!Tasks -> Gate!Modes]
      /\ mode'[Maint] = "write" /\ ~Gate!Reading'
  BY <1>1, HeldTyped
  DEF Gate!GrantWrite, Gate!Becomes, Gate!Modes, Gate!Reading
<1>5. process = "none"
  BY <1>1 DEF ComponentInvariant, LockHeld
<1>6. LockHeld'
  BY <1>1, <1>3, <1>4, <1>5 DEF LockHeld
<1>7. "spawn" \in Suspended
  BY DEF Suspended
<1>8. QED
  BY <1>1, <1>2, <1>3, <1>4, <1>5, <1>6, <1>7, WorkerWrites

LEMMA SpawnedKeeps ==
    ASSUME ComponentInvariant, Spawned
    PROVE  ComponentInvariant'
<1>1. /\ worker.at = "spawn" /\ worker.at \in Suspended
      /\ process' = "running"
      /\ worker' = [worker EXCEPT !.at = "wait"]
      /\ UNCHANGED <<jobs, queue, queued_ids, mode, halts, errors>>
  BY DEF Spawned, Suspended
<1>2. /\ jobs' = [jobs EXCEPT ![worker.job] = jobs[worker.job]]
      /\ jobs[worker.job] \in Job
  BY <1>1, HeldTyped, LenProperties
<1>3. worker' = [at |-> "wait", job |-> worker.job] /\ "wait" \in Suspended
  BY <1>1, HeldTyped DEF Worker, Suspended
<1>4. LockHeld' /\ mode' \in [Gate!Tasks -> Gate!Modes]
  BY <1>1, <1>3, HeldTyped DEF ComponentInvariant, LockHeld, Gate!Reading
<1>5. QED
  BY <1>1, <1>2, <1>3, <1>4, WorkerWrites

LEMMA ConsumeKeeps ==
    ASSUME ComponentInvariant, NEW p \in 0..100, Consume(p)
    PROVE  ComponentInvariant'
<1> DEFINE row == Updated(jobs[worker.job], p)
<1>1. /\ worker.at = "wait" /\ worker.at \in Suspended
      /\ jobs' = [jobs EXCEPT ![worker.job] = row]
      /\ UNCHANGED <<queue, queued_ids, worker, process, mode, halts, errors>>
  BY DEF Consume, Suspended
<1>2. /\ row \in Job /\ row.component = jobs[worker.job].component
      /\ row.status = jobs[worker.job].status
  BY <1>1, HeldTyped, ProgressTyped
<1> HIDE DEF row
<1>3. worker' = [at |-> "wait", job |-> worker.job] /\ "wait" \in Suspended
  BY <1>1, HeldTyped DEF Worker, Suspended
<1>4. LockHeld' /\ mode' \in [Gate!Tasks -> Gate!Modes]
      /\ process' \in {"none", "running", "terminated"}
  BY <1>1, HeldTyped DEF ComponentInvariant, LockHeld, Gate!Reading
<1>5. QED
  BY <1>1, <1>2, <1>3, <1>4, WorkerWrites

LEMMA ReleaseFrees ==
    ASSUME ComponentInvariant, worker.at \in Suspended, Release
    PROVE  /\ mode' \in [Gate!Tasks -> Gate!Modes]
           /\ mode'[Maint] = "idle" /\ process' = "none"
<1>1. "idle" \in Gate!Modes
  BY DEF Gate!Modes
<1>2. QED
  BY <1>1, HeldTyped DEF Release

LEMMA EndKeeps ==
    ASSUME ComponentInvariant, worker.at \in Suspended, NEW row \in Job,
           row.component = jobs[worker.job].component,
           row.status \in TERMINAL, EndWith(row)
    PROVE  ComponentInvariant'
<1>1. /\ jobs' = [jobs EXCEPT ![worker.job] = row] /\ Release
      /\ worker' = [at |-> "idle", job |-> 0]
      /\ UNCHANGED <<queue, queued_ids, halts, errors>>
  BY DEF EndWith, Become, Suspend
<1>2. /\ mode' \in [Gate!Tasks -> Gate!Modes]
      /\ mode'[Maint] = "idle" /\ process' = "none"
  BY <1>1, ReleaseFrees
<1>3. LockHeld'
  BY <1>1, <1>2 DEF LockHeld
<1>4. QED
  BY <1>1, <1>2, <1>3, WorkerWrites

\* The rows a job may end with.
EndsOf(job) == {Completed(job), Failed(job), Completed(Updated(job, 90))}

LEMMA EndsTyped ==
    ASSUME NEW job \in Job, job.status \in {"running", "cancelled"},
           NEW row \in EndsOf(job)
    PROVE  /\ row \in Job /\ row.component = job.component
           /\ row.status \in TERMINAL
           /\ job.status = "cancelled" => row = job
<1>1. /\ Updated(job, 90) \in Job
      /\ Updated(job, 90).component = job.component
      /\ Updated(job, 90).status = job.status
      /\ job.status = "cancelled" => Updated(job, 90) = job
  BY ProgressTyped
<1>2. QED
  BY <1>1, EndTyped DEF EndsOf

\* The worker leaves a job through one of three actions.
LEMMA Ends ==
    ASSUME RegistryAnswers \/ SpawnFails \/ DownloadSucceeds \/ DownloadFails
    PROVE  /\ worker.at \in Suspended
           /\ \E row \in EndsOf(jobs[worker.job]) : EndWith(row)
  BY DEF RegistryAnswers, SpawnFails, DownloadSucceeds, DownloadFails,
         Suspended, EndsOf

LEMMA EndsKeep ==
    ASSUME ComponentInvariant,
           RegistryAnswers \/ SpawnFails \/ DownloadSucceeds \/ DownloadFails
    PROVE  ComponentInvariant'
<1>1. PICK row \in EndsOf(jobs[worker.job]) : EndWith(row)
  BY Ends
<1>2. worker.at \in Suspended
  BY Ends
<1>3. QED
  BY <1>1, <1>2, HeldTyped, EndsTyped, EndKeeps

LEMMA FailRaisesKeeps ==
    ASSUME ComponentInvariant, FailRaises
    PROVE  ComponentInvariant'
<1>1. /\ TypeOK /\ errors < MaxErrors /\ errors' = errors + 1 /\ Release
      /\ worker.at \in Suspended /\ worker' = [at |-> "dead", job |-> 0]
      /\ UNCHANGED <<jobs, queue, queued_ids, halts>>
  BY DEF FailRaises, ComponentInvariant, Become, Suspend, Suspended
<1>2. /\ mode' \in [Gate!Tasks -> Gate!Modes]
      /\ mode'[Maint] = "idle" /\ process' = "none"
  BY <1>1, ReleaseFrees
<1>3. worker' \in Worker
  BY <1>1, ComponentAssumption DEF Worker
<1>4. errors' \in 0..MaxErrors
  BY <1>1, ComponentAssumption DEF TypeOK
<1>5. TypeOK'
  BY <1>1, <1>2, <1>3, <1>4 DEF TypeOK, Gate!TypeOK
<1>6. OneActiveJob' /\ WorkerHolds' /\ QueueOfJobs' /\ NothingForgotten'
  BY <1>1
  DEF ComponentInvariant, OneActiveJob, UnsettledJobs, JobIds, WorkerHolds,
      QueueOfJobs, NothingForgotten, Suspended
<1>7. LockHeld'
  BY <1>1, <1>2 DEF LockHeld
<1>8. QED
  BY <1>5, <1>6, <1>7 DEF ComponentInvariant

(***************************************************************************)
(* The server stops and starts; scans use the lock.                        *)
(***************************************************************************)
LEMMA StopKeeps ==
    ASSUME ComponentInvariant, Stop
    PROVE  ComponentInvariant'
<1>1. /\ TypeOK /\ halts < MaxHalts /\ halts' = halts + 1
      /\ worker' = [at |-> "down", job |-> 0] /\ process' = "none"
      /\ queue' = <<>> /\ queued_ids' = {}
      /\ mode' = [t \in Gate!Tasks |-> "idle"]
      /\ UNCHANGED <<jobs, errors>>
  BY DEF Stop, ComponentInvariant, Become, Suspend
<1>2. mode' \in [Gate!Tasks -> Gate!Modes] /\ mode'[Maint] = "idle"
  BY <1>1 DEF Gate!Modes, Gate!Tasks
<1>3. worker' \in Worker
  BY <1>1, ComponentAssumption DEF Worker
<1>4. halts' \in 0..MaxHalts
  BY <1>1, ComponentAssumption DEF TypeOK
<1>5. queue' \in Seq(1..MaxJobs) /\ DOMAIN queue' = {}
  BY <1>1, EmptySeq
<1>6. TypeOK'
  BY <1>1, <1>2, <1>3, <1>4, <1>5 DEF TypeOK, Gate!TypeOK
<1>7. OneActiveJob' /\ WorkerHolds' /\ QueueOfJobs' /\ NothingForgotten'
  BY <1>1, <1>5
  DEF ComponentInvariant, OneActiveJob, UnsettledJobs, JobIds, WorkerHolds,
      QueueOfJobs, NothingForgotten, Suspended
<1>8. LockHeld'
  BY <1>1, <1>2 DEF LockHeld
<1>9. QED
  BY <1>6, <1>7, <1>8 DEF ComponentInvariant

LEMMA SameLength ==
    ASSUME NEW m \in Nat, NEW n \in Nat, 1..m = 1..n
    PROVE  m = n
  OBVIOUS

LEMMA RequeuedTyped ==
    ASSUME NEW job \in Job
    PROVE  /\ [job EXCEPT !.status = "queued", !.progress = 0] \in Job
           /\ [job EXCEPT !.status = "queued", !.progress = 0].component
                  = job.component
           /\ [job EXCEPT !.status = "queued", !.progress = 0].status
                  = "queued"
<1>1. PICK r \in Job : r = [job EXCEPT !.status = "queued"]
  BY DEF Job, Active
<1>2. [r EXCEPT !.progress = 0] \in Job
  BY DEF Job
<1>3. [job EXCEPT !.status = "queued", !.progress = 0]
          = [r EXCEPT !.progress = 0]
  BY <1>1 DEF Job
<1>4. QED
  BY <1>1, <1>2, <1>3 DEF Job

LEMMA StartKeeps ==
    ASSUME ComponentInvariant, Start
    PROVE  ComponentInvariant'
<1>1. /\ TypeOK /\ worker' = [at |-> "idle", job |-> 0]
      /\ worker.at = "down" /\ queued_ids' = ToSet(queue')
      /\ UNCHANGED <<process, mode, halts, errors>>
  BY DEF Start, ComponentInvariant, Become, Suspend, Up
<1>2. /\ queue' \in BoundedSeq(JobIds, Len(jobs)) /\ ToSet(queue') = ToRecover
      /\ \A m, n \in DOMAIN queue' : m < n => queue'[m] < queue'[n]
  BY DEF Start, Recovers
<1>3. /\ jobs \in Seq(Job) /\ Len(jobs) \in Nat /\ Len(jobs) <= MaxJobs
      /\ \A j \in JobIds : jobs[j] \in Job /\ j \in 1..MaxJobs
  BY <1>1, JobTyped, LenProperties DEF TypeOK
<1>4. PICK m \in 0..Len(jobs) : queue' \in [1..m -> JobIds]
  BY <1>2 DEF BoundedSeq, SeqOf
<1>5. /\ DOMAIN queue' = 1..m /\ queue' \in Seq(1..MaxJobs)
      /\ \A n \in DOMAIN queue' : queue'[n] \in JobIds /\ n \in Nat
                                  /\ queue'[n] \in Nat
  <2>1. queue' \in [1..m -> 1..MaxJobs] /\ m \in Nat
    BY <1>3, <1>4
  <2>2. queue' \in Seq(1..MaxJobs)
    BY <2>1, SeqDef
  <2>3. QED
    BY <1>4, <2>2 DEF JobIds
<1>6. \A j \in JobIds :
          jobs'[j] = IF j \in ToRecover
                     THEN [jobs[j] EXCEPT !.status = "queued", !.progress = 0]
                     ELSE jobs[j]
  BY DEF Start
<1>7. \A j \in JobIds : /\ jobs'[j] \in Job
                        /\ jobs'[j].component = jobs[j].component
                        /\ j \in ToRecover => jobs'[j].status = "queued"
                        /\ j \notin ToRecover => jobs'[j] = jobs[j]
  <2>1. TAKE j \in JobIds
  <2>2. CASE j \in ToRecover
    BY <1>3, <1>6, <2>2, RequeuedTyped
  <2>3. CASE j \notin ToRecover
    BY <1>3, <1>6, <2>3
  <2>4. QED
    BY <2>2, <2>3
<1>8. jobs' \in Seq(Job) /\ Len(jobs') = Len(jobs) /\ JobIds' = JobIds
  <2>1. jobs' \in [1..Len(jobs) -> Job]
    BY <1>7 DEF Start, JobIds
  <2>2. jobs' \in Seq(Job)
    BY <1>3, <2>1, SeqDef
  <2>3. DOMAIN jobs' = 1..Len(jobs)
    BY <2>1
  <2>4. DOMAIN jobs' = 1..Len(jobs') /\ Len(jobs') \in Nat
    BY <2>2, LenProperties
  <2>5. QED
    BY <1>3, <2>2, <2>3, <2>4, SameLength DEF JobIds
<1>9. \A j \in JobIds : j \in ToRecover <=> jobs[j].status \in Active
  BY DEF ToRecover, UnsettledJobs
<1>10. TypeOK'
  <2>1. worker' \in Worker
    BY <1>1, ComponentAssumption DEF Worker
  <2>2. queued_ids' \subseteq 1..MaxJobs
    BY <1>1, <1>3, <1>5 DEF ToSet
  <2>3. QED
    BY <1>1, <1>3, <1>5, <1>8, <2>1, <2>2 DEF TypeOK, Gate!TypeOK
<1>11. OneActiveJob'
  <2>1. \A k \in JobIds : /\ jobs'[k].component = jobs[k].component
                          /\ jobs'[k].status \in Active =>
                                jobs[k].status \in Active
    BY <1>7, <1>9
  <2>2. QED
    BY <1>1, <1>8, <2>1, NoneActivated DEF ComponentInvariant
<1>12. WorkerHolds' /\ QueueOfJobs'
  BY <1>1, <1>5, <1>8 DEF WorkerHolds, QueueOfJobs, Suspended
<1>13. NothingForgotten'
  <2>1. ASSUME NEW k \in JobIds
        PROVE  /\ jobs'[k].status = "queued" =>
                     /\ k # 0 /\ k \in queued_ids'
                     /\ \E n \in DOMAIN queue' : queue'[n] = k
               /\ jobs'[k].status # "running"
               /\ \A i, n \in DOMAIN queue' :
                     queue'[i] = k /\ queue'[n] = k => i = n
    <3>1. jobs'[k].status \in Active => k \in ToRecover
      BY <1>7, <1>9
    <3>2. k \in ToRecover => \E n \in DOMAIN queue' : queue'[n] = k
      BY <1>2 DEF ToSet
    <3>3. jobs'[k].status # "running"
      BY <1>7, <3>1 DEF Active
    <3>4. \A i, n \in DOMAIN queue' : queue'[i] = k /\ queue'[n] = k => i = n
      BY <1>2, <1>5
    <3>5. k # 0
      BY <1>3
    <3>6. QED
      BY <1>1, <1>2, <3>1, <3>2, <3>3, <3>4, <3>5 DEF Active
  <2>2. worker'.job = 0
    BY <1>1
  <2>3. QED
    BY <1>8, <2>1, <2>2 DEF NothingForgotten
<1>14. LockHeld'
  BY <1>1 DEF ComponentInvariant, LockHeld, Gate!Reading
<1>15. QED
  BY <1>10, <1>11, <1>12, <1>13, <1>14 DEF ComponentInvariant

LEMMA ScanStepsKeep ==
    ASSUME ComponentInvariant, NEW t \in Scans, ScanSteps(t)
    PROVE  ComponentInvariant'
<1>1. /\ TypeOK /\ mode \in [Gate!Tasks -> Gate!Modes]
      /\ Maint \in Gate!Tasks /\ t \in Gate!Tasks /\ t # Maint
      /\ UNCHANGED <<jobs, queue, queued_ids, worker, process, halts, errors>>
  BY ComponentAssumption
  DEF ScanSteps, ComponentInvariant, TypeOK, Gate!TypeOK, Gate!Tasks
<1>2. Gate!GrantRead(t) \/ Gate!Leave(t)
  BY DEF ScanSteps
<1>3. mode' \in [Gate!Tasks -> Gate!Modes] /\ mode'[Maint] = mode[Maint]
  BY <1>1, <1>2 DEF Gate!GrantRead, Gate!Leave, Gate!Becomes, Gate!Modes
<1>4. mode[Maint] = "write" => ~Gate!Reading'
  <2>1. SUFFICES ASSUME mode[Maint] = "write", NEW u \in Gate!Tasks,
                        mode'[u] = "read"
                 PROVE  FALSE
    BY DEF Gate!Reading
  <2>2. ~Gate!GrantRead(t)
    BY <1>1, <2>1 DEF Gate!GrantRead, Gate!Writing
  <2>3. mode[u] = "read"
    BY <1>1, <1>2, <2>1, <2>2 DEF Gate!Leave, Gate!Becomes
  <2>4. QED
    BY <2>1, <2>3 DEF ComponentInvariant, LockHeld, Gate!Reading
<1>5. LockHeld'
  BY <1>1, <1>3, <1>4 DEF ComponentInvariant, LockHeld
<1>6. TypeOK'
  BY <1>1, <1>3 DEF TypeOK, Gate!TypeOK
<1>7. OneActiveJob' /\ WorkerHolds' /\ QueueOfJobs' /\ NothingForgotten'
  BY <1>1
  DEF ComponentInvariant, OneActiveJob, UnsettledJobs, JobIds, WorkerHolds,
      QueueOfJobs, NothingForgotten
<1>8. QED
  BY <1>5, <1>6, <1>7 DEF ComponentInvariant

(***************************************************************************)
(* The invariant holds.                                                    *)
(***************************************************************************)
LEMMA InitHolds == Init => ComponentInvariant
<1>1. SUFFICES ASSUME Init
               PROVE  ComponentInvariant
  OBVIOUS
<1>2. /\ jobs \in Seq(Job) /\ Len(jobs) = 0 /\ JobIds = {}
      /\ queue \in Seq(1..MaxJobs) /\ DOMAIN queue = {} /\ Len(jobs) <= MaxJobs
  BY <1>1, EmptySeq, ComponentAssumption DEF Init, JobIds
<1>3. mode \in [Gate!Tasks -> Gate!Modes] /\ mode[Maint] = "idle"
  BY <1>1 DEF Init, Gate!Init, Gate!Modes, Gate!Tasks
<1>4. worker \in Worker /\ halts \in 0..MaxHalts /\ errors \in 0..MaxErrors
  BY <1>1, ComponentAssumption DEF Init, Worker
<1>5. TypeOK
  BY <1>1, <1>2, <1>3, <1>4 DEF Init, TypeOK, Gate!TypeOK
<1>6. OneActiveJob /\ NothingForgotten /\ WorkerHolds /\ QueueOfJobs
  BY <1>1, <1>2
  DEF Init, OneActiveJob, UnsettledJobs, NothingForgotten, WorkerHolds,
      QueueOfJobs, Suspended
<1>7. LockHeld
  BY <1>1, <1>3 DEF Init, LockHeld
<1>8. QED
  BY <1>5, <1>6, <1>7 DEF ComponentInvariant

LEMMA NextKeeps == ComponentInvariant /\ [Next]_vars => ComponentInvariant'
<1>1. SUFFICES ASSUME ComponentInvariant, [Next]_vars
               PROVE  ComponentInvariant'
  OBVIOUS
<1>2. CASE UNCHANGED vars
  BY <1>1, <1>2
  DEF vars, ComponentInvariant, TypeOK, Gate!TypeOK, OneActiveJob,
      UnsettledJobs, JobIds, NothingForgotten, WorkerHolds, QueueOfJobs,
      LockHeld, Gate!Reading
<1>3. ASSUME NEW c \in Components, NEW a \in Actions, Request(c, a)
      PROVE  ComponentInvariant'
  BY <1>1, <1>3, RequestKeeps
<1>4. ASSUME NEW j \in JobIds, Cancel(j)
      PROVE  ComponentInvariant'
  BY <1>1, <1>4, CancelKeeps
<1>5. ASSUME NEW p \in {48, 68}, Consume(p)
      PROVE  ComponentInvariant'
  BY <1>1, <1>5, p \in 0..100, ConsumeKeeps
<1>6. ASSUME NEW t \in Scans, ScanSteps(t)
      PROVE  ComponentInvariant'
  BY <1>1, <1>6, ScanStepsKeep
<1>7. CASE Skip \/ RunCheck \/ RunDownload \/ RunRaises
  BY <1>1, <1>7, SkipKeeps, RunCheckKeeps, RunDownloadKeeps, RunRaisesKeeps
<1>8. CASE EnterLock \/ Spawned \/ FailRaises
  BY <1>1, <1>8, EnterLockKeeps, SpawnedKeeps, FailRaisesKeeps
<1>9. CASE RegistryAnswers \/ SpawnFails \/ DownloadSucceeds \/ DownloadFails
  BY <1>1, <1>9, EndsKeep
<1>10. CASE Stop \/ Start
  BY <1>1, <1>10, StopKeeps, StartKeeps
<1>11. QED
  BY <1>1, <1>2, <1>3, <1>4, <1>5, <1>6, <1>7, <1>8, <1>9, <1>10
  DEF Next, WorkerStep

\* The inductive invariant of component maintenance.
THEOREM ComponentsInductive == Spec => []ComponentInvariant
<1>1. QED
  BY InitHolds, NextKeeps, PTL DEF Spec

\* A component never has two active jobs, through any requests, cancellations,
\* lost workers and restarts.
THEOREM OneJobPerComponent == Spec => []OneActiveJob
<1>1. ComponentInvariant => OneActiveJob
  BY DEF ComponentInvariant
<1>2. QED
  BY <1>1, ComponentsInductive, PTL

\* While the worker lives, a job the table shows as active is in the queue,
\* once, or in the worker's hands.
THEOREM JobsAreNotForgotten == Spec => []NothingForgotten
<1>1. ComponentInvariant => NothingForgotten
  BY DEF ComponentInvariant
<1>2. QED
  BY <1>1, ComponentsInductive, PTL

\* A download has the Trivy database to itself, and the lock is not left
\* behind by a worker that is not downloading.
THEOREM DownloadIsAlone == Spec => []DownloadAlone
<1>1. ComponentInvariant => DownloadAlone
  BY DEF ComponentInvariant, DownloadAlone, LockHeld
<1>2. QED
  BY <1>1, ComponentsInductive, PTL

(***************************************************************************)
(* What the table says a job came to stays.                                *)
(***************************************************************************)
LEMMA OutcomeStays ==
    ASSUME ComponentInvariant, Next, NEW k \in JobIds,
           jobs[k].status \in TERMINAL
    PROVE  jobs'[k] = jobs[k]
<1>1. TypeOK /\ jobs \in Seq(Job) /\ Len(jobs) \in Nat /\ jobs[k] \in Job
  BY JobTyped DEF ComponentInvariant, TypeOK
<1>2. jobs[k].status \notin Active
  BY DEF Active, TERMINAL
<1>3. \A j \in JobIds, row \in Job :
          jobs' = [jobs EXCEPT ![j] = row] =>
              \/ jobs'[k] = jobs[k]
              \/ k = j /\ jobs'[k] = row
  BY <1>1, RowReplaced
<1>4. ASSUME NEW c \in Components, NEW a \in Actions, Request(c, a)
      PROVE  jobs'[k] = jobs[k]
  <2>1. [component |-> c, action |-> a, status |-> "queued", progress |-> 0]
            \in Job
    BY DEF Job, Active
  <2>2. QED
    BY <1>1, <1>4, <2>1, AppendProperties DEF Request, JobIds
<1>5. ASSUME NEW j \in JobIds, Cancel(j)
      PROVE  jobs'[k] = jobs[k]
  <2>1. j # k
    BY <1>5 DEF Cancel
  <2>2. jobs' = [jobs EXCEPT ![j].status = "cancelled"]
    BY <1>5 DEF Cancel
  <2>3. jobs \in [1..Len(jobs) -> Job]
    BY <1>1, LenProperties
  <2>4. QED
    BY <2>1, <2>2, <2>3 DEF JobIds
<1>6. CASE RunCheck \/ RunDownload
  <2>1. Dequeue /\ jobs[Head(queue)].status = "queued"
    BY <1>6 DEF RunCheck, RunDownload
  <2>2. Head(queue) \in JobIds /\ Head(queue) # k
    BY <1>2, <2>1, Dequeued DEF Active
  <2>3. \E row : jobs' = [jobs EXCEPT ![Head(queue)] = row]
    BY <1>6 DEF RunCheck, RunDownload
  <2>4. jobs \in [1..Len(jobs) -> Job]
    BY <1>1, LenProperties
  <2>5. QED
    BY <2>2, <2>3, <2>4 DEF JobIds
<1>7. ASSUME worker.at \in Suspended, NEW p \in 0..100,
             jobs' = [jobs EXCEPT ![worker.job] = Updated(@, p)]
      PROVE  jobs'[k] = jobs[k]
  <2>1. /\ worker.job \in JobIds /\ jobs[worker.job] \in Job
        /\ jobs[worker.job].status \in {"running", "cancelled"}
    BY <1>7, HeldTyped
  <2>2. worker.job = k => Updated(jobs[worker.job], p) = jobs[k]
    BY <1>2, <2>1, ProgressTyped DEF Active
  <2>3. Updated(jobs[worker.job], p) \in Job
    BY <2>1, ProgressTyped
  <2>4. QED
    BY <1>3, <1>7, <2>1, <2>2, <2>3
<1>8. ASSUME NEW p \in {48, 68}, Consume(p)
      PROVE  jobs'[k] = jobs[k]
  <2>1. /\ worker.at \in Suspended /\ p \in 0..100
        /\ jobs' = [jobs EXCEPT ![worker.job] = Updated(@, p)]
    BY <1>8 DEF Consume, Suspended
  <2>2. QED
    BY <1>7, <2>1
<1>9. CASE EnterLock
  <2>1. /\ worker.at \in Suspended /\ 20 \in 0..100
        /\ jobs' = [jobs EXCEPT ![worker.job] = Updated(@, 20)]
    BY <1>9 DEF EnterLock, Suspended
  <2>2. QED
    BY <1>7, <2>1
<1>10. CASE RegistryAnswers \/ SpawnFails \/ DownloadSucceeds \/ DownloadFails
  <2>1. PICK row \in EndsOf(jobs[worker.job]) : EndWith(row)
    BY <1>10, Ends
  <2>2. /\ worker.job \in JobIds /\ jobs[worker.job] \in Job
        /\ jobs[worker.job].status \in {"running", "cancelled"}
    BY <1>10, Ends, HeldTyped
  <2>3. row \in Job /\ (worker.job = k => row = jobs[k])
    BY <1>2, <2>2, EndsTyped DEF Active
  <2>4. jobs' = [jobs EXCEPT ![worker.job] = row]
    BY <2>1 DEF EndWith
  <2>5. QED
    BY <1>3, <2>2, <2>3, <2>4
<1>11. CASE Start
  BY <1>2, <1>11 DEF Start, ToRecover, UnsettledJobs
<1>12. CASE Skip \/ RunRaises \/ Spawned \/ FailRaises \/ Stop
  BY <1>12 DEF Skip, RunRaises, Spawned, FailRaises, Stop
<1>13. ASSUME NEW t \in Scans, ScanSteps(t)
       PROVE  jobs'[k] = jobs[k]
  BY <1>13 DEF ScanSteps
<1>14. QED
  BY <1>4, <1>5, <1>6, <1>8, <1>9, <1>10, <1>11, <1>12, <1>13
  DEF Next, WorkerStep

\* A job that is completed, failed or cancelled stays so.
THEOREM OutcomesAreFinal == Spec => TerminalIsFinal
<1>1. ComponentInvariant /\ [Next]_vars =>
        [\A j \in JobIds : jobs[j].status \in TERMINAL => jobs'[j] = jobs[j]]_vars
  BY OutcomeStays
<1>2. QED
  BY <1>1, ComponentsInductive, PTL DEF Spec, TerminalIsFinal

(***************************************************************************)
(* What a client sees of a job's progress.                                 *)
(***************************************************************************)
\* An update never lowers the progress of a row,
LEMMA ProgressGrows ==
    ASSUME NEW job \in Job, NEW p \in 0..100
    PROVE  Updated(job, p).progress >= job.progress
<1>1. job.progress \in 0..100
  BY DEF Job
<1>2. Larger(job.progress, p) >= job.progress
  BY <1>1 DEF Larger
<1>3. [job EXCEPT !.progress = Larger(@, p)].progress = Larger(job.progress, p)
  BY DEF Job
<1>4. QED
  BY <1>1, <1>2, <1>3 DEF Updated

\* nor does the end of its job.
LEMMA ProgressAtEnd ==
    ASSUME NEW job \in Job
    PROVE  /\ Completed(job).progress >= job.progress
           /\ Failed(job).progress >= job.progress
<1>1. job.progress \in 0..100
  BY DEF Job
<1>2. /\ [job EXCEPT !.status = "completed", !.progress = 100].progress = 100
      /\ [job EXCEPT !.status = "failed"].progress = job.progress
  BY DEF Job
<1>3. QED
  BY <1>1, <1>2 DEF Completed, Failed

LEMMA ProgressStays ==
    ASSUME ComponentInvariant, Next, NEW k \in JobIds,
           jobs[k].status = "running", Up, worker'.at # "down"
    PROVE  jobs'[k].progress >= jobs[k].progress
<1> DEFINE Rises == jobs'[k].progress >= jobs[k].progress
<1>1. /\ TypeOK /\ jobs \in Seq(Job) /\ Len(jobs) \in Nat /\ jobs[k] \in Job
      /\ jobs \in [1..Len(jobs) -> Job]
  BY JobTyped, LenProperties DEF ComponentInvariant, TypeOK
<1>2. jobs'[k].progress = jobs[k].progress => Rises
  <2>1. jobs[k].progress \in 0..100
    BY <1>1 DEF Job
  <2>2. QED
    BY <2>1
<1>3. \A j \in JobIds, row \in Job :
          /\ jobs' = [jobs EXCEPT ![j] = row]
          /\ j = k => row.progress >= jobs[k].progress
          => Rises
  BY <1>1, <1>2, RowReplaced
<1> HIDE DEF Rises
<1>4. ASSUME NEW c \in Components, NEW a \in Actions, Request(c, a)
      PROVE  Rises
  <2>1. [component |-> c, action |-> a, status |-> "queued", progress |-> 0]
            \in Job
    BY DEF Job, Active
  <2>2. jobs'[k] = jobs[k]
    BY <1>1, <1>4, <2>1, AppendProperties DEF Request, JobIds
  <2>3. QED
    BY <1>2, <2>2
<1>5. ASSUME NEW j \in JobIds, Cancel(j)
      PROVE  Rises
  <2>1. jobs' = [jobs EXCEPT ![j].status = "cancelled"]
    BY <1>5 DEF Cancel
  <2>2. jobs'[k].progress = jobs[k].progress
    BY <1>1, <2>1 DEF JobIds, Job
  <2>3. QED
    BY <1>2, <2>2
<1>6. CASE RunCheck \/ RunDownload
  <2>1. Dequeue /\ jobs[Head(queue)].status = "queued"
    BY <1>6 DEF RunCheck, RunDownload
  <2>2. Head(queue) \in JobIds /\ Head(queue) # k
    BY <2>1, Dequeued
  <2>3. \E row : jobs' = [jobs EXCEPT ![Head(queue)] = row]
    BY <1>6 DEF RunCheck, RunDownload
  <2>4. jobs'[k] = jobs[k]
    BY <1>1, <2>2, <2>3 DEF JobIds
  <2>5. Rises
    BY <1>2, <2>4
  <2>6. QED
    BY <2>5 DEF Rises
<1>7. ASSUME worker.at \in Suspended, NEW p \in 0..100,
             jobs' = [jobs EXCEPT ![worker.job] = Updated(@, p)]
      PROVE  Rises
  <2>1. worker.job \in JobIds /\ jobs[worker.job] \in Job
    BY <1>7, HeldTyped
  <2>2. Updated(jobs[worker.job], p) \in Job
    BY <2>1, ProgressTyped
  <2>3. Updated(jobs[worker.job], p).progress >= jobs[worker.job].progress
    BY <2>1, ProgressGrows
  <2>4. jobs' = [jobs EXCEPT ![worker.job] = Updated(jobs[worker.job], p)]
    BY <1>7
  <2>5. QED
    BY <1>3, <2>1, <2>2, <2>3, <2>4
<1>8. ASSUME NEW p \in {48, 68}, Consume(p)
      PROVE  Rises
  <2>1. p \in 0..100
    OBVIOUS
  <2>2. QED
    BY <1>7, <1>8, <2>1 DEF Consume, Suspended
<1>9. CASE EnterLock
  <2>1. 20 \in 0..100
    OBVIOUS
  <2>2. Rises
    BY <1>7, <1>9, <2>1 DEF EnterLock, Suspended
  <2>3. QED
    BY <2>2 DEF Rises
<1>10. CASE RegistryAnswers \/ SpawnFails \/ DownloadSucceeds \/ DownloadFails
  <2>1. PICK row \in EndsOf(jobs[worker.job]) : EndWith(row)
    BY <1>10, Ends
  <2>2. /\ worker.job \in JobIds /\ jobs[worker.job] \in Job
        /\ jobs[worker.job].status \in {"running", "cancelled"}
    BY <1>10, Ends, HeldTyped
  <2>3. row \in Job
    BY <2>2, EndsTyped
  <2>4. row.progress >= jobs[worker.job].progress
    <3> DEFINE job == jobs[worker.job]
    <3>1. 90 \in 0..100
      OBVIOUS
    <3>2. Updated(job, 90) \in Job
      BY <2>2, <3>1, ProgressTyped
    <3>3. /\ Updated(job, 90).progress >= job.progress
          /\ Completed(Updated(job, 90)).progress >= Updated(job, 90).progress
          /\ Completed(job).progress >= job.progress
          /\ Failed(job).progress >= job.progress
      BY <2>2, <3>1, <3>2, ProgressGrows, ProgressAtEnd
    <3>4. CASE row = Completed(Updated(job, 90))
      <4>1. /\ job.progress \in 0..100
            /\ Updated(job, 90).progress \in 0..100
            /\ row.progress \in 0..100
        BY <2>2, <2>3, <3>2 DEF Job
      <4>2. /\ Updated(job, 90).progress >= job.progress
            /\ row.progress >= Updated(job, 90).progress
        BY <3>3, <3>4
      <4>3. \A a, b, c \in 0..100 : b >= a /\ c >= b => c >= a
        OBVIOUS
      <4>4. row.progress >= job.progress
        BY <4>1, <4>2, <4>3
      <4>5. QED
        BY <4>4
    <3>5. CASE row \in {Completed(job), Failed(job)}
      BY <3>3, <3>5
    <3>6. QED
      BY <2>1, <3>4, <3>5 DEF EndsOf
  <2>5. jobs' = [jobs EXCEPT ![worker.job] = row]
    BY <2>1 DEF EndWith
  <2>6. Rises
    BY <1>3, <2>2, <2>3, <2>4, <2>5
  <2>7. QED
    BY <2>6 DEF Rises
<1>11. CASE Skip \/ RunRaises \/ Spawned \/ FailRaises
  <2>1. jobs' = jobs
    BY <1>11 DEF Skip, RunRaises, Spawned, FailRaises
  <2>2. Rises
    BY <1>2, <2>1
  <2>3. QED
    BY <2>2 DEF Rises
<1>12. ~Stop /\ ~Start
  BY DEF Stop, Start, Become, Suspend
<1>13. ASSUME NEW t \in Scans, ScanSteps(t)
       PROVE  Rises
  BY <1>2, <1>13 DEF ScanSteps
<1>14. Rises
  BY <1>4, <1>5, <1>6, <1>8, <1>9, <1>10, <1>11, <1>12, <1>13
  DEF Next, WorkerStep, Rises
<1>15. QED
  BY <1>14 DEF Rises

\* The progress of a job that runs never falls, whatever the order in which
\* the two pipes of its download are read.
THEOREM ProgressIsMonotone == Spec => ProgressNeverFalls
<1>1. ComponentInvariant /\ [Next]_vars =>
        [\A j \in JobIds :
            jobs[j].status = "running" /\ Up /\ worker'.at # "down"
               => jobs'[j].progress >= jobs[j].progress]_vars
  BY ProgressStays
<1>2. QED
  BY <1>1, ComponentsInductive, PTL DEF Spec, ProgressNeverFalls

\* Rows, queue, lock and worker are what their types say, with the ids within
\* the bound on rows.
THEOREM ComponentTypes == Spec => []TypeOK
<1>1. ComponentInvariant => TypeOK
  BY DEF ComponentInvariant
<1>2. QED
  BY <1>1, ComponentsInductive, PTL
===============================================================================
