-------------------------- MODULE ScanManager_proofs --------------------------
(***************************************************************************)
(* Proofs about the scan dispatcher, for any images, workers, removal      *)
(* threads and bounds: its types, that an image never has two active       *)
(* scans, that the admitted scans fit, and that maintenance is alone; and, *)
(* with one removal thread, that no active scan is removed.                *)
(***************************************************************************)
EXTENDS ScanManager, FiniteSetTheorems, TLAPS

\* A worker in run_scan has a scan; past the database lock it is a reader; and
\* it has a live process only where it waits for one.
Occupied ==
    \A w \in Workers :
        /\ workers[w].pc \in InScan => Job(w) \in Ids
        /\ workers[w].pc \in InScan \ {"lock"} => w \in readers
        /\ workers[w].proc = "alive" => workers[w].pc \in {"run", "kill"}

Exclusion == writer = "holding" => readers = {}

Statuses == {"absent"} \cup Active \cup Terminal

(***************************************************************************)
(* Assigning a status keeps the type of the table.                         *)
(***************************************************************************)
LEMMA SetStatusType ==
    ASSUME TypeOK, NEW i, NEW s \in Statuses, SetStatus(i, s)
    PROVE  scans' \in [Ids -> Scan]
<1>1. ASSUME NEW j \in Ids
      PROVE  [scans[j] EXCEPT !.status = s] \in Scan
  <2>1. scans[j] \in Scan
    BY DEF TypeOK
  <2>2. QED
    BY <2>1 DEF Scan, Statuses
<1>2. QED
  BY <1>1 DEF SetStatus, TypeOK

(***************************************************************************)
(* A worker at rest, and a worker that changes place, are workers.         *)
(***************************************************************************)
LEMMA AtRestType ==
    ASSUME NEW place \in {"down", "idle"} \cup InScan
    PROVE  AtRest(place) \in Worker
  BY DEF AtRest, Worker

LEMMA WorkerTyped ==
    ASSUME TypeOK, NEW w \in Workers
    PROVE  /\ workers[w] \in Worker
           /\ workers[w].source \in Images \cup {None}
           /\ workers[w].payload \in Images \cup {None}
<1>1. workers[w] \in Worker
  BY DEF TypeOK
<1>2. QED
  BY <1>1 DEF Worker

LEMMA UpdateType ==
    ASSUME TypeOK, NEW w \in Workers, NEW new \in Worker, Update(w, new)
    PROVE  workers' \in [Workers -> Worker]
  BY DEF Update, TypeOK

LEMMA MoveType ==
    ASSUME TypeOK, NEW w \in Workers,
           NEW place \in {"down", "idle"} \cup InScan, Move(w, place)
    PROVE  workers' \in [Workers -> Worker]
<1>1. [workers[w] EXCEPT !.pc = place] \in Worker
  BY WorkerTyped DEF Worker
<1>2. QED
  BY <1>1 DEF Move, TypeOK

(***************************************************************************)
(* The ways out of run_scan keep the types of what they change.            *)
(***************************************************************************)
LEMMA LeaveScanType ==
    ASSUME TypeOK, NEW w \in Workers, NEW place \in {"down", "idle"},
           LeaveScan(w, place)
    PROVE  /\ workers' \in [Workers -> Worker]
           /\ processes' \in [Ids -> Workers \cup {None}]
           /\ active_ids' \subseteq Ids
           /\ readers' \subseteq Workers
           /\ UNCHANGED <<queue, queued_ids, writer>>
<1>1. workers' \in [Workers -> Worker]
  BY AtRestType, UpdateType DEF LeaveScan
<1>2. QED
  BY <1>1 DEF LeaveScan, Unmark, TypeOK

LEMMA DropRawType ==
    ASSUME TypeOK, NEW i, DropRaw(i)
    PROVE  raw' \in [Ids -> Images \cup {None}]
  BY DEF DropRaw, TypeOK

LEMMA FailType ==
    ASSUME TypeOK, NEW w \in Workers, Fail(w),
           UNCHANGED <<library, archives, phase, requests, counters>>
    PROVE  TypeOK'
<1>1. scans' \in [Ids -> Scan]
  <2>1. CASE UNCHANGED scans
    BY <2>1 DEF TypeOK
  <2>2. CASE SetStatus(Job(w), "failed")
    BY <2>2, SetStatusType DEF Statuses, Terminal
  <2>3. QED
    BY <2>1, <2>2 DEF Fail
<1>2. raw' \in [Ids -> Images \cup {None}]
  BY DropRawType DEF Fail
<1>3. QED
  BY <1>1, <1>2, LeaveScanType
  DEF Fail, EndScan, TypeOK, requests, counters

LEMMA AbandonType ==
    ASSUME TypeOK, NEW w \in Workers, Abandon(w),
           UNCHANGED <<library, archives, phase, requests, counters>>
    PROVE  TypeOK'
<1>1. raw' \in [Ids -> Images \cup {None}]
  BY DropRawType DEF Abandon
<1>2. QED
  BY <1>1, LeaveScanType
  DEF Abandon, EndScan, TypeOK, requests, counters

(***************************************************************************)
(* A finite set in the order of its rows is a sequence.                    *)
(***************************************************************************)
LEMMA IdsFinite == IsFiniteSet(Ids)
  BY FS_Interval, ConstantsAssumption DEF Ids

LEMMA InOrderSeq ==
    ASSUME NEW S \in SUBSET Ids, NEW rows, NEW s \in InOrder(S, rows)
    PROVE  s \in Seq(Ids)
<1>1. Cardinality(S) \in Nat
  BY IdsFinite, FS_Subset, FS_CardinalityType
<1>2. s \in [1..Cardinality(S) -> Ids]
  BY DEF InOrder
<1>3. QED
  BY <1>1, <1>2

(***************************************************************************)
(* Every request, worker step, removal step, start and crash keeps the     *)
(* types.                                                                  *)
(***************************************************************************)
LEMMA RequestType ==
    ASSUME TypeOK, Request
    PROVE  TypeOK'
<1>1. ASSUME NEW selected \in SUBSET Images, RequestScans(selected)
      PROVE  TypeOK'
  BY <1>1
  DEF RequestScans, BeginAdmission, TypeOK, disk, dispatch, gate, counters
<1>2. ASSUME NEW i \in Ids, RetryScan(i)
      PROVE  TypeOK'
  BY <1>2
  DEF RetryScan, BeginAdmission, TypeOK, disk, dispatch, gate, counters
<1>3. ASSUME NEW i \in Ids, CancelScan(i)
      PROVE  TypeOK'
  <2>1. scans' \in [Ids -> Scan]
    BY <1>3, SetStatusType DEF CancelScan, Statuses, Terminal
  <2>2. \A w \in Workers : [workers[w] EXCEPT !.signalled = TRUE] \in Worker
    BY WorkerTyped DEF Worker
  <2>3. workers' \in [Workers -> Worker]
    BY <1>3, <2>2 DEF CancelScan, TypeOK
  <2>4. QED
    BY <1>3, <2>1, <2>3 DEF CancelScan, TypeOK, requests, gate, counters
<1>4. ASSUME InsertScans
      PROVE  TypeOK'
  <2>1. CASE UNCHANGED <<scans, created, queue, queued_ids>>
    BY <1>4, <2>1 DEF InsertScans, TypeOK, gate
  <2>2. ASSUME NEW last \in 0..MaxScans,
               NEW order \in [1..Cardinality(admit) -> admit],
               NEW new \in SUBSET Ids,
               new = {i \in Ids : i - last \in DOMAIN order},
               scans' = [i \in Ids |->
                  IF i \notin new THEN scans[i]
                  ELSE [status |-> "queued", image |-> order[i - last],
                        queued_at |-> created + (i - last),
                        findings |-> None]],
               Enqueue(new),
               created' = created + Cardinality(admit)
        PROVE  TypeOK'
    <3>1. Cardinality(admit) \in Nat
      BY ConstantsAssumption, FS_Subset, FS_CardinalityType DEF TypeOK
    <3>2. scans' \in [Ids -> Scan]
      <4>1. ASSUME NEW i \in new
            PROVE  [status |-> "queued", image |-> order[i - last],
                    queued_at |-> created + (i - last),
                    findings |-> None] \in Scan
        <5>1. i - last \in 1..Cardinality(admit)
          BY <2>2
        <5>2. order[i - last] \in Images
          BY <5>1 DEF TypeOK
        <5>3. created + (i - last) \in Nat
          BY <3>1, <5>1 DEF TypeOK
        <5>4. QED
          BY <5>2, <5>3 DEF Scan, Active
      <4>2. QED
        BY <2>2, <4>1 DEF TypeOK
    <3>3. queue' \in Seq(Ids) /\ queued_ids' \subseteq Ids
      <4>1. new \ (queued_ids \cup active_ids) \in SUBSET Ids
        OBVIOUS
      <4>2. QED
        BY <2>2, <4>1, InOrderSeq DEF Enqueue, TypeOK
    <3>4. QED
      BY <1>4, <2>2, <3>1, <3>2, <3>3 DEF InsertScans, TypeOK, gate
  <2>3. QED
    BY <1>4, <2>1, <2>2 DEF InsertScans
<1>5. QED
  BY <1>1, <1>2, <1>3, <1>4 DEF Request

LEMMA WorkerType ==
    ASSUME TypeOK, Occupied, NEW w \in Workers, WorkerStep(w) \/ TrivyExits(w)
    PROVE  TypeOK'
<1> USE DEF At
<1>1. CASE Dequeue(w)
  <2>1. /\ Head(queue) \in Ids
        /\ Tail(queue) \in Seq(Ids)
    BY <1>1 DEF Dequeue, TypeOK
  <2>2. scans' \in [Ids -> Scan]
    BY <1>1, <2>1, SetStatusType DEF Dequeue, Statuses, Active, TypeOK
  <2>3. workers' \in [Workers -> Worker]
    <3>1. [AtRest("lock") EXCEPT !.job = Head(queue),
                                 !.source = scans[Head(queue)].image]
            \in Worker
      BY <2>1 DEF AtRest, Worker, InScan, TypeOK, Scan
    <3>2. QED
      BY <1>1, <3>1, UpdateType DEF Dequeue, TypeOK
  <2>4. QED
    BY <1>1, <2>1, <2>2, <2>3
    DEF Dequeue, Unmark, TypeOK, requests, gate, counters
<1>2. CASE AcquireRead(w)
  BY <1>2, MoveType
  DEF AcquireRead, InScan, TypeOK, disk, dispatch, requests, counters
<1>3. CASE SpawnTrivy(w)
  <2>1. [workers[w] EXCEPT !.pc = "run", !.proc = "alive"] \in Worker
    BY WorkerTyped DEF Worker, InScan
  <2>2. workers' \in [Workers -> Worker]
    BY <1>3, <2>1, UpdateType DEF SpawnTrivy
  <2>3. QED
    BY <1>3, <2>2 DEF SpawnTrivy, TypeOK, disk, requests, gate, counters
<1>4. CASE SpawnFails(w)
  BY <1>4, FailType DEF SpawnFails
<1>5. CASE TrivyExits(w)
  <2>1. ASSUME NEW code \in {"ok", "error"}
        PROVE  [workers[w] EXCEPT !.proc = code] \in Worker
    BY WorkerTyped DEF Worker
  <2>2. workers' \in [Workers -> Worker]
    BY <1>5, <2>1, UpdateType DEF TrivyExits
  <2>3. workers[w].source \in Images \cup {None}
    BY WorkerTyped DEF Worker
  <2>4. raw' \in [Ids -> Images \cup {None}]
    BY <1>5, <2>3 DEF TrivyExits, TypeOK
  <2>5. QED
    BY <1>5, <2>2, <2>4
    DEF TrivyExits, TypeOK, dispatch, requests, gate, counters
<1>6. CASE TrivyTimesOut(w)
  <2>1. [workers[w] EXCEPT !.pc = "kill", !.signalled = TRUE] \in Worker
    BY WorkerTyped DEF Worker, InScan
  <2>2. workers' \in [Workers -> Worker]
    BY <1>6, <2>1, UpdateType DEF TrivyTimesOut
  <2>3. QED
    BY <1>6, <2>2
    DEF TrivyTimesOut, TypeOK, disk, dispatch, requests, gate, counters
<1>7. CASE ReapTimedOut(w)
  BY <1>7, FailType DEF ReapTimedOut
<1>8. CASE CollectResult(w)
  <2>1. CASE Abandon(w)
    BY <1>8, <2>1, AbandonType DEF CollectResult
  <2>2. CASE Fail(w)
    BY <1>8, <2>2, FailType DEF CollectResult
  <2>3. CASE /\ workers[w].proc = "ok"
             /\ raw[Job(w)] # None
             /\ ~Dropped(Job(w))
             /\ Update(w, [workers[w] EXCEPT !.pc = "save",
                                             !.payload = raw[Job(w)]])
             /\ loop' = w
             /\ UNCHANGED <<scans, raw, dispatch, gate>>
    <3>1. raw[Job(w)] \in Images \cup {None}
      BY <1>8 DEF CollectResult, Occupied, InScan, TypeOK
    <3>2. [workers[w] EXCEPT !.pc = "save", !.payload = raw[Job(w)]] \in Worker
      BY <3>1, WorkerTyped DEF Worker, InScan
    <3>3. workers' \in [Workers -> Worker]
      BY <2>3, <3>2, UpdateType
    <3>4. QED
      BY <1>8, <2>3, <3>3
      DEF CollectResult, TypeOK, dispatch, requests, gate, counters
  <2>4. QED
    BY <1>8, <2>1, <2>2, <2>3 DEF CollectResult
<1>9. CASE SaveResult(w)
  <2>1. CASE Abandon(w)
    BY <1>9, <2>1, AbandonType DEF SaveResult
  <2>2. CASE /\ scans' = [scans EXCEPT ![Job(w)].findings = workers[w].payload]
             /\ Move(w, "complete")
             /\ UNCHANGED <<raw, loop, dispatch, gate>>
    <3>1. \A i \in Ids :
            [scans[i] EXCEPT !.findings = workers[w].payload] \in Scan
      <4>1. workers[w].payload \in Images \cup {None}
        BY WorkerTyped DEF Worker
      <4>2. scans \in [Ids -> Scan]
        BY DEF TypeOK
      <4>3. QED
        BY <4>1, <4>2 DEF Scan
    <3>2. scans' \in [Ids -> Scan]
      BY <2>2, <3>1 DEF TypeOK
    <3>3. workers' \in [Workers -> Worker]
      BY <2>2, MoveType DEF InScan
    <3>4. QED
      BY <1>9, <2>2, <3>2, <3>3
      DEF SaveResult, TypeOK, dispatch, requests, gate, counters
  <2>3. QED
    BY <1>9, <2>1, <2>2 DEF SaveResult
<1>10. CASE CompleteScan(w)
  <2>1. scans' \in [Ids -> Scan]
    BY <1>10, SetStatusType DEF CompleteScan, Statuses, Terminal, TypeOK
  <2>2. QED
    BY <1>10, <2>1, LeaveScanType
    DEF CompleteScan, EndScan, TypeOK, requests, counters
<1>11. CASE StopWorker(w)
  <2>1. CASE LeaveScan(w, "down")
    <3>1. scans' \in [Ids -> Scan]
      BY <1>11, SetStatusType DEF StopWorker, Statuses, Active, TypeOK
    <3>2. QED
      BY <1>11, <2>1, <3>1, LeaveScanType
      DEF StopWorker, TypeOK, requests, counters
  <2>2. CASE Move(w, "down") /\ UNCHANGED <<scans, dispatch, gate>>
    BY <1>11, <2>2, MoveType
    DEF StopWorker, TypeOK, dispatch, gate, requests, counters
  <2>3. QED
    BY <1>11, <2>1, <2>2 DEF StopWorker
<1>12. QED
  BY <1>1, <1>2, <1>3, <1>4, <1>5, <1>6, <1>7, <1>8, <1>9, <1>10, <1>11
  DEF WorkerStep

LEMMA RemovalType ==
    ASSUME TypeOK, NEW a \in Admins, RemovalStep(a)
    PROVE  TypeOK'
<1>1. NoRemoval \in Removal
  BY DEF NoRemoval, Removal
<1>2. ASSUME NEW ids \in SUBSET Ids, NEW images \in SUBSET Images,
             StartRemoval(a, ids, images)
      PROVE  TypeOK'
  <2>1. [step |-> "checked", scans |-> ids, images |-> images,
         raws |-> {i \in ids : Status(i) = "completed"}] \in Removal
    BY DEF Removal
  <2>2. removal' \in [Admins -> Removal]
    BY <1>2, <2>1 DEF StartRemoval, TypeOK
  <2>3. QED
    BY <1>2, <2>2 DEF StartRemoval, TypeOK, disk, dispatch, gate, counters
<1>3. ASSUME NEW ids \in SUBSET Ids, RemoveScans(a, ids)
      PROVE  TypeOK'
  BY <1>2, <1>3 DEF RemoveScans
<1>4. ASSUME NEW images \in SUBSET Images, RemoveImages(a, images)
      PROVE  TypeOK'
  BY <1>2, <1>4 DEF RemoveImages, ScansOf
<1>5. CASE UnlinkFiles(a)
  <2>1. [removal[a] EXCEPT !.step = "unlinked"] \in Removal
    BY DEF Removal, TypeOK
  <2>2. removal' \in [Admins -> Removal]
    BY <1>5, <2>1 DEF UnlinkFiles, TypeOK
  <2>3. QED
    BY <1>5, <2>2 DEF UnlinkFiles, Unlink, TypeOK, dispatch, gate, counters
<1>6. CASE RemovalFails(a)
  BY <1>1, <1>6 DEF RemovalFails, Unlink, TypeOK, dispatch, gate, counters
<1>7. CASE CommitRemoval(a)
  <2>1. scans' \in [Ids -> Scan]
    BY <1>7 DEF CommitRemoval, NoScan, Scan, TypeOK
  <2>2. library' \in [Images -> {"visible", "hidden", "deleted"}]
    BY <1>7 DEF CommitRemoval, TypeOK
  <2>3. QED
    BY <1>1, <1>7, <2>1, <2>2
    DEF CommitRemoval, TypeOK, dispatch, gate, counters
<1>8. QED
  BY <1>3, <1>4, <1>5, <1>6, <1>7 DEF RemovalStep

LEMMA ProcessType ==
    ASSUME TypeOK, Start \/ Stop \/ Exit \/ Crash
    PROVE  TypeOK'
<1>1. CASE Start
  <2>1. scans' \in [Ids -> Scan]
    <3>1. \A i \in Ids : [scans[i] EXCEPT !.status = "queued"] \in Scan
      <4>1. \A i \in Ids : scans[i] \in Scan
        BY DEF TypeOK
      <4>2. QED
        BY <4>1 DEF Scan, Active
    <3>2. QED
      BY <1>1, <3>1 DEF Start, RecoverJobs, TypeOK
  <2>2. queue' \in Seq(Ids)
    <3>1. ActiveScans \in SUBSET Ids
      BY DEF ActiveScans
    <3>2. QED
      BY <1>1, <3>1, InOrderSeq DEF Start
  <2>3. queued_ids' \subseteq Ids
    BY <1>1 DEF Start, RecoverJobs, ActiveScans
  <2>4. workers' \in [Workers -> Worker]
    BY <1>1, AtRestType DEF Start
  <2>5. QED
    BY <1>1, <2>1, <2>2, <2>3, <2>4
    DEF Start, TypeOK, requests, gate, counters
<1>2. CASE Stop
  <2>1. \A w \in Workers : [workers[w] EXCEPT !.signalled = TRUE] \in Worker
    BY WorkerTyped DEF Worker
  <2>2. workers' \in [Workers -> Worker]
    BY <1>2, <2>1 DEF Stop, TypeOK
  <2>3. QED
    BY <1>2, <2>2 DEF Stop, TypeOK, disk, dispatch, requests
<1>3. ASSUME MemoryLost, crashes' \in Nat
      PROVE  TypeOK'
  <2>1. NoRemoval \in Removal
    BY DEF NoRemoval, Removal
  <2>2. AtRest("down") \in Worker
    BY AtRestType
  <2>3. QED
    BY <1>3, <2>1, <2>2 DEF MemoryLost, TypeOK, disk
<1>4. QED
  BY <1>1, <1>2, <1>3 DEF Exit, Crash, TypeOK

(***************************************************************************)
(* No step of the dispatcher leaves the types.                             *)
(***************************************************************************)
LEMMA NextType ==
    ASSUME TypeOK, Occupied, [Next]_vars
    PROVE  TypeOK'
<1>1. CASE UNCHANGED vars
  BY <1>1 DEF vars, disk, dispatch, requests, gate, counters, TypeOK
<1>2. CASE Maintain
  BY <1>2 DEF Maintain, AskExclusive, TakeExclusive, ReleaseExclusive, TypeOK,
              disk, dispatch, requests, counters
<1>3. ASSUME NEW m \in Images, RestoreImage(m)
      PROVE  TypeOK'
  BY <1>3 DEF RestoreImage, TypeOK, dispatch, requests, gate, counters
<1>4. QED
  BY <1>1, <1>2, <1>3, RequestType, WorkerType, RemovalType, ProcessType
  DEF Next

------------------------------------------------------------------------------
(* Maintenance. *)

(***************************************************************************)
(* A worker that leaves run_scan gives everything back.                    *)
(***************************************************************************)
LEMMA LeaveScanOccupied ==
    ASSUME TypeOK, Occupied, NEW w \in Workers, NEW place \in {"down", "idle"},
           LeaveScan(w, place)
    PROVE  Occupied' /\ readers' \subseteq readers /\ writer' = writer
<1>1. workers' = [workers EXCEPT ![w] = AtRest(place)]
  BY DEF LeaveScan, Update
<1>2. readers' = readers \ {w} /\ writer' = writer
  BY DEF LeaveScan
<1>3. QED
  BY <1>1, <1>2 DEF Occupied, AtRest, InScan, TypeOK, Job

LEMMA NextExclusion ==
    ASSUME TypeOK, Occupied, Exclusion, [Next]_vars
    PROVE  Occupied' /\ Exclusion'
<1> USE DEF At
<1>same. ASSUME UNCHANGED <<workers, readers>>,
                writer' = "holding" => Exclusion'
         PROVE  Occupied' /\ Exclusion'
  BY <1>same DEF Occupied, Exclusion, Job
<1>leave. ASSUME NEW w \in Workers, NEW place \in {"down", "idle"},
                 LeaveScan(w, place)
          PROVE  Occupied' /\ Exclusion'
  BY <1>leave, LeaveScanOccupied DEF Exclusion
<1>1. CASE UNCHANGED vars
  BY <1>1, <1>same DEF vars, gate, Exclusion
<1>2. CASE Request
  <2>1. ASSUME NEW i \in Ids, CancelScan(i)
        PROVE  Occupied' /\ Exclusion'
    <3>1. \A w \in Workers : /\ workers'[w].pc = workers[w].pc
                             /\ workers'[w].job = workers[w].job
                             /\ workers'[w].proc = workers[w].proc
      BY <2>1 DEF CancelScan, TypeOK, Worker
    <3>2. QED
      BY <2>1, <3>1 DEF CancelScan, Occupied, Exclusion, Job, gate
  <2>2. CASE UNCHANGED <<workers, gate>>
    BY <2>2, <1>same DEF gate, Exclusion
  <2>3. QED
    BY <1>2, <2>1, <2>2
    DEF Request, RequestScans, RetryScan, BeginAdmission, InsertScans
<1>3. ASSUME NEW w \in Workers, WorkerStep(w) \/ TrivyExits(w)
      PROVE  Occupied' /\ Exclusion'
  <2>1. CASE Dequeue(w)
    <3>1. Head(queue) \in Ids
      BY <2>1 DEF Dequeue, TypeOK
    <3>2. CASE UNCHANGED workers
      BY <2>1, <3>2, <1>same DEF Dequeue, gate, Exclusion
    <3>3. CASE Update(w, [AtRest("lock") EXCEPT
                            !.job = Head(queue),
                            !.source = scans[Head(queue)].image])
      BY <2>1, <3>1, <3>3
      DEF Dequeue, Update, AtRest, Occupied, Exclusion, Job, gate, TypeOK
    <3>4. QED
      BY <2>1, <3>2, <3>3 DEF Dequeue
  <2>2. CASE AcquireRead(w)
    <3>1. \A v \in Workers : /\ workers'[v].job = workers[v].job
                             /\ workers'[v].proc = workers[v].proc
                             /\ v # w => workers'[v].pc = workers[v].pc
      BY <2>2 DEF AcquireRead, Move, TypeOK, Worker
    <3>2. /\ workers[w].pc = "lock" /\ workers'[w].pc = "spawn"
          /\ readers' = readers \cup {w}
          /\ writer' = "none"
      BY <2>2 DEF AcquireRead, Move, TypeOK, Worker
    <3>3. QED
      BY <3>1, <3>2 DEF Occupied, Exclusion, Job, InScan
  \* A step that moves a worker about behind the lock.
  <2>moves. ASSUME NEW from \in InScan \ {"lock"},
                   NEW to \in InScan \ {"lock"},
                   workers[w].pc = from, workers'[w].pc = to,
                   workers'[w].job = workers[w].job,
                   workers'[w].proc = "alive" => to \in {"run", "kill"},
                   \A v \in Workers \ {w} : workers'[v] = workers[v],
                   UNCHANGED gate
            PROVE  Occupied' /\ Exclusion'
    BY <2>moves DEF Occupied, Exclusion, Job, gate
  <2>3. CASE SpawnTrivy(w)
    BY <2>3, <2>moves DEF SpawnTrivy, Update, TypeOK, Worker, InScan
  <2>4. CASE SpawnFails(w) \/ ReapTimedOut(w)
    BY <2>4, <1>leave DEF SpawnFails, ReapTimedOut, Fail, EndScan
  <2>5. CASE TrivyExits(w)
    <3>1. workers[w].pc \in {"run", "kill"}
      BY <2>5 DEF TrivyExits, Occupied
    <3>2. QED
      BY <2>5, <3>1, <2>moves DEF TrivyExits, Update, TypeOK, Worker, InScan
  <2>6. CASE TrivyTimesOut(w)
    BY <2>6, <2>moves DEF TrivyTimesOut, Update, TypeOK, Worker, InScan
  <2>7. CASE CollectResult(w)
    <3>1. CASE Abandon(w) \/ Fail(w)
      BY <3>1, <1>leave DEF Abandon, Fail, EndScan
    <3>2. CASE /\ Update(w, [workers[w] EXCEPT !.pc = "save",
                                               !.payload = raw[Job(w)]])
               /\ UNCHANGED gate
      BY <2>7, <3>2, <2>moves DEF CollectResult, Update, TypeOK, Worker, InScan
    <3>3. QED
      BY <2>7, <3>1, <3>2 DEF CollectResult
  <2>8. CASE SaveResult(w)
    <3>1. CASE Abandon(w)
      BY <3>1, <1>leave DEF Abandon, EndScan
    <3>2. CASE Move(w, "complete") /\ UNCHANGED gate
      <4>1. workers[w].proc # "alive"
        BY <2>8 DEF SaveResult, Occupied
      <4>2. QED
        BY <2>8, <3>2, <4>1, <2>moves
        DEF SaveResult, Move, TypeOK, Worker, InScan
    <3>3. QED
      BY <2>8, <3>1, <3>2 DEF SaveResult
  <2>9. CASE CompleteScan(w)
    BY <2>9, <1>leave DEF CompleteScan, EndScan
  <2>10. CASE StopWorker(w)
    <3>1. CASE LeaveScan(w, "down")
      BY <3>1, <1>leave
    <3>2. CASE At(w, "idle") /\ Move(w, "down") /\ UNCHANGED gate
      BY <3>2 DEF Move, Occupied, Exclusion, Job, InScan, TypeOK, Worker, gate
    <3>3. QED
      BY <2>10, <3>1, <3>2 DEF StopWorker
  <2>11. QED
    BY <1>3, <2>1, <2>2, <2>3, <2>4, <2>5, <2>6, <2>7, <2>8, <2>9, <2>10
    DEF WorkerStep
<1>4. CASE Maintain
  BY <1>4 DEF Maintain, AskExclusive, TakeExclusive, ReleaseExclusive,
              Occupied, Exclusion, Job
<1>5. ASSUME NEW a \in Admins, RemovalStep(a)
      PROVE  Occupied' /\ Exclusion'
  <2>1. UNCHANGED <<workers, gate>>
    BY <1>5 DEF RemovalStep, RemoveScans, RemoveImages, StartRemoval,
                UnlinkFiles, RemovalFails, CommitRemoval
  <2>2. QED
    BY <2>1, <1>same DEF gate, Exclusion
<1>6. ASSUME NEW m \in Images, RestoreImage(m)
      PROVE  Occupied' /\ Exclusion'
  BY <1>6, <1>same DEF RestoreImage, gate, Exclusion
<1>7. CASE Start
  BY <1>7 DEF Start, AtRest, InScan, Occupied, Exclusion, gate
<1>8. CASE Stop
  <2>1. \A w \in Workers : /\ workers'[w].pc = workers[w].pc
                           /\ workers'[w].job = workers[w].job
                           /\ workers'[w].proc = workers[w].proc
    BY <1>8 DEF Stop, TypeOK, Worker
  <2>2. QED
    BY <1>8, <2>1 DEF Stop, Occupied, Exclusion, Job
<1>9. CASE Exit \/ Crash
  BY <1>9 DEF Exit, Crash, MemoryLost, AtRest, InScan, Occupied, Exclusion
<1>10. QED
  BY <1>1, <1>2, <1>3, <1>4, <1>5, <1>6, <1>7, <1>8, <1>9 DEF Next

------------------------------------------------------------------------------
(* Active scans. *)

\* Images under admission have no active scan, and their places are reserved.
AdmissionFresh == \A m \in admit : ~Scanning(m)
PlaceReserved == Cardinality(ActiveScans) + Cardinality(admit) <= MaxPending

Admitted == OneActivePerImage /\ AdmissionFresh /\ PlaceReserved

\* What every step does but the insertion of new scans.
NothingNewActive ==
    \A i \in Ids : Status(i)' \in Active =>
        Status(i) \in Active /\ scans'[i].image = scans[i].image

LEMMA ActiveFinite ==
    /\ IsFiniteSet(ActiveScans)
    /\ Cardinality(ActiveScans) \in Nat
<1>1. ActiveScans \in SUBSET Ids
  BY DEF ActiveScans
<1>2. QED
  BY <1>1, IdsFinite, FS_Subset, FS_CardinalityType

LEMMA IntervalSize ==
    ASSUME NEW last \in Nat, NEW n \in Nat
    PROVE  /\ IsFiniteSet((last + 1)..(last + n))
           /\ Cardinality((last + 1)..(last + n)) = n
<1>1. last + 1 \in Int /\ last + n \in Int
  OBVIOUS
<1>2. /\ IsFiniteSet((last + 1)..(last + n))
      /\ Cardinality((last + 1)..(last + n))
           = IF last + 1 > last + n THEN 0 ELSE (last + n) - (last + 1) + 1
  BY <1>1, FS_Interval, Zenon
<1>3. (IF last + 1 > last + n THEN 0 ELSE (last + n) - (last + 1) + 1) = n
  OBVIOUS
<1>4. QED
  BY <1>2, <1>3

LEMMA AdmitFinite ==
    ASSUME TypeOK
    PROVE  IsFiniteSet(admit) /\ Cardinality(admit) \in Nat
  BY ConstantsAssumption, FS_Subset, FS_CardinalityType DEF TypeOK

(***************************************************************************)
(* A step after which nothing new is active keeps what is admitted.        *)
(***************************************************************************)
LEMMA NothingNewKeeps ==
    ASSUME TypeOK, Admitted, NothingNewActive, admit' \in {admit, {}}
    PROVE  Admitted'
<1>1. ActiveScans' \subseteq ActiveScans
  BY DEF NothingNewActive, ActiveScans
<1>2. Cardinality(ActiveScans') <= Cardinality(ActiveScans)
      /\ Cardinality(ActiveScans') \in Nat
  BY <1>1, ActiveFinite, FS_Subset, FS_CardinalityType
<1>3. Cardinality(admit') <= Cardinality(admit) /\ Cardinality(admit') \in Nat
  BY AdmitFinite, FS_EmptySet
<1>4. PlaceReserved'
  BY <1>2, <1>3, ActiveFinite, AdmitFinite, ConstantsAssumption
  DEF Admitted, PlaceReserved
<1>5. OneActivePerImage'
  BY <1>1 DEF Admitted, OneActivePerImage, NothingNewActive, ActiveScans
<1>6. AdmissionFresh'
  BY <1>1 DEF Admitted, AdmissionFresh, Scanning, NothingNewActive, ActiveScans
<1>7. QED
  BY <1>4, <1>5, <1>6 DEF Admitted

(***************************************************************************)
(* No worker and no recovery makes a scan active that was not.             *)
(***************************************************************************)
LEMMA SetStatusNothingNew ==
    ASSUME TypeOK, NEW i, NEW s, SetStatus(i, s),
           s \in Active => Status(i) \in Active
    PROVE  NothingNewActive
<1>1. \A j \in Ids : /\ scans'[j].image = scans[j].image
                     /\ scans'[j].status = IF j = i THEN s ELSE scans[j].status
  BY DEF SetStatus, TypeOK, Scan
<1>2. QED
  BY <1>1 DEF NothingNewActive, Status

LEMMA UnchangedNothingNew ==
    ASSUME UNCHANGED scans
    PROVE  NothingNewActive
  BY DEF NothingNewActive, Status

LEMMA WorkerNothingNew ==
    ASSUME TypeOK, NEW w \in Workers, WorkerStep(w) \/ TrivyExits(w)
    PROVE  NothingNewActive /\ admit' = admit
<1>1. admit' = admit
  BY DEF WorkerStep, Dequeue, AcquireRead, SpawnTrivy, SpawnFails, TrivyExits,
         TrivyTimesOut, ReapTimedOut, CollectResult, SaveResult, CompleteScan,
         StopWorker, requests
<1> SUFFICES NothingNewActive
  BY <1>1
<1>2. ASSUME Fail(w) PROVE NothingNewActive
  BY <1>2, SetStatusNothingNew, UnchangedNothingNew DEF Fail, Active
<1>3. ASSUME Abandon(w) PROVE NothingNewActive
  BY <1>3, UnchangedNothingNew DEF Abandon
<1>4. CASE Dequeue(w)
  BY <1>4, SetStatusNothingNew, UnchangedNothingNew DEF Dequeue, Active
<1>5. CASE SpawnFails(w) \/ ReapTimedOut(w)
  BY <1>5, <1>2 DEF SpawnFails, ReapTimedOut
<1>6. CASE CollectResult(w)
  BY <1>6, <1>2, <1>3, UnchangedNothingNew DEF CollectResult
<1>7. CASE SaveResult(w)
  <2>1. CASE scans' = [scans EXCEPT ![Job(w)].findings = workers[w].payload]
    <3>1. \A i \in Ids : /\ scans'[i].image = scans[i].image
                         /\ scans'[i].status = scans[i].status
      BY <2>1 DEF TypeOK, Scan
    <3>2. QED
      BY <3>1 DEF NothingNewActive, Status
  <2>2. QED
    BY <1>3, <1>7, <2>1 DEF SaveResult
<1>8. CASE CompleteScan(w)
  BY <1>8, SetStatusNothingNew, UnchangedNothingNew DEF CompleteScan, Active
<1>9. CASE StopWorker(w)
  BY <1>9, SetStatusNothingNew, UnchangedNothingNew DEF StopWorker, Active
<1>10. CASE UNCHANGED scans
  BY <1>10, UnchangedNothingNew
<1>11. QED
  BY <1>4, <1>5, <1>6, <1>7, <1>8, <1>9, <1>10
  DEF WorkerStep, AcquireRead, SpawnTrivy, TrivyExits, TrivyTimesOut, disk

(***************************************************************************)
(* Admission: the reads ...                                                *)
(***************************************************************************)
LEMMA BeginKeeps ==
    ASSUME TypeOK, Admitted, NEW new \in SUBSET Images, BeginAdmission(new),
           \A m \in new : ~Scanning(m)
    PROVE  Admitted'
<1>1. UNCHANGED scans /\ admit' = new
  BY DEF BeginAdmission, disk
<1>2. ActiveScans' = ActiveScans
  BY <1>1 DEF ActiveScans, Status
<1>3. PlaceReserved'
  BY <1>1, <1>2 DEF PlaceReserved, BeginAdmission, RoomFor
<1>4. OneActivePerImage' /\ AdmissionFresh'
  BY <1>1, <1>2
  DEF Admitted, OneActivePerImage, AdmissionFresh, Scanning
<1>5. QED
  BY <1>3, <1>4 DEF Admitted

(***************************************************************************)
(* ... and the insertion, which no removal in between can spoil: the new   *)
(* ids are those of no other row, and the images are still without scan.   *)
(***************************************************************************)
LEMMA InsertKeeps ==
    ASSUME TypeOK, Admitted, InsertScans
    PROVE  Admitted'
<1>1. admit' = {}
  BY DEF InsertScans
<1>2. CASE UNCHANGED scans
  BY <1>1, <1>2, UnchangedNothingNew, NothingNewKeeps
<1>3. ASSUME NEW last \in 0..MaxScans,
             NEW order \in [1..Cardinality(admit) -> admit],
             NEW new \in SUBSET Ids,
             new = {i \in Ids : i - last \in DOMAIN order},
             IsLastId(last),
             \A a, b \in DOMAIN order : order[a] = order[b] => a = b,
             scans' = [i \in Ids |->
                IF i \notin new THEN scans[i]
                ELSE [status |-> "queued", image |-> order[i - last],
                      queued_at |-> created + (i - last),
                      findings |-> None]]
      PROVE  Admitted'
  <2>1. Cardinality(admit) \in Nat
    BY AdmitFinite
  <2>2. \A i \in new : /\ i - last \in 1..Cardinality(admit)
                       /\ order[i - last] \in admit
                       /\ scans'[i].image = order[i - last]
                       /\ i \notin ActiveScans
    BY <1>3, <2>1 DEF IsLastId, Present, ActiveScans, Status, Active, Ids
  <2>3. \A i \in Ids \ new : scans'[i] = scans[i]
    BY <1>3
  <2>4. ActiveScans' \subseteq ActiveScans \cup new
    BY <2>3 DEF ActiveScans, Status
  <2>5. Cardinality(new) <= Cardinality(admit) /\ IsFiniteSet(new)
        /\ Cardinality(new) \in Nat
    <3>1. new \subseteq (last + 1)..(last + Cardinality(admit))
      BY <2>1, <2>2 DEF Ids
    <3>2. /\ IsFiniteSet((last + 1)..(last + Cardinality(admit)))
          /\ Cardinality((last + 1)..(last + Cardinality(admit)))
               = Cardinality(admit)
      BY <2>1, IntervalSize, ConstantsAssumption
    <3>3. QED
      BY <3>1, <3>2, FS_Subset, FS_CardinalityType
  <2>6. PlaceReserved'
    <3>1. /\ IsFiniteSet(ActiveScans \cup new)
          /\ Cardinality(ActiveScans \cup new)
               <= Cardinality(ActiveScans) + Cardinality(new)
      <4>1. /\ IsFiniteSet(ActiveScans \cup new)
            /\ Cardinality(ActiveScans \cup new)
                 = Cardinality(ActiveScans) + Cardinality(new)
                     - Cardinality(ActiveScans \cap new)
        BY <2>5, ActiveFinite, FS_Union
      <4>2. Cardinality(ActiveScans \cap new) \in Nat
        BY ActiveFinite, FS_Intersection, FS_CardinalityType
      <4>3. QED
        BY <2>5, <4>1, <4>2, ActiveFinite
    <3>2. /\ Cardinality(ActiveScans') <= Cardinality(ActiveScans \cup new)
          /\ Cardinality(ActiveScans') \in Nat
          /\ Cardinality(ActiveScans \cup new) \in Nat
      BY <2>4, <3>1, FS_Subset, FS_CardinalityType
    <3>3. Cardinality(admit') = 0
      BY <1>1, FS_EmptySet
    <3>4. QED
      BY <2>1, <2>5, <3>1, <3>2, <3>3, ActiveFinite, ConstantsAssumption
      DEF Admitted, PlaceReserved
  <2>7. OneActivePerImage'
    <3>1. ASSUME NEW i \in ActiveScans', NEW j \in ActiveScans',
                 scans'[i].image = scans'[j].image
          PROVE  i = j
      <4>1. ASSUME NEW p \in new, NEW q \in ActiveScans' \ new
            PROVE  scans'[p].image # scans'[q].image
        BY <2>2, <2>3, <2>4
        DEF Admitted, AdmissionFresh, Scanning, ActiveScans
      <4>2. CASE i \in new /\ j \in new
        <5>1. i - last = j - last
          BY <1>3, <2>2, <3>1, <4>2
        <5>2. QED
          BY <5>1, <4>2 DEF Ids
      <4>3. CASE i \notin new /\ j \notin new
        BY <2>3, <2>4, <3>1, <4>3
        DEF Admitted, OneActivePerImage, ActiveScans
      <4>4. QED
        BY <3>1, <4>1, <4>2, <4>3
    <3>2. QED
      BY <3>1 DEF OneActivePerImage
  <2>8. AdmissionFresh'
    BY <1>1 DEF AdmissionFresh
  <2>9. QED
    BY <2>6, <2>7, <2>8 DEF Admitted
<1>4. CASE ~UNCHANGED scans
  <2> DEFINE New(last, order) == {i \in Ids : i - last \in DOMAIN order}
  <2>1. PICK last \in 0..MaxScans,
             order \in [1..Cardinality(admit) -> admit] :
        /\ IsLastId(last)
        /\ \A a, b \in DOMAIN order : order[a] = order[b] => a = b
        /\ scans' = [i \in Ids |->
              IF i \notin New(last, order) THEN scans[i]
              ELSE [status |-> "queued", image |-> order[i - last],
                    queued_at |-> created + (i - last),
                    findings |-> None]]
    BY <1>4 DEF InsertScans
  <2>2. New(last, order) \in SUBSET Ids
    OBVIOUS
  <2>3. QED
    BY <1>3, <2>1, <2>2
<1>5. QED
  BY <1>2, <1>4

LEMMA NextAdmitted ==
    ASSUME TypeOK, Admitted, [Next]_vars
    PROVE  Admitted'
<1>same. ASSUME UNCHANGED scans, admit' \in {admit, {}}
         PROVE  Admitted'
  BY <1>same, UnchangedNothingNew, NothingNewKeeps
<1>1. CASE UNCHANGED vars
  BY <1>1, <1>same DEF vars, disk, requests
<1>2. CASE Request
  <2>1. ASSUME NEW selected \in SUBSET Images, RequestScans(selected)
        PROVE  Admitted'
    BY <2>1, BeginKeeps DEF RequestScans
  <2>2. ASSUME NEW i \in Ids, RetryScan(i)
        PROVE  Admitted'
    <3>1. {scans[i].image} \in SUBSET Images
      BY <2>2 DEF RetryScan, TypeOK
    <3>2. QED
      BY <2>2, <3>1, BeginKeeps DEF RetryScan
  <2>3. ASSUME NEW i \in Ids, CancelScan(i)
        PROVE  Admitted'
    BY <2>3, SetStatusNothingNew, NothingNewKeeps
    DEF CancelScan, requests, Active
  <2>4. QED
    BY <1>2, <2>1, <2>2, <2>3, InsertKeeps DEF Request
<1>3. ASSUME NEW w \in Workers, WorkerStep(w) \/ TrivyExits(w)
      PROVE  Admitted'
  BY <1>3, WorkerNothingNew, NothingNewKeeps
<1>4. CASE Maintain
  BY <1>4, <1>same DEF Maintain, AskExclusive, TakeExclusive, ReleaseExclusive,
                       disk, requests
<1>5. ASSUME NEW a \in Admins, RemovalStep(a)
      PROVE  Admitted'
  <2>1. admit' = admit
    BY <1>5 DEF RemovalStep, RemoveScans, RemoveImages, StartRemoval,
                UnlinkFiles, RemovalFails, CommitRemoval
  <2>2. CASE scans' = [i \in Ids |->
                         IF i \in removal[a].scans THEN NoScan ELSE scans[i]]
    <3>1. NothingNewActive
      BY <2>2 DEF NothingNewActive, NoScan, Status, Active
    <3>2. QED
      BY <2>1, <3>1, NothingNewKeeps
  <2>3. CASE UNCHANGED scans
    BY <2>1, <2>3, <1>same
  <2>4. QED
    BY <1>5, <2>2, <2>3
    DEF RemovalStep, RemoveScans, RemoveImages, StartRemoval, UnlinkFiles,
        RemovalFails, CommitRemoval, disk
<1>6. ASSUME NEW m \in Images, RestoreImage(m)
      PROVE  Admitted'
  BY <1>6, <1>same DEF RestoreImage, requests
<1>7. CASE Start
  <2>1. NothingNewActive
    <3>1. \A i \in Ids : /\ scans'[i].image = scans[i].image
                         /\ scans'[i].status \in {"queued", Status(i)}
                         /\ \/ scans'[i].status = Status(i)
                            \/ Status(i) = "running"
      BY <1>7 DEF Start, RecoverJobs, Status, TypeOK, Scan
    <3>2. QED
      BY <3>1 DEF NothingNewActive, Status, Active
  <2>2. QED
    BY <1>7, <2>1, NothingNewKeeps DEF Start, requests
<1>8. CASE Stop \/ Exit \/ Crash
  BY <1>8, <1>same DEF Stop, Exit, Crash, MemoryLost, disk, requests
<1>9. QED
  BY <1>1, <1>2, <1>3, <1>4, <1>5, <1>6, <1>7, <1>8 DEF Next

------------------------------------------------------------------------------
(* Removal beside the loop, with one removal thread.                       *)

\* What a removal is about to delete has ended, and stays so until it does.
RemovalSettled ==
    \A a \in Admins : \A i \in removal[a].scans : Status(i) \in Terminal

\* What every step does but the commit of a removal: an ended scan stays
\* ended, and no active one goes.
RowsStay ==
    \A i \in Ids : /\ Status(i) \in Terminal => Status(i)' \in Terminal
                   /\ Status(i) \in Active => Status(i)' # "absent"

LEMMA SetStatusRowsStay ==
    ASSUME TypeOK, NEW i, NEW s \in Active \cup Terminal, SetStatus(i, s),
           Status(i) \in Terminal => s \in Terminal
    PROVE  RowsStay
<1>1. \A j \in Ids : Status(j)' = IF j = i THEN s ELSE Status(j)
  BY DEF SetStatus, TypeOK, Scan, Status
<1>2. s # "absent"
  BY DEF Active, Terminal
<1>3. QED
  BY <1>1, <1>2 DEF RowsStay, Active, Terminal

LEMMA SameRowsStay ==
    ASSUME UNCHANGED scans
    PROVE  RowsStay
  BY DEF RowsStay, Status, Active

LEMMA WorkerRowsStay ==
    ASSUME TypeOK, NEW w \in Workers, WorkerStep(w) \/ TrivyExits(w)
    PROVE  RowsStay /\ removal' = removal
<1>1. removal' = removal
  BY DEF WorkerStep, Dequeue, AcquireRead, SpawnTrivy, SpawnFails, TrivyExits,
         TrivyTimesOut, ReapTimedOut, CollectResult, SaveResult, CompleteScan,
         StopWorker, requests
<1> SUFFICES RowsStay
  BY <1>1
<1>set. ASSUME NEW i, NEW s \in {"completed", "failed"}, SetStatus(i, s)
        PROVE  RowsStay
  BY <1>set, SetStatusRowsStay DEF Terminal
<1>run. ASSUME NEW i, NEW s \in Active, SetStatus(i, s), Status(i) \in Active
        PROVE  RowsStay
  BY <1>run, SetStatusRowsStay DEF Active, Terminal
<1>2. ASSUME Fail(w) PROVE RowsStay
  BY <1>2, <1>set, SameRowsStay DEF Fail
<1>3. ASSUME Abandon(w) PROVE RowsStay
  BY <1>3, SameRowsStay DEF Abandon
<1>4. CASE Dequeue(w)
  BY <1>4, <1>run, SameRowsStay DEF Dequeue, Active
<1>5. CASE SpawnFails(w) \/ ReapTimedOut(w)
  BY <1>5, <1>2 DEF SpawnFails, ReapTimedOut
<1>6. CASE CollectResult(w)
  BY <1>6, <1>2, <1>3, SameRowsStay DEF CollectResult
<1>7. CASE SaveResult(w)
  <2>1. CASE scans' = [scans EXCEPT ![Job(w)].findings = workers[w].payload]
    <3>1. \A i \in Ids : Status(i)' = Status(i)
      BY <2>1 DEF TypeOK, Scan, Status
    <3>2. QED
      BY <3>1 DEF RowsStay, Active
  <2>2. QED
    BY <1>3, <1>7, <2>1 DEF SaveResult
<1>8. CASE CompleteScan(w)
  BY <1>8, <1>set, SameRowsStay DEF CompleteScan
<1>9. CASE StopWorker(w)
  BY <1>9, <1>run, SameRowsStay DEF StopWorker, Active
<1>10. CASE UNCHANGED scans
  BY <1>10, SameRowsStay
<1>11. QED
  BY <1>4, <1>5, <1>6, <1>7, <1>8, <1>9, <1>10
  DEF WorkerStep, AcquireRead, SpawnTrivy, TrivyExits, TrivyTimesOut, disk

\* New rows take the place of no other.
LEMMA InsertRowsStay ==
    ASSUME TypeOK, InsertScans
    PROVE  RowsStay /\ removal' = removal
<1>1. removal' = removal
  BY DEF InsertScans
<1>2. CASE UNCHANGED scans
  BY <1>1, <1>2, SameRowsStay
<1>3. CASE scans' # scans
  <2> DEFINE New(last, order) == {i \in Ids : i - last \in DOMAIN order}
  <2>1. PICK last \in 0..MaxScans, order \in [1..Cardinality(admit) -> admit] :
          /\ IsLastId(last)
          /\ \A i \in Ids : i \notin New(last, order) => scans'[i] = scans[i]
    BY <1>3 DEF InsertScans
  <2>2. Cardinality(admit) \in Nat /\ DOMAIN order = 1..Cardinality(admit)
    BY AdmitFinite
  <2>3. \A i \in New(last, order) : ~Present(i)
    BY <2>1, <2>2 DEF IsLastId, Ids
  <2>4. QED
    BY <1>1, <2>1, <2>3 DEF RowsStay, Present, Status, Active, Terminal
<1>4. QED
  BY <1>2, <1>3

LEMMA RowsStayKeeps ==
    ASSUME RemovalSettled, TypeOK, RowsStay,
           \A a \in Admins : \/ removal'[a].scans = removal[a].scans
                             \/ removal'[a].scans = {}
                             \/ \A i \in removal'[a].scans :
                                   i \in Ids /\ Status(i) \in Terminal
    PROVE  RemovalSettled'
  BY DEF RemovalSettled, RowsStay, TypeOK, Removal

\* A removal starts with ended scans, and the only one there is deletes no
\* other row than those it has checked.
LEMMA RemovalRowsStay ==
    ASSUME TypeOK, RemovalSettled, \A a, b \in Admins : a = b,
           NEW a \in Admins, RemovalStep(a)
    PROVE  /\ RemovalSettled'
           /\ \A i \in Ids : Status(i) \in Active => Status(i)' # "absent"
<1> DEFINE Goal == /\ RemovalSettled'
                   /\ \A i \in Ids :
                         Status(i) \in Active => Status(i)' # "absent"
<1>none. ASSUME \A b \in Admins : removal'[b].scans = {}
         PROVE  RemovalSettled'
  BY <1>none DEF RemovalSettled
<1>begin. ASSUME NEW ids \in SUBSET Ids, NEW images, StartRemoval(a, ids, images)
          PROVE  Goal
  <2>1. \A i \in ids : Status(i) \in Terminal
    BY <1>begin
    DEF StartRemoval, Removable, Present, Status, TypeOK, Scan, Active, Terminal
  <2>2. UNCHANGED scans /\ removal'[a].scans = ids
    BY <1>begin DEF StartRemoval, disk, TypeOK
  <2>3. QED
    BY <2>1, <2>2, SameRowsStay DEF RemovalSettled, RowsStay, Status
<1>1. ASSUME NEW ids \in SUBSET Ids, RemoveScans(a, ids)
      PROVE  Goal
  BY <1>1, <1>begin DEF RemoveScans
<1>2. ASSUME NEW images \in SUBSET Images, RemoveImages(a, images)
      PROVE  Goal
  <2>1. UNION {ScansOf(m) : m \in images} \in SUBSET Ids
    BY DEF ScansOf
  <2>2. QED
    BY <1>2, <1>begin, <2>1 DEF RemoveImages
<1>3. CASE UnlinkFiles(a)
  <2>1. UNCHANGED scans /\ removal'[a].scans = removal[a].scans
    BY <1>3 DEF UnlinkFiles, TypeOK, Removal
  <2>2. QED
    BY <2>1, SameRowsStay DEF RemovalSettled, RowsStay, Status
<1>4. CASE RemovalFails(a)
  <2>1. UNCHANGED scans /\ removal'[a].scans = {}
    BY <1>4 DEF RemovalFails, TypeOK, NoRemoval
  <2>2. QED
    BY <1>none, <2>1, SameRowsStay DEF RowsStay
<1>5. CASE CommitRemoval(a)
  <2>1. removal'[a].scans = {}
    BY <1>5 DEF CommitRemoval, TypeOK, NoRemoval
  <2>2. \A i \in Ids : i \notin removal[a].scans => scans'[i] = scans[i]
    BY <1>5 DEF CommitRemoval
  <2>3. \A i \in removal[a].scans : Status(i) \notin Active
    BY DEF RemovalSettled, Active, Terminal
  <2>4. QED
    BY <1>none, <2>1, <2>2, <2>3 DEF Status, Active
<1>6. QED
  BY <1>1, <1>2, <1>3, <1>4, <1>5 DEF RemovalStep

LEMMA NextRemovals ==
    ASSUME TypeOK, RemovalSettled, \A a, b \in Admins : a = b, [Next]_vars
    PROVE  /\ RemovalSettled'
           /\ \A i \in Ids : Status(i) \in Active => Status(i)' # "absent"
<1> DEFINE Goal == /\ RemovalSettled'
                   /\ \A i \in Ids :
                         Status(i) \in Active => Status(i)' # "absent"
<1>stay. ASSUME RowsStay, removal' = removal
         PROVE  Goal
  BY <1>stay, RowsStayKeeps DEF RowsStay
<1>same. ASSUME UNCHANGED scans, removal' = removal
         PROVE  Goal
  BY <1>same, <1>stay, SameRowsStay
<1>1. CASE UNCHANGED vars
  BY <1>1, <1>same DEF vars, disk, requests
<1>2. CASE Request
  <2>1. ASSUME NEW new, BeginAdmission(new) PROVE Goal
    BY <2>1, <1>same DEF BeginAdmission, disk
  <2>2. ASSUME NEW i \in Ids, CancelScan(i) PROVE Goal
    <3>1. "cancelled" \in Terminal
      BY DEF Terminal
    <3>2. RowsStay
      BY <2>2, <3>1, SetStatusRowsStay DEF CancelScan
    <3>3. QED
      BY <2>2, <3>2, <1>stay DEF CancelScan, requests
  <2>3. CASE InsertScans
    BY <2>3, <1>stay, InsertRowsStay
  <2>4. QED
    BY <1>2, <2>1, <2>2, <2>3 DEF Request, RequestScans, RetryScan
<1>3. ASSUME NEW w \in Workers, WorkerStep(w) \/ TrivyExits(w)
      PROVE  Goal
  BY <1>3, <1>stay, WorkerRowsStay
<1>4. CASE Maintain
  BY <1>4, <1>same DEF Maintain, AskExclusive, TakeExclusive, ReleaseExclusive,
                       disk, requests
<1>5. ASSUME NEW a \in Admins, RemovalStep(a)
      PROVE  Goal
  BY <1>5, RemovalRowsStay
<1>6. ASSUME NEW m \in Images, RestoreImage(m)
      PROVE  Goal
  BY <1>6, <1>same DEF RestoreImage, requests
<1>7. CASE Start
  <2>1. \A i \in Ids : \/ Status(i)' = Status(i)
                       \/ Status(i) = "running" /\ Status(i)' = "queued"
    BY <1>7 DEF Start, RecoverJobs, Status, TypeOK, Scan
  <2>2. RowsStay
    BY <2>1 DEF RowsStay, Active, Terminal
  <2>3. QED
    BY <1>7, <1>stay, <2>2 DEF Start, requests
<1>8. CASE Stop
  BY <1>8, <1>same DEF Stop, disk, requests
<1>9. CASE Exit \/ Crash
  <2>1. UNCHANGED scans /\ removal' = [b \in Admins |-> NoRemoval]
    BY <1>9 DEF Exit, Crash, MemoryLost, disk
  <2>2. \A b \in Admins : removal'[b].scans = {}
    BY <2>1 DEF NoRemoval
  <2>3. QED
    BY <2>1, <2>2, SameRowsStay DEF RemovalSettled, RowsStay
<1>10. QED
  BY <1>1, <1>2, <1>3, <1>4, <1>5, <1>6, <1>7, <1>8, <1>9 DEF Next

------------------------------------------------------------------------------
(* The theorems. *)

IndInv == TypeOK /\ Occupied /\ Exclusion /\ Admitted

LEMMA InitIndInv == Init => IndInv
<1> SUFFICES ASSUME Init PROVE IndInv
  OBVIOUS
<1>1. TypeOK
  <2>1. NoScan \in Scan /\ NoRemoval \in Removal
    BY DEF NoScan, Scan, NoRemoval, Removal
  <2>2. QED
    BY <2>1, AtRestType DEF Init, TypeOK
<1>2. Occupied /\ Exclusion
  BY DEF Init, Occupied, Exclusion, AtRest, InScan
<1>3. ActiveScans = {}
  BY DEF Init, ActiveScans, Status, NoScan, Active
<1>4. Admitted
  BY <1>3, FS_EmptySet, ConstantsAssumption
  DEF Init, Admitted, OneActivePerImage, AdmissionFresh, PlaceReserved
<1>5. QED
  BY <1>1, <1>2, <1>4 DEF IndInv

LEMMA NextIndInv == IndInv /\ [Next]_vars => IndInv'
  BY NextType, NextExclusion, NextAdmitted DEF IndInv

(***************************************************************************)
(* The inductive invariant holds always.                                   *)
(***************************************************************************)
THEOREM DispatcherInvariant == SafeSpec => []IndInv
  BY InitIndInv, NextIndInv, PTL DEF SafeSpec

(***************************************************************************)
(* The types, in any reachable state.                                      *)
(***************************************************************************)
THEOREM DispatcherTypes == SafeSpec => []TypeOK
<1>1. IndInv => TypeOK
  BY DEF IndInv
<1>2. QED
  BY <1>1, DispatcherInvariant, PTL

(***************************************************************************)
(* An image never has two active scans, with any number of requests,       *)
(* removal threads and restarts.                                           *)
(***************************************************************************)
THEOREM NoDuplicateScan == SafeSpec => []OneActivePerImage
<1>1. IndInv => OneActivePerImage
  BY DEF IndInv, Admitted
<1>2. QED
  BY <1>1, DispatcherInvariant, PTL

(***************************************************************************)
(* Active scans never exceed the configured capacity, although it is       *)
(* checked in one step and used in another.                                *)
(***************************************************************************)
THEOREM CapacityRespected == SafeSpec => []WithinCapacity
<1>1. IndInv => WithinCapacity
  BY ActiveFinite, AdmitFinite, ConstantsAssumption
  DEF IndInv, Admitted, PlaceReserved, WithinCapacity
<1>2. QED
  BY <1>1, DispatcherInvariant, PTL

(***************************************************************************)
(* No Trivy process runs while maintenance has the database, timeouts,     *)
(* cancellations and shutdowns included.                                   *)
(***************************************************************************)
THEOREM MaintenanceIsAlone == SafeSpec => []MaintenanceAlone
<1>1. IndInv => MaintenanceAlone
  BY DEF IndInv, Occupied, Exclusion, MaintenanceAlone, InScan
<1>2. QED
  BY <1>1, DispatcherInvariant, PTL

(***************************************************************************)
(* With one thread that removes, no removal takes an active scan away:     *)
(* the rows it read as ended before it unlinked their files have not       *)
(* become active again, or another scan's, when it deletes them.           *)
(***************************************************************************)
THEOREM RemovalTakesNoActiveScan ==
    ASSUME \A a, b \in Admins : a = b
    PROVE  SafeSpec => ActiveNotRemoved
<1>1. Init => RemovalSettled
  BY DEF Init, RemovalSettled, NoRemoval
<1>2. TypeOK /\ RemovalSettled /\ [Next]_vars => RemovalSettled'
  BY NextRemovals
<1>3. TypeOK /\ RemovalSettled /\ [Next]_vars =>
        [\A i \in Ids : Status(i) \in Active => Status(i)' # "absent"]_vars
  BY NextRemovals
<1>4. QED
  BY <1>1, <1>2, <1>3, DispatcherTypes, PTL DEF SafeSpec, ActiveNotRemoved
==============================================================================
