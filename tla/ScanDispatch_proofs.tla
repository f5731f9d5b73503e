-------------------------- MODULE ScanDispatch_proofs --------------------------
(***************************************************************************)
(* Proofs about the dispatch of scans, for any images, workers and bounds, *)
(* crashes, shutdowns and restarts, as long as no record is removed        *)
(* (Admins = {}): the id of a removed scan may be given to a new one while *)
(* a worker or the queue still has it, and then these properties fail.     *)
(* Only that an outcome is final holds beside removals, with one worker.   *)
(***************************************************************************)
EXTENDS ScanManager_proofs

Jobs == {Job(w) : w \in Workers} \ {0}

\* Who holds which scan.  A scan that a worker holds is running, or has been
\* cancelled meanwhile; and a running scan has a worker.
JobsKept ==
    /\ \A w \in Workers : workers[w].pc \notin InScan => Job(w) = 0
    /\ \A v, w \in Workers : v # w /\ Job(v) # 0 => Job(v) # Job(w)
    /\ active_ids = Jobs
    /\ \A w \in Workers : Job(w) # 0 =>
          Status(Job(w)) \in {"running", "cancelled"}
    /\ phase # "down" => \A i \in Ids : Status(i) = "running" => i \in Jobs

\* What the queue holds, in which order, and what queued_ids says of it.
QueueKept ==
    phase # "down" =>
        /\ \A i \in ToSet(queue) : /\ Status(i) \in {"queued", "cancelled"}
                                   /\ i \notin Jobs
        /\ \A a, b \in DOMAIN queue : a < b =>
              scans[queue[a]].queued_at < scans[queue[b]].queued_at
        /\ phase = "up" =>
              /\ queued_ids = {i \in ToSet(queue) : Status(i) = "queued"}
              /\ \A i \in Ids : Status(i) = "queued" => i \in ToSet(queue)

\* Nothing is in memory while the backend is down, and requests and the
\* storing of results need it up.
MemoryKept == /\ phase = "down" => /\ queue = <<>>
                                   /\ \A w \in Workers : Job(w) = 0
              /\ phase # "up" => loop = "free"
              /\ \A i \in Ids : Present(i) => scans[i].queued_at <= created

Kept == JobsKept /\ QueueKept /\ MemoryKept

-------------------------------------------------------------------------------
(* Sequences of distinct ids. *)

LEMMA InOrderAll ==
    ASSUME NEW S \in SUBSET Ids, NEW rows, NEW s \in InOrder(S, rows),
           \A i \in S : rows[i].queued_at \in Nat
    PROVE  /\ s \in Seq(Ids) /\ ToSet(s) = S
           /\ DOMAIN s = 1..Len(s)
           /\ \A a, b \in DOMAIN s : a < b =>
                 rows[s[a]].queued_at < rows[s[b]].queued_at
<1>1. IsFiniteSet(S) /\ Cardinality(S) \in Nat
  BY IdsFinite, FS_Subset, FS_CardinalityType
<1>2. /\ s \in [1..Cardinality(S) -> S]
      /\ \A a, b \in DOMAIN s : a < b =>
            rows[s[a]].queued_at < rows[s[b]].queued_at
  BY DEF InOrder
<1>3. s \in Injection(1..Cardinality(S), S)
  <2>1. \A a, b \in 1..Cardinality(S) : s[a] = s[b] => a = b
    <3> SUFFICES ASSUME NEW a \in 1..Cardinality(S),
                        NEW b \in 1..Cardinality(S), a < b
                 PROVE  s[a] # s[b]
      BY <1>1
    <3>1. /\ s[a] \in S /\ s[b] \in S /\ a \in DOMAIN s /\ b \in DOMAIN s
      BY <1>2
    <3>2. rows[s[a]].queued_at < rows[s[b]].queued_at
      BY <1>2, <3>1
    <3>3. rows[s[a]].queued_at \in Nat
      BY <3>1
    <3> QED BY <3>2, <3>3
  <2> QED BY <1>2, <2>1 DEF Injection, IsInjective
<1>4. s \in Surjection(1..Cardinality(S), S)
  <2>1. /\ IsFiniteSet(1..Cardinality(S))
        /\ Cardinality(1..Cardinality(S)) = Cardinality(S)
    BY <1>1, FS_Interval
  <2> QED BY <1>1, <1>3, <2>1, FS_Injection
<1>5. ToSet(s) = S
  BY <1>2, <1>4 DEF ToSet, Surjection
<1>6. s \in Seq(Ids) /\ DOMAIN s = 1..Len(s)
  BY InOrderSeq
<1> QED BY <1>2, <1>5, <1>6

LEMMA TailSet ==
    ASSUME NEW q \in Seq(Ids), q # <<>>
    PROVE  /\ Head(q) = q[1] /\ Head(q) \in Ids
           /\ ToSet(q) = {Head(q)} \cup ToSet(Tail(q))
           /\ DOMAIN Tail(q) = 1..(Len(q) - 1)
           /\ \A a \in DOMAIN Tail(q) : /\ Tail(q)[a] = q[a + 1]
                                        /\ a + 1 \in DOMAIN q
<1>1. /\ Head(q) = q[1] /\ Head(q) \in Ids /\ Len(q) \in Nat \ {0}
      /\ DOMAIN Tail(q) = 1..(Len(q) - 1) /\ DOMAIN q = 1..Len(q)
      /\ \A a \in DOMAIN Tail(q) : Tail(q)[a] = q[a + 1]
  OBVIOUS
<1>2. \A a \in DOMAIN Tail(q) : a + 1 \in DOMAIN q
  BY <1>1
<1>3. ToSet(q) \subseteq {Head(q)} \cup ToSet(Tail(q))
  <2> SUFFICES ASSUME NEW a \in DOMAIN q, a # 1
               PROVE  q[a] \in ToSet(Tail(q))
    BY <1>1 DEF ToSet
  <2>1. a - 1 \in DOMAIN Tail(q) /\ Tail(q)[a - 1] = q[a]
    BY <1>1
  <2> QED BY <2>1 DEF ToSet
<1>4. {Head(q)} \cup ToSet(Tail(q)) \subseteq ToSet(q)
  <2>1. Head(q) \in ToSet(q)
    BY <1>1 DEF ToSet
  <2>2. ToSet(Tail(q)) \subseteq ToSet(q)
    BY <1>1, <1>2 DEF ToSet
  <2> QED BY <2>1, <2>2
<1> QED BY <1>1, <1>2, <1>3, <1>4

LEMMA AppendSet ==
    ASSUME NEW q \in Seq(Ids), NEW s \in Seq(Ids)
    PROVE  /\ ToSet(q \o s) = ToSet(q) \cup ToSet(s)
           /\ DOMAIN (q \o s) = 1..(Len(q) + Len(s))
           /\ \A a \in 1..(Len(q) + Len(s)) :
                 (q \o s)[a] = IF a <= Len(q) THEN q[a] ELSE s[a - Len(q)]
<1>1. /\ Len(q) \in Nat /\ Len(s) \in Nat
      /\ DOMAIN q = 1..Len(q) /\ DOMAIN s = 1..Len(s)
      /\ DOMAIN (q \o s) = 1..(Len(q) + Len(s))
      /\ \A a \in 1..(Len(q) + Len(s)) :
            (q \o s)[a] = IF a <= Len(q) THEN q[a] ELSE s[a - Len(q)]
  OBVIOUS
<1>2. ToSet(q \o s) \subseteq ToSet(q) \cup ToSet(s)
  <2> SUFFICES ASSUME NEW a \in 1..(Len(q) + Len(s))
               PROVE  (q \o s)[a] \in ToSet(q) \cup ToSet(s)
    BY <1>1 DEF ToSet
  <2>1. CASE a <= Len(q)
    BY <1>1, <2>1 DEF ToSet
  <2>2. CASE a > Len(q)
    <3>1. a - Len(q) \in DOMAIN s /\ (q \o s)[a] = s[a - Len(q)]
      BY <1>1, <2>2
    <3> QED BY <3>1 DEF ToSet
  <2> QED BY <1>1, <2>1, <2>2
<1>3. ToSet(q) \subseteq ToSet(q \o s)
  <2> SUFFICES ASSUME NEW a \in DOMAIN q PROVE q[a] \in ToSet(q \o s)
    BY DEF ToSet
  <2>1. a \in DOMAIN (q \o s) /\ (q \o s)[a] = q[a]
    BY <1>1
  <2> QED BY <2>1 DEF ToSet
<1>4. ToSet(s) \subseteq ToSet(q \o s)
  <2> SUFFICES ASSUME NEW a \in DOMAIN s PROVE s[a] \in ToSet(q \o s)
    BY DEF ToSet
  <2>1. Len(q) + a \in DOMAIN (q \o s) /\ (q \o s)[Len(q) + a] = s[a]
    BY <1>1
  <2> QED BY <2>1 DEF ToSet
<1> QED BY <1>1, <1>2, <1>3, <1>4

-------------------------------------------------------------------------------
(* What steps there are, seen from the queue and the table.                *)

SameRow(i) == /\ scans'[i].image = scans[i].image
              /\ scans'[i].queued_at = scans[i].queued_at

SameJob(w) == /\ workers'[w].job = workers[w].job
              /\ workers'[w].pc \notin InScan => workers[w].pc \notin InScan

\* Nothing that dispatch depends on changes; the backend may begin to stop.
Rests ==
    /\ UNCHANGED <<queue, queued_ids, active_ids, created>>
    /\ \A i \in Ids : SameRow(i) /\ Status(i)' = Status(i)
    /\ \A w \in Workers : SameJob(w)
    /\ phase' = phase \/ (phase = "up" /\ phase' = "stopping")
    /\ phase' # "up" => loop' = "free"

\* The worker w gives its scan i back, with an outcome unless it had been
\* cancelled; at shutdown the scan is queued again.
Leaves(w, i) ==
    /\ UNCHANGED <<queue, queued_ids, created, phase>>
    /\ phase # "down"
    /\ i = Job(w) /\ workers[w].pc \in InScan
    /\ \E place \in {"down", "idle"} : Update(w, AtRest(place))
    /\ active_ids' = active_ids \ {i}
    /\ \A j \in Ids : SameRow(j) /\ (j # i => Status(j)' = Status(j))
    /\ IF Status(i) # "running" THEN Status(i)' = Status(i)
       ELSE \/ Status(i)' \in {"completed", "failed"}
            \/ Status(i)' = "queued" /\ phase = "stopping"
    /\ phase' # "up" => loop' = "free"

LEMMA SetStatusRows ==
    ASSUME TypeOK, NEW i \in Ids, NEW s, SetStatus(i, s)
    PROVE  \A j \in Ids : /\ SameRow(j)
                          /\ Status(j)' = IF j = i THEN s ELSE Status(j)
  BY DEF SetStatus, TypeOK, Scan, SameRow, Status

LEMMA SameRows ==
    ASSUME UNCHANGED scans
    PROVE  \A j \in Ids : SameRow(j) /\ Status(j)' = Status(j)
  BY DEF SameRow, Status

\* A scan that a worker holds is present.
LEMMA DroppedIsCancelled ==
    ASSUME JobsKept, NEW w \in Workers, Job(w) \in Ids
    PROVE  /\ Job(w) # 0
           /\ Dropped(Job(w)) => Status(Job(w)) = "cancelled"
           /\ ~Dropped(Job(w)) => Status(Job(w)) = "running"
<1>1. Job(w) # 0
  BY ConstantsAssumption DEF Ids
<1> QED BY <1>1 DEF JobsKept, Dropped

LEMMA FailLeaves ==
    ASSUME IndInv, Kept, NEW w \in Workers, workers[w].pc \in InScan, Fail(w),
           phase = "up", UNCHANGED <<phase, counters>>
    PROVE  \E i \in Ids : Leaves(w, i)
<1>1. PICK i \in Ids : i = Job(w)
  BY DEF IndInv, Occupied
<1>2. \A j \in Ids : SameRow(j) /\ (j # i => Status(j)' = Status(j))
  BY <1>1, SetStatusRows, SameRows DEF Fail, IndInv
<1>3. IF Status(i) # "running" THEN Status(i)' = Status(i)
      ELSE Status(i)' = "failed"
  BY <1>1, DroppedIsCancelled, SetStatusRows, SameRows
  DEF Fail, IndInv, Kept, Dropped
<1>4. Leaves(w, i)
  BY <1>1, <1>2, <1>3
  DEF Fail, EndScan, LeaveScan, Unmark, Leaves, counters
<1> QED BY <1>4

LEMMA AbandonLeaves ==
    ASSUME IndInv, Kept, NEW w \in Workers, workers[w].pc \in InScan,
           Abandon(w), phase = "up", UNCHANGED <<phase, counters>>
    PROVE  \E i \in Ids : Leaves(w, i)
<1>1. PICK i \in Ids : i = Job(w)
  BY DEF IndInv, Occupied
<1>2. \A j \in Ids : SameRow(j) /\ Status(j)' = Status(j)
  BY SameRows DEF Abandon
<1>3. Status(i) = "cancelled"
  BY <1>1, DroppedIsCancelled DEF Abandon, Kept
<1>4. Leaves(w, i)
  BY <1>1, <1>2, <1>3
  DEF Abandon, EndScan, LeaveScan, Unmark, Leaves, counters
<1> QED BY <1>4

LEMMA WorkerShapes ==
    ASSUME IndInv, Kept, NEW w \in Workers, WorkerStep(w) \/ TrivyExits(w)
    PROVE  Dequeue(w) \/ Rests \/ \E i \in Ids : Leaves(w, i)
<1> USE DEF At
<1>job. ASSUME NEW new, Update(w, new), new.job = workers[w].job,
               new.pc \in InScan \/ workers[w].pc = new.pc
        PROVE  \A v \in Workers : SameJob(v)
  BY <1>job DEF Update, SameJob, IndInv, TypeOK
<1>move. ASSUME NEW place, Move(w, place), workers[w].pc \in InScan => place \in InScan
         PROVE  \A v \in Workers : SameJob(v)
  BY <1>move DEF Move, SameJob, IndInv, TypeOK, Worker
<1>up. /\ phase # "up" => loop = "free"
       /\ loop = w => phase = "up"
  BY ConstantsAssumption DEF Kept, MemoryKept
<1>1. CASE AcquireRead(w)
  <2>1. \A v \in Workers : SameJob(v)
    BY <1>1, <1>move DEF AcquireRead, InScan
  <2> QED BY <1>1, <1>up, <2>1, SameRows
          DEF AcquireRead, Rests, disk, dispatch, counters
<1>2. CASE SpawnTrivy(w)
  <2>1. \A v \in Workers : SameJob(v)
    <3>1. /\ [workers[w] EXCEPT !.pc = "run", !.proc = "alive"].job
                = workers[w].job
          /\ [workers[w] EXCEPT !.pc = "run", !.proc = "alive"].pc = "run"
      BY DEF IndInv, TypeOK, Worker
    <3> QED BY <1>2, <1>job, <3>1 DEF SpawnTrivy, InScan
  <2> QED BY <1>2, <1>up, <2>1, SameRows
          DEF SpawnTrivy, Rests, disk, dispatch, counters
<1>3. CASE SpawnFails(w) \/ ReapTimedOut(w)
  BY <1>3, FailLeaves DEF SpawnFails, ReapTimedOut, Runs, InScan
<1>4. CASE TrivyExits(w)
  <2>1. \A code \in {"ok", "error"} :
          /\ [workers[w] EXCEPT !.proc = code].job = workers[w].job
          /\ [workers[w] EXCEPT !.proc = code].pc = workers[w].pc
    BY DEF IndInv, TypeOK, Worker
  <2>2. \A v \in Workers : SameJob(v)
    BY <1>4, <1>job, <2>1 DEF TrivyExits
  <2> QED BY <1>4, <1>up, <2>2, SameRows
          DEF TrivyExits, Rests, dispatch, counters
<1>5. CASE TrivyTimesOut(w)
  <2>1. \A v \in Workers : SameJob(v)
    <3>1. /\ [workers[w] EXCEPT !.pc = "kill", !.signalled = TRUE].job
                = workers[w].job
          /\ [workers[w] EXCEPT !.pc = "kill", !.signalled = TRUE].pc = "kill"
      BY DEF IndInv, TypeOK, Worker
    <3> QED BY <1>5, <1>job, <3>1 DEF TrivyTimesOut, InScan
  <2> QED BY <1>5, <1>up, <2>1, SameRows
          DEF TrivyTimesOut, Rests, disk, dispatch, counters
<1>6. CASE CollectResult(w)
  <2>1. CASE Abandon(w) \/ Fail(w)
    BY <1>6, <2>1, FailLeaves, AbandonLeaves DEF CollectResult, Runs, InScan
  <2>2. CASE /\ Update(w, [workers[w] EXCEPT !.pc = "save",
                                             !.payload = raw[Job(w)]])
             /\ UNCHANGED <<scans, dispatch>>
    <3>1. /\ [workers[w] EXCEPT !.pc = "save",
                                !.payload = raw[Job(w)]].job = workers[w].job
          /\ [workers[w] EXCEPT !.pc = "save",
                                !.payload = raw[Job(w)]].pc = "save"
      BY DEF IndInv, TypeOK, Worker
    <3>2. \A v \in Workers : SameJob(v)
      BY <1>job, <2>2, <3>1 DEF InScan
    <3> QED BY <1>6, <2>2, <3>2, SameRows
            DEF CollectResult, Runs, Rests, dispatch, counters
  <2> QED BY <1>6, <2>1, <2>2 DEF CollectResult
<1>7. CASE SaveResult(w)
  <2>1. CASE Abandon(w)
    BY <1>7, <1>up, <2>1, AbandonLeaves DEF SaveResult, InScan
  <2>2. CASE /\ scans' = [scans EXCEPT ![Job(w)].findings = workers[w].payload]
             /\ Move(w, "complete")
             /\ UNCHANGED <<raw, loop, dispatch, gate>>
    <3>1. \A i \in Ids : SameRow(i) /\ Status(i)' = Status(i)
      BY <2>2 DEF SameRow, Status, IndInv, TypeOK, Scan
    <3>2. \A v \in Workers : SameJob(v)
      BY <1>move, <2>2 DEF InScan
    <3> QED BY <1>7, <1>up, <2>2, <3>1, <3>2
            DEF SaveResult, Rests, dispatch, counters
  <2> QED BY <1>7, <2>1, <2>2 DEF SaveResult
<1>8. CASE CompleteScan(w)
  <2>1. PICK i \in Ids : i = Job(w)
    BY <1>8 DEF CompleteScan, IndInv, Occupied, InScan
  <2>2. \A j \in Ids : SameRow(j) /\ (j # i => Status(j)' = Status(j))
    BY <1>8, <2>1, SetStatusRows, SameRows DEF CompleteScan, IndInv
  <2>3. IF Status(i) # "running" THEN Status(i)' = Status(i)
        ELSE Status(i)' = "completed"
    BY <1>8, <2>1, DroppedIsCancelled, SetStatusRows, SameRows
    DEF CompleteScan, IndInv, Kept, Dropped
  <2>4. Leaves(w, i)
    BY <1>8, <1>up, <2>1, <2>2, <2>3
    DEF CompleteScan, EndScan, LeaveScan, Unmark, Leaves, counters, InScan
  <2> QED BY <2>4
<1>9. CASE StopWorker(w)
  <2>1. CASE workers[w].pc \in InScan /\ LeaveScan(w, "down")
             /\ IF Status(Job(w)) = "running" THEN SetStatus(Job(w), "queued")
                                              ELSE UNCHANGED scans
    <3>1. PICK i \in Ids : i = Job(w)
      BY <2>1 DEF IndInv, Occupied
    <3>2. \A j \in Ids : SameRow(j) /\ (j # i => Status(j)' = Status(j))
      BY <2>1, <3>1, SetStatusRows, SameRows DEF IndInv
    <3>3. IF Status(i) # "running" THEN Status(i)' = Status(i)
          ELSE Status(i)' = "queued"
      BY <2>1, <3>1, SetStatusRows, SameRows DEF IndInv
    <3>4. Leaves(w, i)
      BY <1>9, <1>up, <2>1, <3>1, <3>2, <3>3
      DEF StopWorker, LeaveScan, Unmark, Leaves, counters
    <3> QED BY <3>4
  <2>2. CASE At(w, "idle") /\ Move(w, "down")
             /\ UNCHANGED <<scans, dispatch, gate>>
    <3>1. \A v \in Workers : SameJob(v)
      BY <1>move, <2>2 DEF InScan
    <3> QED BY <1>9, <1>up, <2>2, <3>1, SameRows
            DEF StopWorker, Rests, dispatch, counters
  <2> QED BY <1>9, <2>1, <2>2 DEF StopWorker
<1> QED BY <1>1, <1>2, <1>3, <1>4, <1>5, <1>6, <1>7, <1>8, <1>9 DEF WorkerStep

\* The insertion of the scans new, numbered after last, with their images.
Inserts(last, order, new) ==
    /\ loop = "admission" /\ loop' = "free"
    /\ IsLastId(last)
    /\ new = {i \in Ids : i - last \in DOMAIN order}
    /\ \A a, b \in DOMAIN order : order[a] = order[b] => a = b
    /\ scans' = [i \in Ids |->
          IF i \notin new THEN scans[i]
          ELSE [status |-> "queued", image |-> order[i - last],
                queued_at |-> created + (i - last), findings |-> None]]
    /\ Enqueue(new)
    /\ created' = created + Cardinality(admit)
    /\ UNCHANGED <<phase, active_ids, workers>>

Orders == [1..Cardinality(admit) -> admit]

LEMMA NextShapes ==
    ASSUME IndInv, Kept, Admins = {}, [Next]_vars
    PROVE  \/ Rests
           \/ \E w \in Workers : Dequeue(w) \/ \E i \in Ids : Leaves(w, i)
           \/ \E i \in Ids : CancelScan(i)
           \/ \E last \in 0..MaxScans, order \in Orders, new \in SUBSET Ids :
                 Inserts(last, order, new)
           \/ Start
           \/ MemoryLost
<1>up. /\ phase # "up" => loop = "free"
       /\ loop = "admission" => phase = "up"
  BY DEF Kept, MemoryKept
<1>same. ASSUME UNCHANGED <<scans, queue, queued_ids, active_ids, created, workers,
                            phase>>,
                loop' \in {loop, "free"} \/ phase = "up"
         PROVE  Rests
  BY <1>same, <1>up, SameRows DEF Rests, SameJob
<1>1. CASE UNCHANGED vars
  BY <1>1, <1>same DEF vars, disk, dispatch, counters
<1>2. CASE Request
  <2>1. ASSUME NEW new, BeginAdmission(new) PROVE Rests
    BY <2>1, <1>same DEF BeginAdmission, Runs, disk, dispatch, counters
  <2>2. CASE InsertScans
    <3>1. CASE UNCHANGED <<scans, created, queue, queued_ids>>
      BY <2>2, <3>1, <1>same DEF InsertScans
    <3>2. CASE \E last \in 0..MaxScans, order \in Orders :
                 LET new == {i \in Ids : i - last \in DOMAIN order} IN
                /\ IsLastId(last)
                /\ \A a, b \in DOMAIN order : order[a] = order[b] => a = b
                /\ scans' = [i \in Ids |->
                      IF i \notin new THEN scans[i]
                      ELSE [status |-> "queued", image |-> order[i - last],
                            queued_at |-> created + (i - last),
                            findings |-> None]]
                /\ Enqueue(new)
               /\ created' = created + Cardinality(admit)
      <4> DEFINE New(last, order) == {i \in Ids : i - last \in DOMAIN order}
      <4>1. PICK last \in 0..MaxScans, order \in Orders :
                Inserts(last, order, New(last, order))
        BY <2>2, <3>2 DEF Inserts, InsertScans
      <4>2. New(last, order) \in SUBSET Ids
        OBVIOUS
      <4> QED BY <4>1, <4>2
    <3> QED BY <2>2, <3>1, <3>2 DEF InsertScans, Orders
  <2> QED BY <1>2, <2>1, <2>2 DEF Request, RequestScans, RetryScan
<1>3. CASE Maintain
  BY <1>3, <1>same DEF Maintain, AskExclusive, TakeExclusive,
                       ReleaseExclusive, disk, dispatch, counters
<1>4. ASSUME NEW m \in Images, RestoreImage(m) PROVE Rests
  BY <1>4, <1>same DEF RestoreImage, dispatch, counters
<1>5. CASE Stop
  <2>1. \A w \in Workers : SameJob(w)
    BY <1>5 DEF Stop, SameJob, IndInv, TypeOK, Worker
  <2>2. UNCHANGED scans
    BY <1>5 DEF Stop, disk
  <2> QED BY <1>5, <2>1, <2>2, SameRows DEF Stop, Runs, Rests, dispatch
<1>6. CASE Exit \/ Crash
  BY <1>6 DEF Exit, Crash
<1> QED BY <1>1, <1>2, <1>3, <1>4, <1>5, <1>6, WorkerShapes DEF Next

-------------------------------------------------------------------------------
(* Each of them keeps the invariant.                                       *)

LEMMA RestsKeeps ==
    ASSUME IndInv, Kept, Rests
    PROVE  Kept'
<1>1. Jobs' = Jobs
  BY DEF Jobs, Job, Rests, SameJob
<1>2. JobsKept'
  <2>1. \A i \in Ids : Status(i)' = Status(i)
    BY DEF Rests
  <2>2. \A w \in Workers : /\ workers'[w].job = workers[w].job
                           /\ workers'[w].pc \notin InScan => workers[w].pc \notin InScan
    BY DEF Rests, SameJob
  <2>3. \A w \in Workers : Job(w) # 0 => Job(w) \in Ids
    BY DEF IndInv, TypeOK, Worker, Job
  <2>4. \A w \in Workers : Job(w) # 0 => Status(Job(w))' \in {"running", "cancelled"}
    BY <2>1, <2>2, <2>3 DEF Kept, JobsKept, Status, Job
  <2> QED BY <1>1, <2>1, <2>2, <2>4 DEF Rests, Kept, JobsKept, Job
<1>3. QueueKept'
  BY <1>1 DEF Rests, SameRow, Kept, QueueKept, ToSet, IndInv, TypeOK
<1>4. MemoryKept'
  BY DEF Rests, SameRow, SameJob, Kept, MemoryKept, Job, Present
<1> QED BY <1>2, <1>3, <1>4 DEF Kept

LEMMA LeaveKeeps ==
    ASSUME IndInv, Kept, NEW w \in Workers, NEW i \in Ids, Leaves(w, i)
    PROVE  Kept'
<1>1. /\ i # 0
      /\ workers[w].job = i
      /\ workers'[w].job = 0
      /\ \A v \in Workers \ {w} : workers'[v] = workers[v]
  BY ConstantsAssumption DEF Leaves, Update, AtRest, Job, Ids, IndInv, TypeOK
<1>2. \A v \in Workers \ {w} : workers[v].job # i
  BY <1>1 DEF Kept, JobsKept, Job
<1>3. Jobs' = Jobs \ {i} /\ i \in Jobs
  BY <1>1, <1>2 DEF Jobs, Job
<1>4. \A j \in Ids : j # i => Status(j)' = Status(j)
  BY DEF Leaves
<1>5. Status(i) \in {"running", "cancelled"}
  BY <1>1 DEF Kept, JobsKept, Job
<1>6. Status(i)' # "running"
  BY <1>5 DEF Leaves
<1>7. JobsKept'
  <2>1. \A v \in Workers : workers'[v].job # 0 =>
           /\ v # w /\ workers'[v].job \in Ids /\ workers'[v].job # i
           /\ scans'[workers'[v].job].status = scans[workers[v].job].status
    <3> SUFFICES ASSUME NEW v \in Workers, workers'[v].job # 0
                 PROVE  /\ v # w /\ workers'[v].job \in Ids /\ workers'[v].job # i
                        /\ scans'[workers'[v].job].status = scans[workers[v].job].status
      OBVIOUS
    <3>1. v # w /\ workers'[v] = workers[v]
      BY <1>1
    <3>2. workers[v].job \in Ids /\ workers[v].job # i
      BY <1>2, <3>1 DEF IndInv, TypeOK, Worker
    <3> QED BY <1>4, <3>1, <3>2 DEF Status
  <2>2. \A v \in Workers : workers'[v].job # 0 =>
           scans'[workers'[v].job].status \in {"running", "cancelled"}
    BY <2>1, <1>1 DEF Kept, JobsKept, Job, Status
  <2>3. phase' # "down" => \A j \in Ids : Status(j)' = "running" => j \in Jobs'
    BY <1>3, <1>4, <1>6 DEF Kept, JobsKept, Leaves
  <2>4. active_ids' = Jobs'
    BY <1>3 DEF Kept, JobsKept, Leaves
  <2>5. \A v \in Workers : workers'[v].pc \notin InScan => workers'[v].job = 0
    BY <1>1 DEF Kept, JobsKept, Job
  <2>6. \A u, v \in Workers : u # v /\ workers'[v].job # 0
                                => workers'[v].job # workers'[u].job
    BY <1>1, <2>1 DEF Kept, JobsKept, Job
  <2> QED BY <2>2, <2>3, <2>4, <2>5, <2>6 DEF JobsKept, Job, Status
<1>8. QueueKept'
  <2>1. queue' = queue /\ queued_ids' = queued_ids /\ phase' = phase /\ phase # "down"
    BY DEF Leaves
  <2>2. \A j \in ToSet(queue) : j \in Ids /\ j # i /\ Status(j)' = Status(j)
    BY <1>3, <1>4, <2>1 DEF Kept, QueueKept, ToSet, IndInv, TypeOK
  <2>3. \A a \in DOMAIN queue : queue[a] \in Ids
    BY DEF IndInv, TypeOK
  <2>4. \A j \in Ids : scans'[j].queued_at = scans[j].queued_at
    BY DEF Leaves, SameRow
  <2>5. phase = "up" => Status(i)' # "queued"
    BY <1>5 DEF Leaves
  <2> QED BY <1>3, <1>4, <2>1, <2>2, <2>3, <2>4, <2>5 DEF Kept, QueueKept
<1>9. MemoryKept'
  <2>1. \A j \in Ids : Present(j)' => Present(j)
    BY <1>4, <1>5 DEF Present
  <2> QED BY <2>1 DEF Leaves, SameRow, Kept, MemoryKept
<1> QED BY <1>7, <1>8, <1>9 DEF Kept

LEMMA CancelKeeps ==
    ASSUME IndInv, Kept, NEW i \in Ids, CancelScan(i)
    PROVE  Kept'
<1>1. \A w \in Workers : /\ workers'[w].job = workers[w].job
                         /\ workers'[w].pc = workers[w].pc
  BY DEF CancelScan, IndInv, TypeOK, Worker
<1>2. Jobs' = Jobs
  BY <1>1 DEF Jobs, Job
<1>3. \A j \in Ids : /\ SameRow(j)
                     /\ Status(j)' = IF j = i THEN "cancelled" ELSE Status(j)
  BY SetStatusRows DEF CancelScan, IndInv
<1>4. JobsKept'
  <2>1. \A w \in Workers : workers'[w].job # 0 =>
           scans'[workers'[w].job].status \in {"running", "cancelled"}
    <3>1. \A w \in Workers : workers[w].job # 0 => workers[w].job \in Ids
      BY DEF IndInv, TypeOK, Worker
    <3> QED BY <1>1, <1>3, <3>1 DEF Kept, JobsKept, Job, Status
  <2> QED BY <1>1, <1>2, <1>3, <2>1 DEF Kept, JobsKept, Job, Status, CancelScan
<1>5. QueueKept'
  <2>1. /\ queue' = queue /\ queued_ids' = queued_ids \ {i}
        /\ phase' = phase /\ phase # "down"
    BY DEF CancelScan, Runs
  <2>2. ToSet(queue) \subseteq Ids /\ \A a \in DOMAIN queue : queue[a] \in Ids
    BY DEF ToSet, IndInv, TypeOK
  <2>3. \A j \in Ids : scans'[j].queued_at = scans[j].queued_at
    BY <1>3 DEF SameRow
  <2> QED BY <1>2, <1>3, <2>1, <2>2, <2>3 DEF Kept, QueueKept
<1>6. MemoryKept'
  <2>1. Status(i) # "absent"
    BY DEF CancelScan, Active
  <2> QED BY <1>1, <1>3, <2>1
          DEF CancelScan, SameRow, Kept, MemoryKept, Job, Present, counters
<1> QED BY <1>4, <1>5, <1>6 DEF Kept

LEMMA LossKeeps ==
    ASSUME IndInv, Kept, MemoryLost
    PROVE  Kept'
<1>1. \A w \in Workers : workers'[w].job = 0
  BY DEF MemoryLost, AtRest
<1>2. Jobs' = {}
  BY <1>1 DEF Jobs, Job
<1>3. UNCHANGED <<scans, created>> /\ phase' = "down" /\ loop' = "free"
      /\ active_ids' = {} /\ queue' = <<>>
  BY DEF MemoryLost, disk
<1> QED BY <1>1, <1>2, <1>3
        DEF Kept, JobsKept, QueueKept, MemoryKept, Job, Present, Status

LEMMA StartKeeps ==
    ASSUME IndInv, Kept, Start
    PROVE  Kept'
<1>1. \A w \in Workers : workers'[w].job = 0
  BY DEF Start, AtRest
<1>2. Jobs' = {} /\ Jobs = {}
  BY <1>1 DEF Jobs, Job, Start, Kept, MemoryKept
<1>3. \A j \in Ids : /\ SameRow(j)
                     /\ Status(j)' = IF Status(j) = "running" THEN "queued"
                                     ELSE Status(j)
  BY DEF Start, RecoverJobs, SameRow, Status, IndInv, TypeOK, Scan
<1>4. ActiveScans \in SUBSET Ids
  BY DEF ActiveScans
<1>5. \A i \in ActiveScans : scans[i].queued_at \in Nat
  BY <1>4 DEF IndInv, TypeOK, Scan
<1>6. /\ ToSet(queue') = ActiveScans
      /\ queue' \in Seq(Ids)
      /\ \A a, b \in DOMAIN queue' : a < b =>
            scans[queue'[a]].queued_at < scans[queue'[b]].queued_at
  BY <1>4, <1>5, InOrderAll DEF Start
<1>7. \A j \in ActiveScans : Status(j)' = "queued"
  BY <1>3 DEF ActiveScans, Active
<1>8. \A j \in Ids : Status(j)' = "queued" => j \in ActiveScans
  BY <1>3 DEF ActiveScans, Active
<1>9. JobsKept'
  BY <1>1, <1>2, <1>3 DEF JobsKept, Job, Start, Kept
<1>10. QueueKept'
  <2>1. \A a \in DOMAIN queue' : queue'[a] \in Ids
    BY <1>6
  <2>2. \A a, b \in DOMAIN queue' : a < b =>
            scans'[queue'[a]].queued_at < scans'[queue'[b]].queued_at
    BY <1>3, <1>6, <2>1 DEF SameRow
  <2>3. queued_ids' = ActiveScans
    BY DEF Start, RecoverJobs
  <2> QED BY <1>2, <1>4, <1>6, <1>7, <1>8, <2>2, <2>3 DEF QueueKept
<1>11. MemoryKept'
  <2>1. \A j \in Ids : Present(j)' => Present(j)
    BY <1>3 DEF Present
  <2> QED BY <1>3, <2>1 DEF Start, SameRow, Kept, MemoryKept, counters
<1> QED BY <1>9, <1>10, <1>11 DEF Kept

\* What is left of the queue: in order, and without the scan taken.
LEMMA TailKept ==
    ASSUME IndInv, Kept, phase # "down", queue # <<>>
    PROVE  /\ Head(queue) \in Ids /\ Tail(queue) \in Seq(Ids)
           /\ Head(queue) \in ToSet(queue)
           /\ ToSet(Tail(queue)) = ToSet(queue) \ {Head(queue)}
           /\ \A a, b \in DOMAIN Tail(queue) : a < b =>
                 scans[Tail(queue)[a]].queued_at < scans[Tail(queue)[b]].queued_at
<1>1. queue \in Seq(Ids) /\ Tail(queue) \in Seq(Ids)
  BY DEF IndInv, TypeOK
<1>2. /\ Head(queue) = queue[1] /\ Head(queue) \in Ids
      /\ ToSet(queue) = {Head(queue)} \cup ToSet(Tail(queue))
      /\ DOMAIN Tail(queue) = 1..(Len(queue) - 1)
      /\ \A a \in DOMAIN Tail(queue) : /\ Tail(queue)[a] = queue[a + 1]
                                       /\ a + 1 \in DOMAIN queue
  BY <1>1, TailSet
<1>3. 1 \in DOMAIN queue /\ Len(queue) \in Nat
  BY <1>1
<1>4. \A a, b \in DOMAIN queue : a < b =>
         scans[queue[a]].queued_at < scans[queue[b]].queued_at
  BY DEF Kept, QueueKept
<1>5. \A a \in DOMAIN Tail(queue) : Tail(queue)[a] # Head(queue)
  <2> SUFFICES ASSUME NEW a \in DOMAIN Tail(queue) PROVE Tail(queue)[a] # Head(queue)
    OBVIOUS
  <2>1. a + 1 \in DOMAIN queue /\ 1 < a + 1 /\ Tail(queue)[a] = queue[a + 1]
    BY <1>2, <1>3
  <2>2. scans[queue[1]].queued_at < scans[queue[a + 1]].queued_at
    BY <1>3, <1>4, <2>1
  <2>3. scans[queue[1]].queued_at \in Nat
    BY <1>2 DEF IndInv, TypeOK, Scan
  <2> QED BY <1>2, <2>1, <2>2, <2>3
<1>6. \A a, b \in DOMAIN Tail(queue) : a < b =>
         scans[Tail(queue)[a]].queued_at < scans[Tail(queue)[b]].queued_at
  <2> SUFFICES ASSUME NEW a \in DOMAIN Tail(queue), NEW b \in DOMAIN Tail(queue),
                      a < b
               PROVE  scans[Tail(queue)[a]].queued_at
                        < scans[Tail(queue)[b]].queued_at
    OBVIOUS
  <2>1. /\ a + 1 \in DOMAIN queue /\ b + 1 \in DOMAIN queue /\ a + 1 < b + 1
        /\ Tail(queue)[a] = queue[a + 1] /\ Tail(queue)[b] = queue[b + 1]
    BY <1>2, <1>3
  <2> QED BY <1>4, <2>1
<1>7. Head(queue) \notin ToSet(Tail(queue))
  BY <1>5 DEF ToSet
<1> QED BY <1>1, <1>2, <1>6, <1>7

LEMMA DequeueKeeps ==
    ASSUME IndInv, Kept, NEW w \in Workers, Dequeue(w)
    PROVE  Kept'
<1>1. /\ phase = "up" /\ phase' = phase /\ loop' = loop /\ created' = created
      /\ queue # <<>> /\ queue' = Tail(queue)
      /\ workers[w].pc = "idle"
  BY DEF Dequeue, Runs, At, counters
<1>2. PICK i \in Ids : i = Head(queue)
  BY <1>1, TailKept
<1>3. /\ i # 0
      /\ i \in ToSet(queue) /\ ToSet(queue') = ToSet(queue) \ {i}
      /\ queue' \in Seq(Ids)
      /\ \A a, b \in DOMAIN queue' : a < b =>
            scans[queue'[a]].queued_at < scans[queue'[b]].queued_at
  BY <1>1, <1>2, TailKept, ConstantsAssumption DEF Ids
<1>4. i \notin Jobs /\ Status(i) \in {"queued", "cancelled"}
  BY <1>1, <1>3 DEF Kept, QueueKept
<1>5. workers[w].job = 0
  BY <1>1 DEF Kept, JobsKept, Job, InScan
<1>6. queued_ids' = queued_ids \ {i}
  BY <1>2 DEF Dequeue
<1>7. ToSet(queue) \subseteq Ids /\ \A a \in DOMAIN queue' : queue'[a] \in Ids
  BY <1>3 DEF ToSet, IndInv, TypeOK
\* What follows when the table changes at most in the status of i.
<1>rest. ASSUME \A j \in Ids : SameRow(j) /\ (j # i => Status(j)' = Status(j)),
                Jobs' \subseteq Jobs \cup {i},
                Status(i)' # "queued" /\ Status(i)' # "absent"
         PROVE  QueueKept' /\ \A j \in Ids : Present(j)' => scans'[j].queued_at <= created'
  <2>1. \A a, b \in DOMAIN queue' : a < b =>
            scans'[queue'[a]].queued_at < scans'[queue'[b]].queued_at
    BY <1>3, <1>7, <1>rest DEF SameRow
  <2>2. \A j \in ToSet(queue') : /\ j \in Ids /\ j # i /\ j \in ToSet(queue)
                                 /\ Status(j)' = Status(j)
    BY <1>3, <1>7, <1>rest
  <2>3. \A j \in ToSet(queue') : /\ Status(j)' \in {"queued", "cancelled"}
                                 /\ j \notin Jobs'
    BY <1>1, <1>rest, <2>2 DEF Kept, QueueKept
  <2>4. queued_ids' = {j \in ToSet(queue') : Status(j)' = "queued"}
    BY <1>1, <1>3, <1>6, <2>2 DEF Kept, QueueKept
  <2>5. \A j \in Ids : Status(j)' = "queued" => j \in ToSet(queue')
    BY <1>1, <1>3, <1>rest DEF Kept, QueueKept
  <2>6. \A j \in Ids : Present(j)' => Present(j)
    BY <1>4, <1>rest DEF Present
  <2> QED BY <1>1, <1>rest, <2>1, <2>3, <2>4, <2>5, <2>6
          DEF QueueKept, Kept, MemoryKept, SameRow
<1>8. CASE Status(i) # "queued"
  <2>1. /\ UNCHANGED <<scans, workers>> /\ active_ids' = active_ids \ {i}
    BY <1>2, <1>8 DEF Dequeue, Unmark
  <2>2. Jobs' = Jobs
    BY <2>1 DEF Jobs, Job
  <2>3. \A j \in Ids : SameRow(j) /\ Status(j)' = Status(j)
    BY <2>1, SameRows
  <2>4. JobsKept'
    BY <1>1, <1>4, <2>1, <2>2 DEF Kept, JobsKept, Job, Status
  <2>5. QueueKept' /\ MemoryKept'
    BY <1>1, <1>4, <1>8, <1>rest, <2>2, <2>3 DEF MemoryKept
  <2> QED BY <2>4, <2>5 DEF Kept
<1>9. CASE Status(i) = "queued"
  <2>1. /\ SetStatus(i, "running")
        /\ active_ids' = active_ids \cup {i}
        /\ Update(w, [AtRest("lock") EXCEPT !.job = i,
                                            !.source = scans[i].image])
    BY <1>2, <1>9 DEF Dequeue
  <2>2. /\ workers'[w].job = i /\ workers'[w].pc = "lock"
        /\ \A v \in Workers \ {w} : workers'[v] = workers[v]
    BY <2>1 DEF Update, AtRest, IndInv, TypeOK
  <2>3. \A v \in Workers : workers[v].job # i
    BY <1>3, <1>4 DEF Jobs, Job
  <2>4. Jobs' = Jobs \cup {i}
    BY <1>3, <1>5, <2>2 DEF Jobs, Job
  <2>5. \A j \in Ids : /\ SameRow(j)
                       /\ Status(j)' = IF j = i THEN "running" ELSE Status(j)
    BY <2>1, SetStatusRows DEF IndInv
  <2>6. JobsKept'
    <3>1. \A v \in Workers : workers'[v].job # 0 =>
              scans'[workers'[v].job].status \in {"running", "cancelled"}
      <4>1. \A v \in Workers : workers[v].job # 0 => workers[v].job \in Ids
        BY DEF IndInv, TypeOK, Worker
      <4> QED BY <2>2, <2>3, <2>5, <4>1 DEF Kept, JobsKept, Job, Status
    <3>2. \A v \in Workers : workers'[v].pc \notin InScan => workers'[v].job = 0
      BY <2>2 DEF Kept, JobsKept, Job, InScan
    <3>3. \A u, v \in Workers : u # v /\ workers'[v].job # 0
                                  => workers'[v].job # workers'[u].job
      BY <2>2, <2>3 DEF Kept, JobsKept, Job
    <3>4. active_ids' = Jobs'
      BY <2>1, <2>4 DEF Kept, JobsKept
    <3>5. \A j \in Ids : Status(j)' = "running" => j \in Jobs'
      BY <1>1, <2>4, <2>5 DEF Kept, JobsKept
    <3> QED BY <3>1, <3>2, <3>3, <3>4, <3>5 DEF JobsKept, Job, Status
  <2>7. QueueKept' /\ MemoryKept'
    BY <1>1, <1>rest, <2>4, <2>5 DEF MemoryKept
  <2> QED BY <2>6, <2>7 DEF Kept
<1> QED BY <1>8, <1>9

LEMMA NewIsAbsent ==
    ASSUME IndInv, NEW last \in 0..MaxScans, NEW order \in Orders,
           NEW new \in SUBSET Ids, Inserts(last, order, new)
    PROVE  \A i \in new : /\ i - last \in 1..Cardinality(admit)
                          /\ ~Present(i)
<1>1. Cardinality(admit) \in Nat /\ DOMAIN order = 1..Cardinality(admit)
  BY AdmitFinite DEF IndInv, Orders
<1>2. \A i \in new : i - last \in 1..Cardinality(admit) /\ i \in Ids
  BY <1>1 DEF Inserts
<1> QED BY <1>1, <1>2 DEF Inserts, IsLastId, Ids

LEMMA InsertionKeeps ==
    ASSUME IndInv, Kept, NEW last \in 0..MaxScans, NEW order \in Orders,
           NEW new \in SUBSET Ids, Inserts(last, order, new)
    PROVE  Kept'
<1>1. /\ Cardinality(admit) \in Nat /\ created \in Nat
      /\ DOMAIN order = 1..Cardinality(admit)
  BY AdmitFinite DEF IndInv, TypeOK, Orders
<1>2. phase = "up" /\ phase' = "up" /\ workers' = workers
      /\ active_ids' = active_ids /\ loop' = "free"
  BY DEF Inserts, Kept, MemoryKept
<1>3. \A i \in new : /\ i - last \in 1..Cardinality(admit)
                     /\ ~Present(i)
                     /\ scans'[i].status = "queued"
                     /\ scans'[i].queued_at = created + (i - last)
  BY NewIsAbsent DEF Inserts
<1>4. \A i \in Ids \ new : scans'[i] = scans[i]
  BY DEF Inserts
<1>5. \A i \in Ids : Present(i) => i \notin new
  BY <1>3
<1>6. Jobs' = Jobs /\ \A i \in Jobs : i \in Ids /\ Present(i)
  <2>1. \A w \in Workers : Job(w) # 0 => Job(w) \in Ids /\ Present(Job(w))
    BY DEF Kept, JobsKept, Present, IndInv, TypeOK, Worker, Job
  <2> QED BY <1>2, <2>1 DEF Jobs, Job
<1>7. \A i \in ToSet(queue) : i \in Ids /\ Present(i) /\ i \notin new
  <2>1. \A i \in ToSet(queue) : i \in Ids
    BY DEF ToSet, IndInv, TypeOK
  <2>2. \A i \in ToSet(queue) : Present(i)
    BY <1>2 DEF Kept, QueueKept, Present
  <2> QED BY <1>5, <2>1, <2>2
<1>8. new \ (queued_ids \cup active_ids) = new
  BY <1>2, <1>5, <1>6, <1>7 DEF Kept, QueueKept, JobsKept
<1>9. PICK s \in InOrder(new, scans') : queue' = queue \o s
  BY <1>8 DEF Inserts, Enqueue
<1>10. queued_ids' = queued_ids \cup new
  BY <1>8 DEF Inserts, Enqueue
<1>11. /\ s \in Seq(Ids) /\ ToSet(s) = new /\ DOMAIN s = 1..Len(s)
       /\ \A a, b \in DOMAIN s : a < b =>
             scans'[s[a]].queued_at < scans'[s[b]].queued_at
  <2>1. \A i \in new : scans'[i].queued_at \in Nat
    BY <1>1, <1>3
  <2> QED BY <1>9, <2>1, InOrderAll
<1>12. queue \in Seq(Ids) /\ Len(queue) \in Nat /\ Len(s) \in Nat
       /\ DOMAIN queue = 1..Len(queue)
  BY <1>11 DEF IndInv, TypeOK
<1>13. /\ ToSet(queue') = ToSet(queue) \cup new
       /\ DOMAIN queue' = 1..(Len(queue) + Len(s))
       /\ \A a \in DOMAIN queue' :
             queue'[a] = IF a <= Len(queue) THEN queue[a] ELSE s[a - Len(queue)]
  BY <1>9, <1>11, <1>12, AppendSet
<1>14. JobsKept'
  <2>1. \A w \in Workers : workers[w].job # 0 =>
            /\ workers[w].job \in Jobs
            /\ scans'[workers[w].job] = scans[workers[w].job]
    BY <1>4, <1>5, <1>6 DEF Jobs, Job
  <2>2. \A w \in Workers : workers[w].job # 0 =>
            scans'[workers[w].job].status \in {"running", "cancelled"}
    BY <2>1 DEF Kept, JobsKept, Job, Status
  <2>3. \A i \in Ids : scans'[i].status = "running" => i \in Jobs
    BY <1>2, <1>3, <1>4 DEF Kept, JobsKept, Status
  <2> QED BY <1>2, <1>6, <2>2, <2>3 DEF Kept, JobsKept, Job, Status
<1>15. QueueKept'
  <2>1. \A i \in ToSet(queue) : scans'[i] = scans[i]
    BY <1>4, <1>7
  <2>2. \A i \in ToSet(queue') : /\ Status(i)' \in {"queued", "cancelled"}
                                 /\ i \notin Jobs'
    BY <1>2, <1>3, <1>6, <1>13, <2>1 DEF Kept, QueueKept, Status
  <2>3. \A a, b \in DOMAIN queue' : a < b =>
            scans'[queue'[a]].queued_at < scans'[queue'[b]].queued_at
    <3> SUFFICES ASSUME NEW a \in DOMAIN queue', NEW b \in DOMAIN queue', a < b
                 PROVE  scans'[queue'[a]].queued_at < scans'[queue'[b]].queued_at
      OBVIOUS
    <3>1. CASE b <= Len(queue)
      <4>1. a \in DOMAIN queue /\ b \in DOMAIN queue
            /\ queue'[a] = queue[a] /\ queue'[b] = queue[b]
        BY <1>12, <1>13, <3>1
      <4>2. queue[a] \in ToSet(queue) /\ queue[b] \in ToSet(queue)
        BY <4>1 DEF ToSet
      <4> QED BY <1>2, <2>1, <4>1, <4>2 DEF Kept, QueueKept
    <3>2. CASE a <= Len(queue) /\ b > Len(queue)
      <4>1. a \in DOMAIN queue /\ queue'[a] = queue[a]
            /\ b - Len(queue) \in DOMAIN s /\ queue'[b] = s[b - Len(queue)]
        BY <1>11, <1>12, <1>13, <3>2
      <4>2. queue[a] \in ToSet(queue) /\ queue'[b] \in new
        BY <1>11, <4>1 DEF ToSet
      <4>3. scans'[queue'[a]].queued_at <= created
            /\ scans'[queue'[a]].queued_at \in Nat
        BY <1>7, <2>1, <4>1, <4>2 DEF Kept, MemoryKept, IndInv, TypeOK, Scan
      <4>4. /\ queue'[b] - last \in 1..Cardinality(admit)
            /\ scans'[queue'[b]].queued_at = created + (queue'[b] - last)
        BY <1>3, <4>2
      <4> QED BY <1>1, <4>3, <4>4
    <3>3. CASE a > Len(queue)
      <4>1. /\ a - Len(queue) \in DOMAIN s /\ b - Len(queue) \in DOMAIN s
            /\ a - Len(queue) < b - Len(queue)
            /\ queue'[a] = s[a - Len(queue)] /\ queue'[b] = s[b - Len(queue)]
        BY <1>11, <1>12, <1>13, <3>3
      <4> QED BY <1>11, <4>1
    <3> QED BY <1>12, <1>13, <3>1, <3>2, <3>3
  <2>4. queued_ids' = {i \in ToSet(queue') : Status(i)' = "queued"}
    BY <1>2, <1>3, <1>10, <1>13, <2>1 DEF Kept, QueueKept, Status
  <2>5. \A i \in Ids : Status(i)' = "queued" => i \in ToSet(queue')
    BY <1>2, <1>4, <1>13 DEF Kept, QueueKept, Status
  <2> QED BY <2>2, <2>3, <2>4, <2>5 DEF QueueKept
<1>16. MemoryKept'
  <2>1. created' = created + Cardinality(admit)
    BY DEF Inserts
  <2>2. \A i \in new : scans'[i].queued_at <= created'
    BY <1>1, <1>3, <2>1
  <2>3. \A i \in Ids \ new : Present(i)' => scans'[i].queued_at <= created'
    <3> SUFFICES ASSUME NEW i \in Ids \ new, Present(i)'
                 PROVE  scans'[i].queued_at <= created'
      OBVIOUS
    <3>1. Present(i) /\ scans'[i].queued_at = scans[i].queued_at
      BY <1>4 DEF Present, Status
    <3>2. scans[i].queued_at \in Nat /\ scans[i].queued_at <= created
      BY <3>1 DEF Kept, MemoryKept, IndInv, TypeOK, Scan
    <3> QED BY <1>1, <2>1, <3>1, <3>2
  <2> QED BY <1>2, <2>2, <2>3 DEF MemoryKept
<1> QED BY <1>14, <1>15, <1>16 DEF Kept

LEMMA NextKeeps ==
    ASSUME IndInv, Kept, Admins = {}, [Next]_vars
    PROVE  Kept'
  BY NextShapes, RestsKeeps, LeaveKeeps, DequeueKeeps, CancelKeeps,
     InsertionKeeps, StartKeeps, LossKeeps

LEMMA InitKept == Init => Kept
<1> SUFFICES ASSUME Init PROVE Kept
  OBVIOUS
<1>1. \A w \in Workers : Job(w) = 0
  BY DEF Init, AtRest, Job
<1>2. Jobs = {}
  BY <1>1 DEF Jobs
<1>3. \A i \in Ids : ~Present(i)
  BY DEF Init, Present, Status, NoScan
<1> QED BY <1>1, <1>2, <1>3
        DEF Init, Kept, JobsKept, QueueKept, MemoryKept, Present

-------------------------------------------------------------------------------
(* Outcomes.                                                               *)

LEMMA OutcomesKept ==
    ASSUME IndInv, Kept, Admins = {}, [Next]_vars,
           NEW i \in Ids, Status(i) \in Terminal
    PROVE  Status(i)' = Status(i)
<1> USE DEF Terminal
<1>1. CASE Rests
  BY <1>1 DEF Rests
<1>2. ASSUME NEW w \in Workers, NEW j \in Ids, Leaves(w, j)
      PROVE  Status(i)' = Status(i)
  BY <1>2 DEF Leaves
<1>3. ASSUME NEW w \in Workers, Dequeue(w)
      PROVE  Status(i)' = Status(i)
  <2>1. PICK j \in Ids : j = Head(queue)
    BY <1>3, TailKept DEF Dequeue, Runs
  <2>2. CASE UNCHANGED scans
    BY <2>2, SameRows
  <2>3. CASE Status(j) = "queued" /\ SetStatus(j, "running")
    BY <2>3, SetStatusRows DEF IndInv
  <2> QED BY <1>3, <2>1, <2>2, <2>3 DEF Dequeue
<1>4. ASSUME NEW j \in Ids, CancelScan(j)
      PROVE  Status(i)' = Status(i)
  BY <1>4, SetStatusRows DEF CancelScan, IndInv, Active
<1>5. ASSUME NEW last \in 0..MaxScans, NEW order \in Orders,
             NEW new \in SUBSET Ids, Inserts(last, order, new)
      PROVE  Status(i)' = Status(i)
  <2>1. i \notin new
    BY <1>5, NewIsAbsent DEF Present
  <2> QED BY <1>5, <2>1 DEF Inserts, Status
<1>6. CASE Start
  BY <1>6 DEF Start, RecoverJobs, Status
<1>7. CASE MemoryLost
  BY <1>7, SameRows DEF MemoryLost, disk
<1> QED BY <1>1, <1>2, <1>3, <1>4, <1>5, <1>6, <1>7, NextShapes

-------------------------------------------------------------------------------
(* The ledger: every step maps to one of ScanLedger, or to none.           *)

LEMMA LedgerBecomes ==
    ASSUME NEW i \in Ids, NEW s,
           \A j \in Ids : /\ SameRow(j)
                          /\ Status(j)' = IF j = i THEN s ELSE Status(j)
    PROVE  Ledger!Become(i, s)
  BY DEF Ledger!Become, SameRow

LEMMA LedgerStutters ==
    ASSUME \A j \in Ids : SameRow(j) /\ Status(j)' = Status(j)
    PROVE  UNCHANGED Ledger!vars
  BY DEF Ledger!vars, SameRow

LEMMA LedgerPutsBack ==
    ASSUME NEW back \in SUBSET {i \in Ids : Status(i) = "running"},
           \A j \in Ids : /\ SameRow(j)
                          /\ Status(j)' = IF j \in back THEN "queued"
                                          ELSE Status(j)
    PROVE  Ledger!PutBack
<1>1. /\ back \in SUBSET {i \in Ids : [j \in Ids |-> Status(j)][i] = "running"}
      /\ [j \in Ids |-> Status(j)]' = [i \in Ids |-> IF i \in back THEN "queued"
                                       ELSE [j \in Ids |-> Status(j)][i]]
      /\ UNCHANGED [j \in Ids |-> scans[j].image]
  BY DEF SameRow
<1> QED BY <1>1 DEF Ledger!PutBack

LEMMA LedgerAdmits ==
    ASSUME IndInv, IndInv', NEW last \in 0..MaxScans, NEW order \in Orders,
           NEW new \in SUBSET Ids, Inserts(last, order, new)
    PROVE  Ledger!Admit
<1>1. \A i \in new : /\ i - last \in 1..Cardinality(admit)
                     /\ Status(i) = "absent" /\ Status(i)' = "queued"
                     /\ scans'[i].image = order[i - last]
  BY NewIsAbsent DEF Inserts, Present, Status
<1>2. \A i \in Ids \ new : scans'[i] = scans[i]
  BY DEF Inserts
<1>3. ActiveScans' = ActiveScans \cup new
  BY <1>1, <1>2 DEF ActiveScans, Status, Active
<1>4. Cardinality(ActiveScans \cup new) <= MaxPending
  <2>1. /\ Cardinality(ActiveScans') + Cardinality(admit') <= MaxPending
        /\ Cardinality(ActiveScans') \in Nat /\ Cardinality(admit') \in Nat
    <3>1. /\ IsFiniteSet(ActiveScans') /\ Cardinality(ActiveScans') \in Nat
      <4>1. ActiveScans' \in SUBSET Ids
        BY DEF ActiveScans
      <4> QED BY <4>1, IdsFinite, FS_Subset, FS_CardinalityType
    <3>2. Cardinality(admit') \in Nat
      BY ConstantsAssumption, FS_Subset, FS_CardinalityType DEF IndInv, TypeOK
    <3> QED BY <3>1, <3>2 DEF IndInv, Admitted, PlaceReserved
  <2> QED BY <1>3, <2>1, ConstantsAssumption
<1>5. \A i \in new : /\ scans'[i].image \in Images
                     /\ \A j \in ActiveScans \cup new :
                           scans'[j].image = scans'[i].image => j = i
  <2>1. \A i \in new : order[i - last] \in Images
    BY <1>1 DEF Orders, IndInv, TypeOK
  <2>2. OneActivePerImage'
    BY DEF IndInv, Admitted
  <2> QED BY <1>1, <1>3, <2>1, <2>2 DEF OneActivePerImage
<1>6. Ledger!ActiveScans = ActiveScans
  BY DEF Ledger!ActiveScans, Ledger!Active, ActiveScans, Active
<1>7. /\ [i \in Ids |-> Status(i)]'
           = [i \in Ids |-> IF i \in new THEN "queued"
                            ELSE [j \in Ids |-> Status(j)][i]]
      /\ \A i \in Ids \ new : [j \in Ids |-> scans[j].image]'[i]
                                = [j \in Ids |-> scans[j].image][i]
  BY <1>1, <1>2 DEF Status
<1>8. \A i \in new : [j \in Ids |-> Status(j)][i] = "absent"
  BY <1>1
<1>9. \A i \in new :
         /\ [j \in Ids |-> scans[j].image]'[i] \in Images
         /\ \A j \in Ledger!ActiveScans \cup new :
               [k \in Ids |-> scans[k].image]'[j]
                 = [k \in Ids |-> scans[k].image]'[i] => j = i
  <2>1. ActiveScans \cup new \subseteq Ids
    BY DEF ActiveScans
  <2> QED BY <1>1, <1>5, <1>6, <2>1
<1>10. Ledger!Cardinality(Ledger!ActiveScans \cup new) <= MaxPending
  <2>1. Ledger!Cardinality(ActiveScans \cup new)
          = Cardinality(ActiveScans \cup new)
    BY Zenon DEF Ledger!Cardinality, Cardinality
  <2> QED BY <1>4, <1>6, <2>1
<1> QED BY <1>7, <1>8, <1>9, <1>10, Zenon DEF Ledger!Admit

LEMMA LedgerSimulates ==
    ASSUME IndInv, IndInv', Kept, Admins = {}, [Next]_vars
    PROVE  [Ledger!Next]_(Ledger!vars)
<1>status. \A i \in Ids : [j \in Ids |-> Status(j)][i] = Status(i)
  OBVIOUS
<1>1. CASE Rests
  BY <1>1, LedgerStutters DEF Rests
<1>2. ASSUME NEW w \in Workers, NEW i \in Ids, Leaves(w, i)
      PROVE  [Ledger!Next]_(Ledger!vars)
  <2>1. \A j \in Ids : SameRow(j) /\ (j # i => Status(j)' = Status(j))
    BY <1>2 DEF Leaves
  <2>2. CASE Status(i)' = Status(i)
    BY <2>1, <2>2, LedgerStutters
  <2>3. CASE Status(i) = "running" /\ Status(i)' \in {"completed", "failed"}
    <3>1. PICK s \in {"completed", "failed"} : Status(i)' = s
      BY <2>3
    <3>2. Ledger!Become(i, s)
      BY <2>1, <3>1, LedgerBecomes
    <3>3. Ledger!Settle(i)
      BY <1>status, <2>3, <3>2 DEF Ledger!Settle
    <3> QED BY <3>3 DEF Ledger!Next
  <2>4. CASE Status(i) = "running" /\ Status(i)' = "queued"
    <3>1. Ledger!PutBack
      <4>1. {i} \in SUBSET {j \in Ids : Status(j) = "running"}
        BY <2>4
      <4>2. \A j \in Ids : /\ SameRow(j)
                           /\ Status(j)' = IF j \in {i} THEN "queued"
                                           ELSE Status(j)
        BY <2>1, <2>4
      <4> QED BY <4>1, <4>2, LedgerPutsBack
    <3> QED BY <3>1 DEF Ledger!Next
  <2> QED BY <1>2, <2>2, <2>3, <2>4 DEF Leaves
<1>3. ASSUME NEW w \in Workers, Dequeue(w)
      PROVE  [Ledger!Next]_(Ledger!vars)
  <2>1. PICK i \in Ids : i = Head(queue)
    BY <1>3, TailKept DEF Dequeue, Runs
  <2>2. CASE UNCHANGED scans
    BY <2>2, SameRows, LedgerStutters
  <2>3. CASE Status(i) = "queued" /\ SetStatus(i, "running")
    <3>1. Ledger!Become(i, "running")
      BY <2>3, SetStatusRows, LedgerBecomes DEF IndInv
    <3>2. Ledger!Begin(i)
      BY <1>status, <2>3, <3>1 DEF Ledger!Begin
    <3> QED BY <3>2 DEF Ledger!Next
  <2> QED BY <1>3, <2>1, <2>2, <2>3 DEF Dequeue
<1>4. ASSUME NEW i \in Ids, CancelScan(i)
      PROVE  [Ledger!Next]_(Ledger!vars)
  <2>1. Ledger!Become(i, "cancelled")
    BY <1>4, SetStatusRows, LedgerBecomes DEF CancelScan, IndInv
  <2>2. Ledger!Cancel(i)
    BY <1>4, <1>status, <2>1
    DEF CancelScan, Active, Ledger!Cancel, Ledger!Active
  <2> QED BY <2>2 DEF Ledger!Next
<1>5. ASSUME NEW last \in 0..MaxScans, NEW order \in Orders,
             NEW new \in SUBSET Ids, Inserts(last, order, new)
      PROVE  [Ledger!Next]_(Ledger!vars)
  BY <1>5, LedgerAdmits DEF Ledger!Next
<1>6. CASE Start
  <2>1. \A j \in Ids : /\ SameRow(j)
                       /\ Status(j)' = IF j \in {i \in Ids : Status(i) = "running"}
                                       THEN "queued" ELSE Status(j)
    BY <1>6 DEF Start, RecoverJobs, SameRow, Status, IndInv, TypeOK, Scan
  <2>2. Ledger!PutBack
    BY <2>1, LedgerPutsBack
  <2> QED BY <2>2 DEF Ledger!Next
<1>7. CASE MemoryLost
  BY <1>7, SameRows, LedgerStutters DEF MemoryLost, disk
<1> QED BY <1>1, <1>2, <1>3, <1>4, <1>5, <1>6, <1>7, NextShapes

-------------------------------------------------------------------------------
(* Results: what a worker carries, what a raw file holds and what a row    *)
(* stores are all of the image of the scan.                                *)

Carries(w, i) ==
    workers[w].job = i =>
        /\ workers[w].source = scans[i].image
        /\ workers[w].pc \in {"save", "complete"} => raw[i] = scans[i].image
        /\ workers[w].pc = "save" => workers[w].payload = scans[i].image
        /\ workers[w].pc = "complete" => scans[i].findings = scans[i].image

Stores(i) ==
    /\ raw[i] # None => Present(i) /\ raw[i] = scans[i].image
    /\ Status(i) = "completed" => /\ scans[i].findings = scans[i].image
                                  /\ raw[i] = scans[i].image

ResultsKept == \A i \in Ids : Stores(i) /\ \A w \in Workers : Carries(w, i)

\* What a step may do to the row and the file of a scan without spoiling them,
\* and to a worker.
RowGoesOn(i) ==
    \/ /\ scans'[i].image = scans[i].image
       /\ scans'[i].findings = scans[i].findings
       /\ Present(i) => Present(i)'
       /\ Status(i)' = "completed" => Status(i) = "completed"
    \/ ~Present(i) /\ Status(i)' = "queued"

FileGoesOn(i) ==
    \/ raw'[i] = raw[i]
    \/ /\ raw'[i] = None /\ Status(i)' # "completed"
       /\ \A w \in Workers : workers'[w].job # i

WorkerGoesOn(w) ==
    \/ workers'[w].job = 0
    \/ /\ workers'[w].job = workers[w].job
       /\ workers'[w].source = workers[w].source
       /\ workers'[w].payload = workers[w].payload
       /\ workers'[w].pc \in {"save", "complete"} => workers'[w].pc = workers[w].pc
    \/ /\ workers'[w].source = scans'[workers'[w].job].image
       /\ workers'[w].pc \notin {"save", "complete"}

LEMMA ResultsGoOn ==
    ASSUME IndInv, Kept, ResultsKept, \A i \in Ids : RowGoesOn(i) /\ FileGoesOn(i),
           \A w \in Workers : WorkerGoesOn(w)
    PROVE  ResultsKept'
<1> SUFFICES ASSUME NEW i \in Ids PROVE Stores(i)' /\ \A w \in Workers : Carries(w, i)'
  BY DEF ResultsKept
<1>1. Stores(i)'
  <2>1. Stores(i) /\ RowGoesOn(i) /\ FileGoesOn(i)
    BY DEF ResultsKept
  <2> QED BY <2>1 DEF Stores, RowGoesOn, FileGoesOn, Present
<1>2. ASSUME NEW w \in Workers PROVE Carries(w, i)'
  <2> SUFFICES ASSUME workers'[w].job = i PROVE Carries(w, i)'
    BY DEF Carries
  <2>1. i # 0
    BY ConstantsAssumption DEF Ids
  <2>2. Carries(w, i) /\ RowGoesOn(i) /\ FileGoesOn(i) /\ WorkerGoesOn(w)
    BY DEF ResultsKept
  <2>3. raw'[i] = raw[i]
    BY <2>2 DEF FileGoesOn
  <2>4. CASE workers[w].job = i /\ WorkerGoesOn(w)
    <3>1. Present(i)
      BY <2>1, <2>4 DEF Kept, JobsKept, Job, Present
    <3>2. scans'[i].image = scans[i].image /\ scans'[i].findings = scans[i].findings
      BY <2>2, <3>1 DEF RowGoesOn
    <3> QED BY <2>1, <2>2, <2>3, <2>4, <3>2 DEF Carries, WorkerGoesOn
  <2>5. CASE workers[w].job # i
    BY <2>1, <2>2, <2>5 DEF Carries, WorkerGoesOn
  <2> QED BY <2>2, <2>4, <2>5
<1> QED BY <1>1, <1>2

LEMMA RowStays ==
    ASSUME UNCHANGED scans
    PROVE  \A i \in Ids : RowGoesOn(i)
  BY DEF RowGoesOn, Present, Status

LEMMA RowSet ==
    ASSUME TypeOK, NEW i \in Ids, NEW s, SetStatus(i, s), s \notin {"absent", "completed"}
    PROVE  \A j \in Ids : RowGoesOn(j)
  BY DEF TypeOK, Scan, SetStatus, RowGoesOn, Present, Status

LEMMA FileStays ==
    ASSUME UNCHANGED raw
    PROVE  \A i \in Ids : FileGoesOn(i)
  BY DEF FileGoesOn

LEMMA WorkersStay ==
    ASSUME UNCHANGED workers
    PROVE  \A w \in Workers : WorkerGoesOn(w)
  BY DEF WorkerGoesOn

\* The ways out of run_scan that remove the raw file.
LEMMA DropGoesOn ==
    ASSUME IndInv, Kept, ResultsKept, NEW w \in Workers,
           workers[w].pc \in InScan, Fail(w) \/ Abandon(w)
    PROVE  ResultsKept'
<1>1. PICK i \in Ids : i = Job(w)
  BY DEF IndInv, Occupied
<1>2. /\ workers' = [workers EXCEPT ![w] = AtRest("idle")]
      /\ raw' = [raw EXCEPT ![i] = None]
  BY <1>1 DEF Fail, Abandon, EndScan, LeaveScan, Update, DropRaw
<1>3. UNCHANGED scans \/ SetStatus(i, "failed")
  BY <1>1 DEF Fail, Abandon
<1>4. \A j \in Ids : RowGoesOn(j)
  BY <1>3, RowStays, RowSet DEF IndInv
<1>5. \A v \in Workers : WorkerGoesOn(v)
  BY <1>2 DEF WorkerGoesOn, AtRest, IndInv, TypeOK
<1>6. \A j \in Ids : FileGoesOn(j)
  <2>1. \A j \in Ids \ {i} : raw'[j] = raw[j]
    BY <1>2 DEF IndInv, TypeOK
  <2>2. raw'[i] = None
    BY <1>2 DEF IndInv, TypeOK
  <2>3. Status(i)' # "completed"
    <3>1. Status(i) \in {"running", "cancelled"}
      BY <1>1, DroppedIsCancelled DEF Kept, JobsKept
    <3>2. \A j \in Ids : Status(j)' = Status(j) \/ Status(j)' = "failed"
      BY <1>3, SameRows, SetStatusRows DEF IndInv
    <3> QED BY <3>1, <3>2
  <2>4. \A v \in Workers : workers'[v].job # i
    <3>1. workers'[w].job = 0 /\ \A v \in Workers \ {w} : workers'[v] = workers[v]
      BY <1>2 DEF AtRest, IndInv, TypeOK
    <3>2. i # 0
      BY ConstantsAssumption DEF Ids
    <3>3. \A v \in Workers \ {w} : workers[v].job # i
      BY <1>1, <3>2 DEF Kept, JobsKept, Job
    <3> QED BY <3>1, <3>2, <3>3
  <2> QED BY <2>1, <2>2, <2>3, <2>4 DEF FileGoesOn
<1> QED BY <1>4, <1>5, <1>6, ResultsGoOn

LEMMA ExitGoesOn ==
    ASSUME IndInv, Kept, ResultsKept, NEW w \in Workers, TrivyExits(w)
    PROVE  ResultsKept'
<1>1. PICK i \in Ids : i = workers[w].job
  BY DEF TrivyExits, IndInv, Occupied, Job, InScan
<1>2. UNCHANGED scans
  BY DEF TrivyExits
<1>3. \A j \in Ids : RowGoesOn(j)
  BY <1>2, RowStays
<1>4. \A v \in Workers : WorkerGoesOn(v)
  <2>1. PICK code \in {"ok", "error"} :
          workers' = [workers EXCEPT ![w] = [workers[w] EXCEPT !.proc = code]]
    BY DEF TrivyExits, Update
  <2> QED BY <2>1 DEF WorkerGoesOn, IndInv, TypeOK, Worker
<1>5. CASE UNCHANGED raw
  BY <1>3, <1>4, <1>5, FileStays, ResultsGoOn
<1>6. CASE raw' = [raw EXCEPT ![i] = workers[w].source]
  <2>1. raw'[i] = scans[i].image /\ \A j \in Ids \ {i} : raw'[j] = raw[j]
    BY <1>1, <1>6 DEF ResultsKept, Carries, IndInv, TypeOK
  <2>2. Present(i)
    <3>1. i # 0
      BY ConstantsAssumption DEF Ids
    <3> QED BY <1>1, <3>1 DEF Kept, JobsKept, Job, Present
  <2>3. \A v \in Workers : /\ workers'[v].job = workers[v].job
                           /\ workers'[v].source = workers[v].source
                           /\ workers'[v].payload = workers[v].payload
                           /\ workers'[v].pc = workers[v].pc
    <3>1. PICK code \in {"ok", "error"} :
            workers' = [workers EXCEPT ![w] = [workers[w] EXCEPT !.proc = code]]
      BY DEF TrivyExits, Update
    <3> QED BY <3>1 DEF IndInv, TypeOK, Worker
  <2> SUFFICES ASSUME NEW j \in Ids
               PROVE  Stores(j)' /\ \A v \in Workers : Carries(v, j)'
    BY DEF ResultsKept
  <2>4. Stores(j) /\ \A v \in Workers : Carries(v, j)
    BY DEF ResultsKept
  <2>5. CASE j = i
    BY <1>2, <2>1, <2>2, <2>3, <2>4, <2>5 DEF Stores, Carries, Present, Status
  <2>6. CASE j # i
    BY <1>2, <2>1, <2>3, <2>4, <2>6 DEF Stores, Carries, Present, Status
  <2> QED BY <2>5, <2>6
<1> QED BY <1>1, <1>5, <1>6 DEF TrivyExits, Job

\* The steps of a worker that keeps its scan and leaves rows and files alone.
LEMMA PlaceGoesOn ==
    ASSUME IndInv, Kept, ResultsKept, NEW w \in Workers,
           UNCHANGED <<scans, raw>>, NEW new, Update(w, new),
           new.job = 0 \/ /\ new.job = workers[w].job
                          /\ new.source = workers[w].source
                          /\ new.payload = workers[w].payload
                          /\ new.pc \in {"save", "complete"}
                                => new.pc = workers[w].pc
    PROVE  ResultsKept'
<1>1. \A v \in Workers : WorkerGoesOn(v)
  BY DEF Update, WorkerGoesOn, IndInv, TypeOK
<1> QED BY <1>1, RowStays, FileStays, ResultsGoOn

LEMMA CollectGoesOn ==
    ASSUME IndInv, Kept, ResultsKept, NEW w \in Workers, CollectResult(w)
    PROVE  ResultsKept'
<1>0. workers[w].pc \in InScan
  BY DEF CollectResult, At, InScan
<1>1. CASE Abandon(w) \/ Fail(w)
  BY <1>0, <1>1, DropGoesOn
<1>2. CASE /\ raw[Job(w)] # None
           /\ Update(w, [workers[w] EXCEPT !.pc = "save",
                                           !.payload = raw[Job(w)]])
           /\ UNCHANGED <<scans, raw>>
  <2>1. PICK i \in Ids : i = workers[w].job
    BY <1>0 DEF IndInv, Occupied, Job
  <2>2. Stores(i) /\ \A v \in Workers : Carries(v, i)
    BY DEF ResultsKept
  <2>3. raw[i] = scans[i].image
    BY <1>2, <2>1, <2>2 DEF Stores, Job
  <2>4. /\ workers'[w].job = i /\ workers'[w].pc = "save"
        /\ workers'[w].source = workers[w].source
        /\ workers'[w].payload = scans[i].image
        /\ \A v \in Workers \ {w} : workers'[v] = workers[v]
    BY <1>2, <2>1, <2>3 DEF Update, IndInv, TypeOK, Worker, Job
  <2> SUFFICES ASSUME NEW j \in Ids, NEW v \in Workers
               PROVE  Stores(j)' /\ Carries(v, j)'
    BY DEF ResultsKept
  <2>5. Stores(j) /\ Carries(v, j)
    BY DEF ResultsKept
  <2>6. Stores(j)'
    BY <1>2, <2>5 DEF Stores, Present, Status
  <2>7. Carries(v, j)'
    BY <1>2, <2>1, <2>2, <2>3, <2>4, <2>5 DEF Carries
  <2> QED BY <2>6, <2>7
<1> QED BY <1>1, <1>2 DEF CollectResult

LEMMA SaveGoesOn ==
    ASSUME IndInv, Kept, ResultsKept, NEW w \in Workers, SaveResult(w)
    PROVE  ResultsKept'
<1>0. workers[w].pc \in InScan /\ workers[w].pc = "save"
  BY DEF SaveResult, At, InScan
<1>1. CASE Abandon(w)
  BY <1>0, <1>1, DropGoesOn
<1>2. CASE /\ ~Dropped(Job(w))
           /\ scans' = [scans EXCEPT ![Job(w)].findings = workers[w].payload]
           /\ Move(w, "complete")
           /\ UNCHANGED raw
  <2>1. PICK i \in Ids : i = workers[w].job
    BY <1>0 DEF IndInv, Occupied, Job
  <2>2. Carries(w, i) /\ workers[w].payload = scans[i].image
    BY <1>0, <2>1 DEF ResultsKept, Carries
  <2>3. /\ scans'[i].findings = scans[i].image
        /\ scans'[i].status = scans[i].status
        /\ scans'[i].image = scans[i].image
        /\ \A j \in Ids \ {i} : scans'[j] = scans[j]
    BY <1>2, <2>1, <2>2 DEF Job, IndInv, TypeOK, Scan
  <2>4. /\ workers'[w].job = i /\ workers'[w].pc = "complete"
        /\ workers'[w].source = workers[w].source
        /\ \A v \in Workers \ {w} : workers'[v] = workers[v]
    BY <1>2, <2>1 DEF Move, IndInv, TypeOK, Worker
  <2>5. \A v \in Workers \ {w} : workers[v].job # i
    <3>1. i # 0
      BY ConstantsAssumption DEF Ids
    <3> QED BY <2>1, <3>1 DEF Kept, JobsKept, Job
  <2>6. Status(i) = "running"
    BY <1>2, <2>1, DroppedIsCancelled DEF Kept, Job
  <2> SUFFICES ASSUME NEW j \in Ids, NEW v \in Workers
               PROVE  Stores(j)' /\ Carries(v, j)'
    BY DEF ResultsKept
  <2>7. Stores(j) /\ Carries(v, j)
    BY DEF ResultsKept
  <2>8. Stores(j)'
    BY <1>2, <2>3, <2>6, <2>7 DEF Stores, Present, Status
  <2>9. Carries(v, j)'
    <3> SUFFICES ASSUME workers'[v].job = j PROVE Carries(v, j)'
      BY DEF Carries
    <3>1. CASE v = w
      <4>1. j = i /\ raw'[i] = scans[i].image /\ workers[w].source = scans[i].image
        BY <1>0, <1>2, <2>1, <2>2, <2>4, <3>1 DEF Carries
      <4> QED BY <2>3, <2>4, <3>1, <4>1 DEF Carries
    <3>2. CASE v # w
      <4>1. /\ workers'[v] = workers[v] /\ j # i /\ scans'[j] = scans[j]
            /\ raw'[j] = raw[j]
        BY <1>2, <2>3, <2>4, <2>5, <3>2
      <4> QED BY <2>7, <4>1 DEF Carries
    <3> QED BY <3>1, <3>2
  <2> QED BY <2>8, <2>9
<1> QED BY <1>1, <1>2 DEF SaveResult

LEMMA CompleteGoesOn ==
    ASSUME IndInv, Kept, ResultsKept, NEW w \in Workers, CompleteScan(w)
    PROVE  ResultsKept'
<1>1. PICK i \in Ids : i = workers[w].job
  BY DEF CompleteScan, At, InScan, IndInv, Occupied, Job
<1>2. /\ raw[i] = scans[i].image /\ scans[i].findings = scans[i].image
      /\ raw' = raw
  BY <1>1 DEF CompleteScan, At, ResultsKept, Carries
<1>3. /\ workers'[w].job = 0
      /\ \A v \in Workers \ {w} : workers'[v] = workers[v]
  BY DEF CompleteScan, EndScan, LeaveScan, Update, AtRest, IndInv, TypeOK
<1>4. /\ \A j \in Ids : /\ scans'[j].image = scans[j].image
                        /\ scans'[j].findings = scans[j].findings
                        /\ j # i => Status(j)' = Status(j)
      /\ Status(i)' \in {"completed", Status(i)}
  <2>1. UNCHANGED scans \/ SetStatus(i, "completed")
    BY <1>1 DEF CompleteScan, Job
  <2> QED BY <2>1 DEF SetStatus, Status, IndInv, TypeOK, Scan
<1>5. Present(i)
  <2>1. i # 0
    BY ConstantsAssumption DEF Ids
  <2> QED BY <1>1, <2>1 DEF Kept, JobsKept, Job, Present
<1> SUFFICES ASSUME NEW j \in Ids, NEW v \in Workers
             PROVE  Stores(j)' /\ Carries(v, j)'
  BY DEF ResultsKept
<1>6. Stores(j) /\ Carries(v, j)
  BY DEF ResultsKept
<1>7. Stores(j)'
  BY <1>2, <1>4, <1>5, <1>6 DEF Stores, Present
<1>8. Carries(v, j)'
  <2>1. j # 0
    BY ConstantsAssumption DEF Ids
  <2> QED BY <1>2, <1>3, <1>4, <1>6, <2>1 DEF Carries
<1> QED BY <1>7, <1>8

\* An insertion: a new row takes an id whose row and file are not there.
LEMMA InsertGoesOn ==
    ASSUME IndInv, Kept, ResultsKept, InsertScans
    PROVE  ResultsKept'
<1>1. UNCHANGED <<raw, workers>>
  BY DEF InsertScans
<1>2. CASE UNCHANGED scans
  BY <1>1, <1>2, RowStays, FileStays, WorkersStay, ResultsGoOn
<1>3. CASE ~UNCHANGED scans
  <2>1. PICK last \in 0..MaxScans, order \in Orders :
           LET new == {i \in Ids : i - last \in DOMAIN order} IN
              /\ IsLastId(last)
              /\ \A a, b \in DOMAIN order : order[a] = order[b] => a = b
              /\ scans' = [i \in Ids |->
                    IF i \notin new THEN scans[i]
                    ELSE [status |-> "queued", image |-> order[i - last],
                          queued_at |-> created + (i - last),
                          findings |-> None]]
              /\ Enqueue(new)
    BY <1>3 DEF InsertScans, Orders
  <2>2. ASSUME NEW i \in Ids PROVE RowGoesOn(i)
    <3>1. CASE i - last \notin DOMAIN order
      BY <2>1, <3>1 DEF RowGoesOn, Present, Status
    <3>2. CASE i - last \in DOMAIN order
      <4>1. i - last \in 1..Cardinality(admit) /\ Cardinality(admit) \in Nat
        BY <3>2, AdmitFinite DEF IndInv, Orders
      <4>2. ~Present(i)
        BY <2>1, <4>1 DEF IsLastId, Ids
      <4> QED BY <2>1, <3>2, <4>2 DEF RowGoesOn, Status
    <3> QED BY <3>1, <3>2
  <2> QED BY <1>1, <2>2, FileStays, WorkersStay, ResultsGoOn
<1> QED BY <1>2, <1>3

LEMMA WorkerGoesThrough ==
    ASSUME IndInv, Kept, ResultsKept, NEW w \in Workers,
           WorkerStep(w) \/ TrivyExits(w)
    PROVE  ResultsKept'
<1> USE DEF At
<1>1. CASE Dequeue(w)
  <2>1. PICK i \in Ids : i = Head(queue)
    BY <1>1, TailKept DEF Dequeue, Runs
  <2>2. UNCHANGED raw
    BY <1>1 DEF Dequeue
  <2>3. CASE UNCHANGED <<scans, workers>>
    BY <2>2, <2>3, RowStays, FileStays, WorkersStay, ResultsGoOn
  <2>4. CASE /\ SetStatus(i, "running")
             /\ Update(w, [AtRest("lock") EXCEPT !.job = i,
                                                 !.source = scans[i].image])
    <3>1. \A j \in Ids : RowGoesOn(j)
      BY <2>4, RowSet DEF IndInv
    <3>2. scans'[i].image = scans[i].image
      BY <2>4, SetStatusRows DEF IndInv, SameRow
    <3>3. \A v \in Workers : WorkerGoesOn(v)
      BY <2>4, <3>2 DEF Update, AtRest, WorkerGoesOn, IndInv, TypeOK
    <3> QED BY <2>2, <3>1, <3>3, FileStays, ResultsGoOn
  <2> QED BY <1>1, <2>1, <2>3, <2>4 DEF Dequeue
<1>2. CASE AcquireRead(w)
  <2>1. /\ UNCHANGED <<scans, raw>>
        /\ Update(w, [workers[w] EXCEPT !.pc = "spawn"])
    BY <1>2 DEF AcquireRead, disk, Move, Update
  <2> QED BY <2>1, PlaceGoesOn DEF IndInv, TypeOK, Worker
<1>3. CASE SpawnTrivy(w)
  <2>1. /\ UNCHANGED <<scans, raw>>
        /\ Update(w, [workers[w] EXCEPT !.pc = "run", !.proc = "alive"])
    BY <1>3 DEF SpawnTrivy, disk
  <2> QED BY <2>1, PlaceGoesOn DEF IndInv, TypeOK, Worker
<1>4. CASE SpawnFails(w) \/ ReapTimedOut(w)
  BY <1>4, DropGoesOn DEF SpawnFails, ReapTimedOut, InScan
<1>5. CASE TrivyTimesOut(w)
  <2>1. /\ UNCHANGED <<scans, raw>>
        /\ Update(w, [workers[w] EXCEPT !.pc = "kill", !.signalled = TRUE])
    BY <1>5 DEF TrivyTimesOut, disk
  <2> QED BY <2>1, PlaceGoesOn DEF IndInv, TypeOK, Worker
<1>6. CASE StopWorker(w)
  <2>1. UNCHANGED raw
    BY <1>6 DEF StopWorker
  <2>2. CASE LeaveScan(w, "down")
    <3>1. \A v \in Workers : WorkerGoesOn(v)
      BY <2>2 DEF LeaveScan, Update, AtRest, WorkerGoesOn, IndInv, TypeOK
    <3>2. CASE UNCHANGED scans
      BY <2>1, <3>1, <3>2, RowStays, FileStays, ResultsGoOn
    <3>3. CASE workers[w].pc \in InScan /\ SetStatus(Job(w), "queued")
      <4>1. PICK i \in Ids : i = Job(w)
        BY <3>3 DEF IndInv, Occupied
      <4>2. \A j \in Ids : RowGoesOn(j)
        BY <3>3, <4>1, RowSet DEF IndInv
      <4> QED BY <2>1, <3>1, <4>2, FileStays, ResultsGoOn
    <3> QED BY <1>6, <2>2, <3>2, <3>3 DEF StopWorker
  <2>3. CASE UNCHANGED scans /\ Move(w, "down")
    <3>1. Update(w, [workers[w] EXCEPT !.pc = "down"])
      BY <2>3 DEF Move, Update
    <3> QED BY <2>1, <2>3, <3>1, PlaceGoesOn DEF IndInv, TypeOK, Worker
  <2> QED BY <1>6, <2>2, <2>3 DEF StopWorker
<1> QED BY <1>1, <1>2, <1>3, <1>4, <1>5, <1>6, CollectGoesOn, SaveGoesOn,
           CompleteGoesOn, ExitGoesOn DEF WorkerStep

LEMMA NextGoesOn ==
    ASSUME IndInv, Kept, ResultsKept, Admins = {}, [Next]_vars
    PROVE  ResultsKept'
<1>same. ASSUME UNCHANGED <<scans, raw, workers>> PROVE ResultsKept'
  BY <1>same, RowStays, FileStays, WorkersStay, ResultsGoOn
<1>1. CASE UNCHANGED vars \/ Maintain
  BY <1>1, <1>same DEF vars, disk, Maintain, AskExclusive, TakeExclusive,
                       ReleaseExclusive
<1>2. CASE Request
  <2>1. ASSUME NEW new, BeginAdmission(new) PROVE ResultsKept'
    BY <2>1, <1>same DEF BeginAdmission, disk
  <2>2. ASSUME NEW i \in Ids, CancelScan(i) PROVE ResultsKept'
    <3>1. \A j \in Ids : RowGoesOn(j)
      BY <2>2, RowSet DEF CancelScan, IndInv
    <3>2. \A w \in Workers : WorkerGoesOn(w)
      BY <2>2 DEF CancelScan, WorkerGoesOn, IndInv, TypeOK, Worker
    <3>3. UNCHANGED raw
      BY <2>2 DEF CancelScan
    <3> QED BY <3>1, <3>2, <3>3, FileStays, ResultsGoOn
  <2> QED BY <1>2, <2>1, <2>2, InsertGoesOn DEF Request, RequestScans, RetryScan
<1>3. ASSUME NEW m \in Images, RestoreImage(m) PROVE ResultsKept'
  BY <1>3, <1>same DEF RestoreImage
<1>4. CASE Start
  <2>1. \A w \in Workers : WorkerGoesOn(w)
    BY <1>4 DEF Start, AtRest, WorkerGoesOn
  <2>2. \A j \in Ids : RowGoesOn(j)
    BY <1>4 DEF Start, RecoverJobs, RowGoesOn, Present, Status, IndInv, TypeOK, Scan
  <2>3. UNCHANGED raw
    BY <1>4 DEF Start
  <2> QED BY <2>1, <2>2, <2>3, FileStays, ResultsGoOn
<1>5. CASE Stop
  <2>1. UNCHANGED <<scans, raw>>
    BY <1>5 DEF Stop, disk
  <2>2. \A w \in Workers : WorkerGoesOn(w)
    BY <1>5 DEF Stop, WorkerGoesOn, IndInv, TypeOK, Worker
  <2> QED BY <2>1, <2>2, RowStays, FileStays, ResultsGoOn
<1>6. CASE Exit \/ Crash
  <2>1. UNCHANGED <<scans, raw>>
    BY <1>6 DEF Exit, Crash, MemoryLost, disk
  <2>2. \A w \in Workers : WorkerGoesOn(w)
    BY <1>6 DEF Exit, Crash, MemoryLost, AtRest, WorkerGoesOn
  <2> QED BY <2>1, <2>2, RowStays, FileStays, ResultsGoOn
<1> QED BY <1>1, <1>2, <1>3, <1>4, <1>5, <1>6, WorkerGoesThrough DEF Next

LEMMA InitResults == Init => ResultsKept
<1> SUFFICES ASSUME Init PROVE ResultsKept
  OBVIOUS
<1>1. \A i \in Ids : Stores(i)
  BY DEF Init, Stores, Present, Status, NoScan
<1>2. \A i \in Ids, w \in Workers : Carries(w, i)
  BY ConstantsAssumption DEF Init, AtRest, Carries, Ids
<1> QED BY <1>1, <1>2 DEF ResultsKept

-------------------------------------------------------------------------------
(* Outcomes with one worker, whatever is removed: the id of its scan may    *)
(* come to name another one, but nobody else takes that from the queue.    *)

HeldUnsettled ==
    \A w \in Workers : Job(w) # 0 => Status(Job(w)) \notin {"completed", "failed"}

SettledStays ==
    \A i \in Ids : Status(i) \in Terminal => Status(i)' \in {Status(i), "absent"}

\* No scan gets an outcome, and no worker gets a scan.
NoOutcome ==
    /\ \A i \in Ids : Status(i)' \in {"completed", "failed"} => Status(i)' = Status(i)
    /\ \A w \in Workers : Job(w)' \in {Job(w), 0}

LEMMA NoOutcomeKeeps ==
    ASSUME TypeOK, HeldUnsettled, NoOutcome
    PROVE  HeldUnsettled'
<1>1. ASSUME NEW w \in Workers, Job(w)' # 0
      PROVE  Status(Job(w))' \notin {"completed", "failed"}
  <2>1. Job(w)' = Job(w) /\ Job(w) \in Ids
    BY <1>1 DEF NoOutcome, TypeOK, Worker, Job
  <2>2. Status(Job(w)) \notin {"completed", "failed"}
    BY <1>1, <2>1 DEF HeldUnsettled
  <2>3. PICK i \in Ids : i = Job(w)
    BY <2>1
  <2>4. Status(i)' \notin {"completed", "failed"}
    BY <2>2, <2>3 DEF NoOutcome
  <2> QED BY <2>1, <2>3, <2>4 DEF Status, Job
<1> QED BY <1>1 DEF HeldUnsettled

\* The one worker rests: it holds nothing.
LEMMA RestKeeps ==
    ASSUME TypeOK, NEW w \in Workers, \A v \in Workers : v = w,
           NEW place, Update(w, AtRest(place))
    PROVE  HeldUnsettled'
  BY DEF TypeOK, Update, AtRest, HeldUnsettled, Job

LEMMA HeldScan ==
    ASSUME IndInv, HeldUnsettled, NEW w \in Workers, workers[w].pc \in InScan
    PROVE  \E i \in Ids : /\ i = Job(w)
                          /\ Dropped(i) \/ Status(i) \in Active
<1>1. PICK i \in Ids : i = Job(w)
  BY DEF IndInv, Occupied
<1>2. i # 0
  BY ConstantsAssumption DEF Ids
<1>3. Dropped(i) \/ Status(i) \in Active
  BY <1>1, <1>2
  DEF HeldUnsettled, Dropped, Status, IndInv, TypeOK, Scan, Active, Terminal
<1> QED BY <1>1, <1>3

LEMMA WorkerOutcome ==
    ASSUME IndInv, HeldUnsettled, NEW w \in Workers, \A v \in Workers : v = w,
           WorkerStep(w) \/ TrivyExits(w)
    PROVE  HeldUnsettled' /\ SettledStays
<1> USE DEF At
<1> DEFINE Goal == HeldUnsettled' /\ SettledStays
<1>typed. TypeOK
  BY DEF IndInv
<1>moves. ASSUME \A i \in Ids : Status(i)' = Status(i),
                 Job(w)' \in {Job(w), 0}
          PROVE  Goal
  <2>1. NoOutcome
    BY <1>moves DEF NoOutcome
  <2> QED BY <1>moves, <1>typed, <2>1, NoOutcomeKeeps DEF SettledStays
<1>same. ASSUME UNCHANGED scans, Job(w)' \in {Job(w), 0}
         PROVE  Goal
  BY <1>same, <1>moves, SameRows
<1>ends. ASSUME NEW place, LeaveScan(w, place), workers[w].pc \in InScan,
                \/ UNCHANGED scans
                \/ \E s : SetStatus(Job(w), s) /\ ~Dropped(Job(w))
         PROVE  Goal
  <2>1. HeldUnsettled'
    BY <1>ends, <1>typed, RestKeeps DEF LeaveScan
  <2>2. PICK i \in Ids : i = Job(w) /\ (Dropped(i) \/ Status(i) \in Active)
    BY <1>ends, HeldScan
  <2>3. CASE UNCHANGED scans
    BY <2>1, <2>3, SameRows DEF SettledStays
  <2>4. ASSUME NEW s, SetStatus(i, s), ~Dropped(i)
        PROVE  SettledStays
    BY <1>typed, <2>2, <2>4, SetStatusRows DEF SettledStays, Active, Terminal
  <2> QED BY <1>ends, <2>1, <2>2, <2>3, <2>4
<1>fail. ASSUME Fail(w), workers[w].pc \in InScan PROVE Goal
  BY <1>fail, <1>ends DEF Fail, EndScan
<1>drop. ASSUME Abandon(w), workers[w].pc \in InScan PROVE Goal
  BY <1>drop, <1>ends DEF Abandon, EndScan
<1>1. CASE AcquireRead(w)
  <2>1. Job(w)' = Job(w)
    BY <1>1, <1>typed DEF AcquireRead, Move, TypeOK, Worker, Job
  <2> QED BY <1>1, <1>same, <2>1 DEF AcquireRead, disk
<1>2. CASE SpawnTrivy(w)
  <2>1. Job(w)' = Job(w)
    BY <1>2, <1>typed DEF SpawnTrivy, Update, TypeOK, Worker, Job
  <2> QED BY <1>2, <1>same, <2>1 DEF SpawnTrivy, disk
<1>3. CASE SpawnFails(w) \/ ReapTimedOut(w)
  BY <1>3, <1>fail DEF SpawnFails, ReapTimedOut, InScan
<1>4. CASE TrivyExits(w)
  <2>1. Job(w)' = Job(w)
    BY <1>4, <1>typed DEF TrivyExits, Update, TypeOK, Worker, Job
  <2> QED BY <1>4, <1>same, <2>1 DEF TrivyExits
<1>5. CASE TrivyTimesOut(w)
  <2>1. Job(w)' = Job(w)
    BY <1>5, <1>typed DEF TrivyTimesOut, Update, TypeOK, Worker, Job
  <2> QED BY <1>5, <1>same, <2>1 DEF TrivyTimesOut, disk
<1>6. CASE CollectResult(w)
  <2>1. CASE Abandon(w) \/ Fail(w)
    BY <1>6, <2>1, <1>fail, <1>drop DEF CollectResult, InScan
  <2>2. CASE /\ Update(w, [workers[w] EXCEPT !.pc = "save",
                                             !.payload = raw[Job(w)]])
             /\ UNCHANGED scans
    <3>1. Job(w)' = Job(w)
      BY <2>2, <1>typed DEF Update, TypeOK, Worker, Job
    <3> QED BY <2>2, <1>same, <3>1
  <2> QED BY <1>6, <2>1, <2>2 DEF CollectResult
<1>7. CASE SaveResult(w)
  <2>1. CASE Abandon(w)
    BY <1>7, <2>1, <1>drop DEF SaveResult, InScan
  <2>2. CASE /\ scans' = [scans EXCEPT ![Job(w)].findings = workers[w].payload]
             /\ Move(w, "complete")
    <3>1. \A i \in Ids : Status(i)' = Status(i)
      BY <2>2, <1>typed DEF TypeOK, Scan, Status
    <3>2. Job(w)' = Job(w)
      BY <2>2, <1>typed DEF Move, TypeOK, Worker, Job
    <3> QED BY <1>moves, <3>1, <3>2
  <2> QED BY <1>7, <2>1, <2>2 DEF SaveResult
<1>8. CASE CompleteScan(w)
  BY <1>8, <1>ends DEF CompleteScan, EndScan, InScan
<1>9. CASE StopWorker(w)
  <2>1. CASE /\ workers[w].pc \in InScan
             /\ IF Status(Job(w)) = "running" THEN SetStatus(Job(w), "queued")
                                              ELSE UNCHANGED scans
             /\ LeaveScan(w, "down")
    BY <2>1, <1>ends DEF Dropped
  <2>2. CASE Move(w, "down") /\ UNCHANGED scans
    <3>1. Job(w)' = Job(w)
      BY <2>2, <1>typed DEF Move, TypeOK, Worker, Job
    <3> QED BY <2>2, <1>same, <3>1
  <2> QED BY <1>9, <2>1, <2>2 DEF StopWorker
<1>10. CASE Dequeue(w)
  <2>1. PICK i \in Ids : i = Head(queue)
    BY <1>10, <1>typed DEF Dequeue, TypeOK
  <2>2. CASE UNCHANGED <<scans, workers>>
    BY <2>2, <1>same DEF Job
  <2>3. CASE /\ Status(i) = "queued"
             /\ SetStatus(i, "running")
             /\ Update(w, [AtRest("lock") EXCEPT !.job = i,
                                                 !.source = scans[i].image])
    <3>1. \A j \in Ids : Status(j)' = IF j = i THEN "running" ELSE Status(j)
      BY <2>3, <1>typed, SetStatusRows
    <3>2. workers'[w].job = i
      BY <2>3, <1>typed DEF Update, TypeOK, AtRest
    <3>3. HeldUnsettled'
      BY <3>1, <3>2 DEF HeldUnsettled, Job, Status
    <3> QED BY <2>3, <3>1, <3>3 DEF SettledStays, Terminal
  <2> QED BY <1>10, <2>1, <2>2, <2>3 DEF Dequeue
<1> QED BY <1>1, <1>2, <1>3, <1>4, <1>5, <1>6, <1>7, <1>8, <1>9, <1>10
        DEF WorkerStep

LEMMA NextOutcome ==
    ASSUME IndInv, HeldUnsettled, \A v, w \in Workers : v = w, [Next]_vars
    PROVE  HeldUnsettled' /\ SettledStays
<1> DEFINE Goal == HeldUnsettled' /\ SettledStays
<1>typed. TypeOK
  BY DEF IndInv
<1>moves. ASSUME NoOutcome, SettledStays PROVE Goal
  BY <1>moves, <1>typed, NoOutcomeKeeps
<1>same. ASSUME UNCHANGED scans, \A w \in Workers : Job(w)' \in {Job(w), 0}
         PROVE  Goal
  BY <1>same, <1>moves, SameRows DEF NoOutcome, SettledStays
<1>jobs. ASSUME UNCHANGED workers PROVE \A w \in Workers : Job(w)' \in {Job(w), 0}
  BY <1>jobs DEF Job
<1>told. ASSUME workers' = [w \in Workers |->
                              IF workers[w].proc = "alive"
                              THEN [workers[w] EXCEPT !.signalled = TRUE]
                              ELSE workers[w]]
         PROVE  \A w \in Workers : Job(w)' \in {Job(w), 0}
  BY <1>told, <1>typed DEF TypeOK, Worker, Job
<1>1. CASE UNCHANGED vars
  BY <1>1, <1>same, <1>jobs DEF vars, disk
<1>2. CASE Request
  <2>1. ASSUME NEW new, BeginAdmission(new) PROVE Goal
    BY <2>1, <1>same, <1>jobs DEF BeginAdmission, disk
  <2>2. ASSUME NEW i \in Ids, CancelScan(i) PROVE Goal
    <3>1. \A j \in Ids : Status(j)' = IF j = i THEN "cancelled" ELSE Status(j)
      BY <2>2, <1>typed, SetStatusRows DEF CancelScan
    <3>2. \A w \in Workers : Job(w)' \in {Job(w), 0}
      BY <2>2, <1>typed DEF CancelScan, TypeOK, Worker, Job
    <3>3. NoOutcome /\ SettledStays
      BY <2>2, <3>1, <3>2 DEF CancelScan, NoOutcome, SettledStays, Active, Terminal
    <3> QED BY <3>3, <1>moves
  <2>3. CASE InsertScans
    <3>1. UNCHANGED workers
      BY <2>3 DEF InsertScans
    <3>2. CASE UNCHANGED scans
      BY <3>1, <3>2, <1>same, <1>jobs
    <3>3. CASE scans' # scans
      <4> DEFINE New(last, order) == {i \in Ids : i - last \in DOMAIN order}
      <4>1. PICK last \in 0..MaxScans, order \in Orders :
              /\ IsLastId(last)
              /\ scans' = [i \in Ids |->
                    IF i \notin New(last, order) THEN scans[i]
                    ELSE [status |-> "queued", image |-> order[i - last],
                          queued_at |-> created + (i - last),
                          findings |-> None]]
        BY <2>3, <3>3 DEF InsertScans, Orders
      <4>2. Cardinality(admit) \in Nat /\ DOMAIN order = 1..Cardinality(admit)
        BY <1>typed, AdmitFinite DEF Orders
      <4>3. \A i \in New(last, order) : Status(i) = "absent"
        BY <4>1, <4>2 DEF IsLastId, Ids, Present
      <4>4. NoOutcome /\ SettledStays
        BY <1>jobs, <3>1, <4>1, <4>3
        DEF NoOutcome, SettledStays, Status, Terminal
      <4> QED BY <4>4, <1>moves
    <3> QED BY <3>2, <3>3
  <2> QED BY <1>2, <2>1, <2>2, <2>3 DEF Request, RequestScans, RetryScan
<1>3. ASSUME NEW w \in Workers, WorkerStep(w) \/ TrivyExits(w)
      PROVE  Goal
  BY <1>3, WorkerOutcome
<1>4. CASE Maintain
  BY <1>4, <1>same, <1>jobs
  DEF Maintain, AskExclusive, TakeExclusive, ReleaseExclusive, disk
<1>5. ASSUME NEW a \in Admins, RemovalStep(a)
      PROVE  Goal
  <2>1. UNCHANGED workers
    BY <1>5 DEF RemovalStep, RemoveScans, RemoveImages, StartRemoval,
                UnlinkFiles, RemovalFails, CommitRemoval
  <2>2. CASE scans' = [i \in Ids |->
                         IF i \in removal[a].scans THEN NoScan ELSE scans[i]]
    <3>1. \A i \in Ids : Status(i)' \in {Status(i), "absent"}
      BY <2>2 DEF NoScan, Status
    <3>2. NoOutcome /\ SettledStays
      BY <1>jobs, <2>1, <3>1 DEF NoOutcome, SettledStays
    <3> QED BY <3>2, <1>moves
  <2>3. CASE UNCHANGED scans
    BY <2>1, <2>3, <1>same, <1>jobs
  <2> QED BY <1>5, <2>2, <2>3
          DEF RemovalStep, RemoveScans, RemoveImages, StartRemoval,
              UnlinkFiles, RemovalFails, CommitRemoval, disk
<1>6. ASSUME NEW m \in Images, RestoreImage(m)
      PROVE  Goal
  BY <1>6, <1>same, <1>jobs DEF RestoreImage
<1>7. CASE Start
  <2>1. \A i \in Ids : \/ Status(i)' = Status(i)
                       \/ Status(i) = "running" /\ Status(i)' = "queued"
    BY <1>7, <1>typed DEF Start, RecoverJobs, Status, TypeOK, Scan
  <2>2. \A w \in Workers : Job(w)' = 0
    BY <1>7 DEF Start, AtRest, Job
  <2>3. NoOutcome /\ SettledStays
    BY <2>1, <2>2 DEF NoOutcome, SettledStays, Terminal
  <2> QED BY <2>3, <1>moves
<1>8. CASE Stop
  BY <1>8, <1>told, <1>same DEF Stop, disk
<1>9. CASE Exit \/ Crash
  <2>1. \A w \in Workers : Job(w)' = 0
    BY <1>9 DEF Exit, Crash, MemoryLost, AtRest, Job
  <2> QED BY <1>9, <2>1, <1>same DEF Exit, Crash, MemoryLost, disk
<1> QED BY <1>1, <1>2, <1>3, <1>4, <1>5, <1>6, <1>7, <1>8, <1>9 DEF Next

-------------------------------------------------------------------------------
(* The theorems.                                                           *)

(***************************************************************************)
(* The dispatch invariant holds always.                                    *)
(***************************************************************************)
THEOREM DispatchInvariant ==
    ASSUME Admins = {}
    PROVE  SafeSpec => [](IndInv /\ Kept)
<1>1. IndInv /\ Kept /\ [Next]_vars => (IndInv /\ Kept)'
  BY NextIndInv, NextKeeps
<1>2. Init => IndInv /\ Kept
  BY InitIndInv, InitKept
<1> QED BY <1>1, <1>2, PTL DEF SafeSpec

(***************************************************************************)
(* While the backend is up every queued scan is in the queue and every     *)
(* running one has a worker, with any number of workers and restarts.      *)
(***************************************************************************)
THEOREM NoScanIsStranded ==
    ASSUME Admins = {}
    PROVE  SafeSpec => []NoStrandedScan
<1>1. Kept => NoStrandedScan
  BY DEF Kept, JobsKept, QueueKept, NoStrandedScan, Jobs
<1> QED BY <1>1, DispatchInvariant, PTL

(***************************************************************************)
(* The two sets of ids that enqueue() trusts say what is in the queue and  *)
(* what has a worker, and no scan has two workers.                         *)
(***************************************************************************)
THEOREM DispatchIsExact ==
    ASSUME Admins = {}
    PROVE  SafeSpec => []DispatchExact
<1>1. Kept => DispatchExact
  BY DEF Kept, JobsKept, QueueKept, DispatchExact, Jobs
<1> QED BY <1>1, DispatchInvariant, PTL

(***************************************************************************)
(* Scans leave the queue in the order in which they were submitted.        *)
(***************************************************************************)
THEOREM QueueIsFifo ==
    ASSUME Admins = {}
    PROVE  SafeSpec => []FifoQueue
<1>1. IndInv /\ Kept => FifoQueue
  BY DEF IndInv, TypeOK, Kept, QueueKept, MemoryKept, FifoQueue
<1> QED BY <1>1, DispatchInvariant, PTL

(***************************************************************************)
(* The outcome of a scan is final: no worker, cancellation or restart      *)
(* changes it.                                                             *)
(***************************************************************************)
THEOREM OutcomeIsFinal ==
    ASSUME Admins = {}
    PROVE  SafeSpec => SettledIsFinal
<1>1. IndInv /\ Kept /\ [Next]_vars =>
        [\A i \in Ids :
            Status(i) \in Terminal => Status(i)' \in {Status(i), "absent"}]_vars
  BY OutcomesKept
<1> QED BY <1>1, DispatchInvariant, PTL DEF SafeSpec, SettledIsFinal

(***************************************************************************)
(* The same with one worker, whatever scans and images are removed: their  *)
(* ids may be given to new scans while the worker still has the old one.   *)
(***************************************************************************)
THEOREM OutcomeIsFinalForOneWorker ==
    ASSUME \A v, w \in Workers : v = w
    PROVE  SafeSpec => SettledIsFinal
<1>1. Init => HeldUnsettled
  BY DEF Init, HeldUnsettled, AtRest, Job
<1>2. IndInv /\ HeldUnsettled /\ [Next]_vars => HeldUnsettled'
  BY NextOutcome
<1>3. IndInv /\ HeldUnsettled /\ [Next]_vars =>
        [\A i \in Ids :
            Status(i) \in Terminal => Status(i)' \in {Status(i), "absent"}]_vars
  BY NextOutcome DEF SettledStays
<1> QED BY <1>1, <1>2, <1>3, DispatcherInvariant, PTL
        DEF SafeSpec, SettledIsFinal

(***************************************************************************)
(* The dispatcher implements the ledger: every behaviour of it, projected  *)
(* to the statuses and images of the scans, is one of ScanLedger.          *)
(***************************************************************************)
THEOREM DispatcherImplementsLedger ==
    ASSUME Admins = {}
    PROVE  SafeSpec => ImplementsLedger
<1>1. Init => Ledger!Init
  BY DEF Init, Ledger!Init, Status, NoScan
<1>2. /\ IndInv /\ Kept /\ (IndInv /\ Kept)' /\ [Next]_vars
      => [Ledger!Next]_(Ledger!vars)
  BY LedgerSimulates
<1> QED BY <1>1, <1>2, DispatchInvariant, PTL
        DEF SafeSpec, ImplementsLedger, Ledger!Spec

(***************************************************************************)
(* A completed scan holds the findings and the raw result of its own       *)
(* image, whatever failed, timed out, was cancelled or crashed before.     *)
(***************************************************************************)
THEOREM ResultsAreOfTheImage ==
    ASSUME Admins = {}
    PROVE  SafeSpec => []ResultsMatchImage
<1>1. /\ IndInv /\ Kept /\ ResultsKept /\ [Next]_vars
      => (IndInv /\ Kept /\ ResultsKept)'
  BY NextIndInv, NextKeeps, NextGoesOn
<1>2. Init => IndInv /\ Kept /\ ResultsKept
  BY InitIndInv, InitKept, InitResults
<1>3. ResultsKept => ResultsMatchImage
  BY DEF ResultsKept, Stores, ResultsMatchImage, FindingsMatchImage
<1> QED BY <1>1, <1>2, <1>3, PTL DEF SafeSpec
===============================================================================
