---------------------------- MODULE ReadWriteLock ----------------------------
(***************************************************************************)
(* AsyncReadWriteLock of app/locks.py, one asyncio.Condition and three     *)
(* fields.  Between taking the condition's own mutex and leaving it, or    *)
(* sleeping in wait_for, no method suspends, so the mutex is never         *)
(* contended on the event loop and each stretch of code between two        *)
(* suspensions is one action.                                              *)
(*                                                                         *)
(* The condition keeps a FIFO of futures.  A notified task does not run at *)
(* once: others may run first, take or ask for the lock, and the task then *)
(* finds its predicate false and goes back to sleep at the end of the      *)
(* FIFO.  A waiting task may be cancelled (ScanManager.stop and            *)
(* ComponentManager.stop cancel their workers).                            *)
(***************************************************************************)
EXTENDS Integers, FiniteSets, Sequences, SequencesExt

CONSTANTS Readers,          \* tasks that call acquire_read: the scan workers
          Writers,          \* tasks that call acquire_write: component
                            \* maintenance and backup export
          Cancellable       \* the tasks that may be cancelled while they wait

Tasks == Readers \cup Writers

ASSUME TasksAssumption == /\ IsFiniteSet(Tasks)
                          /\ Readers \cap Writers = {}
                          /\ Cancellable \subseteq Tasks

VARIABLES
    readers,                \* self.readers
    writer,                 \* self.writer
    waiting_writers,        \* self.waiting_writers
    pc,                     \* where each task is
    waiters,                \* the condition's futures, oldest first
    notified                \* tasks whose future is done but that have not run

vars == <<readers, writer, waiting_writers, pc, waiters, notified>>

Places == {"idle", "waitRead", "waitWrite", "reading", "writing"}

Init == /\ readers = 0
        /\ writer = FALSE
        /\ waiting_writers = 0
        /\ pc = [t \in Tasks |-> "idle"]
        /\ waiters = <<>>
        /\ notified = {}

------------------------------------------------------------------------------
(* The condition variable. *)

At(place) == {t \in Tasks : pc[t] = place}

GoTo(t, place) == pc' = [pc EXCEPT ![t] = place]

Sleep(t) == waiters' = Append(waiters, t)

\* The first future that is not done yet, as Condition._notify(1) picks it.
FirstAsleep(sleepers) ==
    {sleepers[i] : i \in {j \in DOMAIN sleepers :
                            /\ sleepers[j] \notin notified
                            /\ \A k \in 1..(j - 1) : sleepers[k] \in notified}}

\* The futures without t's, which Condition.wait takes out of the FIFO.
Without(t) == RemoveAt(waiters, CHOOSE i \in DOMAIN waiters : waiters[i] = t)

\* (Mutant) notify() instead of notify_all().
NotifyOne == notified' = notified \cup FirstAsleep(waiters)

NotifyAll == notified' = ToSet(waiters)

\* A notified task runs again and finds its predicate true, or false.
Resume(t) == /\ waiters' = Without(t)
             /\ notified' = notified \ {t}
SleepAgain(t) == /\ waiters' = Append(Without(t), t)
                 /\ notified' = notified \ {t}

------------------------------------------------------------------------------
(* The four methods. *)

\* (Mutants) readers overtake a waiting writer; a writer ignores the readers.
CanReadPastWriters == ~writer
CanWriteOverReaders == ~writer

CanRead == ~writer /\ waiting_writers = 0
CanWrite == ~writer /\ readers = 0

AcquireRead(t) ==
    /\ t \in Readers
    /\ pc[t] = "idle"
    /\ \/ /\ CanRead
          /\ readers' = readers + 1
          /\ GoTo(t, "reading")
          /\ UNCHANGED waiters
       \/ /\ ~CanRead
          /\ Sleep(t)
          /\ GoTo(t, "waitRead")
          /\ UNCHANGED readers
    /\ UNCHANGED <<writer, waiting_writers, notified>>

WakeReader(t) ==
    /\ pc[t] = "waitRead"
    /\ t \in notified
    /\ \/ /\ CanRead
          /\ Resume(t)
          /\ readers' = readers + 1
          /\ GoTo(t, "reading")
       \/ /\ ~CanRead
          /\ SleepAgain(t)
          /\ UNCHANGED <<readers, pc>>
    /\ UNCHANGED <<writer, waiting_writers>>

ReleaseRead(t) ==
    /\ pc[t] = "reading"
    /\ readers' = readers - 1
    /\ IF readers' = 0 THEN NotifyAll ELSE UNCHANGED notified
    /\ GoTo(t, "idle")
    /\ UNCHANGED <<writer, waiting_writers, waiters>>

\* On the way in, waiting_writers goes up, and at once down again when the
\* writer does not have to wait.
AcquireWrite(t) ==
    /\ t \in Writers
    /\ pc[t] = "idle"
    /\ \/ /\ CanWrite
          /\ writer' = TRUE
          /\ GoTo(t, "writing")
          /\ UNCHANGED <<waiting_writers, waiters>>
       \/ /\ ~CanWrite
          /\ waiting_writers' = waiting_writers + 1
          /\ Sleep(t)
          /\ GoTo(t, "waitWrite")
          /\ UNCHANGED writer
    /\ UNCHANGED <<readers, notified>>

WakeWriter(t) ==
    /\ pc[t] = "waitWrite"
    /\ t \in notified
    /\ \/ /\ CanWrite
          /\ Resume(t)
          /\ writer' = TRUE
          /\ waiting_writers' = waiting_writers - 1
          /\ GoTo(t, "writing")
       \/ /\ ~CanWrite
          /\ SleepAgain(t)
          /\ UNCHANGED <<writer, waiting_writers, pc>>
    /\ UNCHANGED readers

ReleaseWrite(t) ==
    /\ pc[t] = "writing"
    /\ writer' = FALSE
    /\ NotifyAll
    /\ GoTo(t, "idle")
    /\ UNCHANGED <<readers, waiting_writers, waiters>>

\* (Mutant) acquire_write without its finally clause.
KeepsWaiting(t) == UNCHANGED waiting_writers

\* The finally clause of acquire_write, passed by a cancelled writer.
StopsWaiting(t) ==
    waiting_writers' = IF pc[t] = "waitWrite" THEN waiting_writers - 1
                                              ELSE waiting_writers

\* CancelledError is raised inside wait_for, whether or not the task had been
\* notified.  CPython's Condition.wait then notifies the next sleeper in its
\* place (since 3.12.2; the image runs 3.12).
CancelWait(t) ==
    /\ t \in Cancellable
    /\ pc[t] \in {"waitRead", "waitWrite"}
    /\ waiters' = Without(t)
    /\ notified' = (notified \ {t}) \cup FirstAsleep(Without(t))
    /\ StopsWaiting(t)
    /\ GoTo(t, "idle")
    /\ UNCHANGED <<readers, writer>>

\* What the event loop runs once the future is done.
Wake(t) == WakeReader(t) \/ WakeWriter(t)
Release(t) == ReleaseRead(t) \/ ReleaseWrite(t)

Next == \E t \in Tasks : \/ AcquireRead(t)
                         \/ AcquireWrite(t)
                         \/ Wake(t)
                         \/ Release(t)
                         \/ CancelWait(t)

SafeSpec == Init /\ [][Next]_vars

\* The event loop runs every ready task, and every holder comes to its
\* finally clause: scans and downloads are bounded by the Trivy timeout.
Fairness == \A t \in Tasks : WF_vars(Wake(t)) /\ WF_vars(Release(t))

Spec == SafeSpec /\ Fairness

------------------------------------------------------------------------------
(* Properties. *)

(***************************************************************************)
(* Maintenance has the database alone: while one task writes, no other     *)
(* task reads or writes, however the tasks were notified and cancelled.    *)
(***************************************************************************)
ExclusiveWriter ==
    \A t \in Tasks : pc[t] = "writing" =>
        \A u \in Tasks \ {t} : pc[u] \notin {"reading", "writing"}

(***************************************************************************)
(* The three fields always say who is in and who waits.  A cancellation    *)
(* that left waiting_writers or readers too high would shut the database   *)
(* for good.                                                               *)
(***************************************************************************)
CountersExact == /\ readers = Cardinality(At("reading"))
                 /\ waiting_writers = Cardinality(At("waitWrite"))
                 /\ writer <=> At("writing") # {}

(***************************************************************************)
(* No lost wake-up: whenever a task sleeps without having been notified,   *)
(* some other task holds the lock or is about to run, and will wake it.    *)
(***************************************************************************)
SleeperHasWaker ==
    \A t \in ToSet(waiters) \ notified :
        \E u \in Tasks \ {t} :
            pc[u] \in {"reading", "writing"} \/ u \in notified

\* The promise this lock implements.
Gate == INSTANCE DatabaseGate WITH
    mode <- [t \in Tasks |->
                CASE pc[t] = "waitRead" -> "askRead"
                  [] pc[t] = "waitWrite" -> "askWrite"
                  [] pc[t] = "reading" -> "read"
                  [] pc[t] = "writing" -> "write"
                  [] OTHER -> "idle"]

(***************************************************************************)
(* Every behaviour of the lock is one DatabaseGate allows: readers and     *)
(* writers enter only when the promise lets them.                          *)
(***************************************************************************)
ImplementsSafeGate == Gate!SafeSpec

(***************************************************************************)
(* ... and a writer that could enter from some point on does enter, even   *)
(* when tasks that wait beside it are cancelled and readers keep coming.   *)
(***************************************************************************)
ImplementsWriterService == Gate!WritersServedSpec

(***************************************************************************)
(* ... and so does a reader, as long as no waiting task is cancelled.      *)
(***************************************************************************)
ImplementsGate == Gate!Spec
==============================================================================
