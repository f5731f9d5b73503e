------------------------- MODULE ReadWriteLock_proofs -------------------------
(***************************************************************************)
(* Proofs about the read/write lock, for any finite set of tasks: its      *)
(* counters are exact, a writer is alone, no wake-up is lost, and every    *)
(* step is a step (or a stutter) of DatabaseGate.                          *)
(***************************************************************************)
EXTENDS ReadWriteLock, FiniteSetTheorems, SequenceTheorems,
        WellFoundedInduction, TLAPS

\* The part of the type invariant the proofs need.
TypeInv == /\ pc \in [Tasks -> Places]
           /\ writer \in BOOLEAN

\* Only scan workers read, and only maintenance writes.
Roles == \A t \in Tasks :
            /\ pc[t] \in {"waitRead", "reading"} => t \in Readers
            /\ pc[t] \in {"waitWrite", "writing"} => t \in Writers

\* ExclusiveWriter is not inductive alone: acquire_write looks at the counters,
\* not at the tasks, so the counters have to be exact.
IndInv == TypeInv /\ Roles /\ CountersExact /\ ExclusiveWriter

(***************************************************************************)
(* One task that moves from one place to another changes the number of     *)
(* tasks at these two places by one, and at no other place.                *)
(***************************************************************************)
LEMMA MoveCounts ==
    ASSUME pc \in [Tasks -> Places],
           NEW t \in Tasks, NEW place \in Places,
           pc[t] # place, GoTo(t, place)
    PROVE  /\ pc' \in [Tasks -> Places]
           /\ \A p \in Places :
                /\ Cardinality(At(p)) \in Nat
                /\ Cardinality(At(p)) = 0 <=> At(p) = {}
                /\ Cardinality(At(p)') =
                      IF p = place THEN Cardinality(At(p)) + 1
                      ELSE IF p = pc[t] THEN Cardinality(At(p)) - 1
                      ELSE Cardinality(At(p))
<1>1. pc' \in [Tasks -> Places]
  BY DEF GoTo
<1>2. ASSUME NEW p \in Places
      PROVE  /\ Cardinality(At(p)) \in Nat
             /\ Cardinality(At(p)) = 0 <=> At(p) = {}
             /\ Cardinality(At(p)') =
                   IF p = place THEN Cardinality(At(p)) + 1
                   ELSE IF p = pc[t] THEN Cardinality(At(p)) - 1
                   ELSE Cardinality(At(p))
  <2>1. IsFiniteSet(At(p))
    <3>1. At(p) \in SUBSET Tasks
      BY DEF At
    <3>2. QED
      BY <3>1, TasksAssumption, FS_Subset
  <2>2. CASE p = place
    <3>1. At(p)' = At(p) \cup {t} /\ t \notin At(p)
      BY <2>2 DEF At, GoTo
    <3>2. QED
      BY <2>1, <2>2, <3>1, FS_AddElement, FS_CardinalityType, FS_EmptySet
  <2>3. CASE p # place /\ p = pc[t]
    <3>1. At(p)' = At(p) \ {t} /\ t \in At(p)
      BY <2>3 DEF At, GoTo
    <3>2. Cardinality(At(p) \ {t}) = Cardinality(At(p)) - 1
      BY <2>1, <3>1, FS_RemoveElement
    <3>3. /\ Cardinality(At(p)) \in Nat
          /\ Cardinality(At(p)) = 0 <=> At(p) = {}
      BY <2>1, FS_CardinalityType, FS_EmptySet
    <3>4. QED
      BY <2>3, <3>1, <3>2, <3>3
  <2>4. CASE p # place /\ p # pc[t]
    <3>1. At(p)' = At(p)
      BY <2>4 DEF At, GoTo
    <3>2. QED
      BY <2>1, <2>4, <3>1, FS_CardinalityType, FS_EmptySet
  <2>5. QED
    BY <2>2, <2>3, <2>4
<1>3. QED
  BY <1>1, <1>2

(***************************************************************************)
(* The inductive invariant holds initially.                                *)
(***************************************************************************)
LEMMA InitIndInv == Init => IndInv
<1> SUFFICES ASSUME Init PROVE IndInv
  OBVIOUS
<1>1. \A p \in Places \ {"idle"} : At(p) = {}
  BY DEF Init, At, Places
<1>2. Cardinality({}) = 0
  BY FS_EmptySet
<1>3. TypeInv /\ Roles /\ ExclusiveWriter
  BY DEF Init, TypeInv, Roles, ExclusiveWriter, Places
<1>4. CountersExact
  BY <1>1, <1>2 DEF Init, CountersExact, Places
<1>5. QED
  BY <1>3, <1>4 DEF IndInv

(***************************************************************************)
(* Every method call, wake-up and cancellation preserves it.               *)
(***************************************************************************)
LEMMA NextIndInv == IndInv /\ [Next]_vars => IndInv'
<1> SUFFICES ASSUME IndInv, [Next]_vars PROVE IndInv'
  OBVIOUS
<1> USE DEF IndInv
\* What a step that leaves every task where it is keeps.
<1>same. ASSUME UNCHANGED <<pc, readers, writer, waiting_writers>>
         PROVE  IndInv'
  BY <1>same DEF TypeInv, Roles, CountersExact, ExclusiveWriter, At
<1>1. CASE UNCHANGED vars
  BY <1>1, <1>same DEF vars
<1>2. ASSUME NEW t \in Tasks, AcquireRead(t) \/ WakeReader(t)
      PROVE  IndInv'
  <2>1. CASE UNCHANGED pc
    <3>1. UNCHANGED <<pc, readers, writer, waiting_writers>>
      BY <1>2, <2>1 DEF AcquireRead, WakeReader, SleepAgain, GoTo, TypeInv
    <3>2. QED
      BY <3>1, <1>same
  <2>2. CASE /\ pc[t] = "idle"
             /\ t \in Readers
             /\ GoTo(t, "waitRead")
             /\ UNCHANGED <<readers, writer, waiting_writers>>
    <3>1. Cardinality(At("reading")') = Cardinality(At("reading"))
          /\ Cardinality(At("waitWrite")') = Cardinality(At("waitWrite"))
          /\ pc' \in [Tasks -> Places]
      BY <2>2, MoveCounts DEF TypeInv, Places
    <3>2. QED
      BY <2>2, <3>1
      DEF GoTo, TypeInv, Roles, CountersExact, ExclusiveWriter, At
  <2>3. CASE /\ pc[t] \in {"idle", "waitRead"}
             /\ t \in Readers
             /\ CanRead
             /\ readers' = readers + 1
             /\ GoTo(t, "reading")
             /\ UNCHANGED <<writer, waiting_writers>>
    <3>1. /\ Cardinality(At("reading")') = Cardinality(At("reading")) + 1
          /\ Cardinality(At("waitWrite")') = Cardinality(At("waitWrite"))
          /\ pc' \in [Tasks -> Places]
      BY <2>3, MoveCounts DEF TypeInv, Places
    <3>2. \A u \in Tasks : pc[u] # "writing" /\ pc'[u] # "writing"
      BY <2>3 DEF CanRead, CountersExact, At, GoTo, TypeInv
    <3>3. QED
      BY <2>3, <3>1, <3>2
      DEF GoTo, TypeInv, Roles, CountersExact, ExclusiveWriter, At
  <2>4. QED
    BY <1>2, <2>1, <2>2, <2>3
    DEF AcquireRead, WakeReader, SleepAgain, Roles
<1>3. ASSUME NEW t \in Tasks, AcquireWrite(t) \/ WakeWriter(t)
      PROVE  IndInv'
  <2>1. CASE UNCHANGED <<pc, writer, waiting_writers>>
    <3>1. UNCHANGED readers
      BY <1>3 DEF AcquireWrite, WakeWriter
    <3>2. QED
      BY <2>1, <3>1, <1>same
  <2>2. CASE /\ pc[t] = "idle"
             /\ t \in Writers
             /\ GoTo(t, "waitWrite")
             /\ waiting_writers' = waiting_writers + 1
             /\ UNCHANGED <<readers, writer>>
    <3>1. /\ Cardinality(At("reading")') = Cardinality(At("reading"))
          /\ Cardinality(At("waitWrite")') = Cardinality(At("waitWrite")) + 1
          /\ pc' \in [Tasks -> Places]
      BY <2>2, MoveCounts DEF TypeInv, Places
    <3>2. QED
      BY <2>2, <3>1
      DEF GoTo, TypeInv, Roles, CountersExact, ExclusiveWriter, At
  <2>3. CASE /\ pc[t] \in {"idle", "waitWrite"}
             /\ t \in Writers
             /\ CanWrite
             /\ writer' = TRUE
             /\ waiting_writers' = IF pc[t] = "waitWrite"
                                   THEN waiting_writers - 1
                                   ELSE waiting_writers
             /\ GoTo(t, "writing")
             /\ UNCHANGED readers
    <3>1. /\ Cardinality(At("reading")') = Cardinality(At("reading"))
          /\ Cardinality(At("waitWrite")') =
                IF pc[t] = "waitWrite" THEN Cardinality(At("waitWrite")) - 1
                ELSE Cardinality(At("waitWrite"))
          /\ Cardinality(At("reading")) = 0 <=> At("reading") = {}
          /\ pc' \in [Tasks -> Places]
      BY <2>3, MoveCounts DEF TypeInv, Places
    <3>2. \A u \in Tasks : pc[u] \notin {"reading", "writing"}
      BY <2>3, <3>1 DEF CanWrite, CountersExact, At
    <3>3. QED
      BY <2>3, <3>1, <3>2
      DEF GoTo, TypeInv, Roles, CountersExact, ExclusiveWriter, At
  <2>4. QED
    BY <1>3, <2>1, <2>2, <2>3
    DEF AcquireWrite, WakeWriter, SleepAgain, Roles
<1>4. ASSUME NEW t \in Tasks, ReleaseRead(t)
      PROVE  IndInv'
  <2>1. /\ Cardinality(At("reading")') = Cardinality(At("reading")) - 1
        /\ Cardinality(At("waitWrite")') = Cardinality(At("waitWrite"))
        /\ pc' \in [Tasks -> Places]
    BY <1>4, MoveCounts DEF ReleaseRead, TypeInv, Places
  <2>2. QED
    BY <1>4, <2>1
    DEF ReleaseRead, GoTo, TypeInv, Roles, CountersExact, ExclusiveWriter, At
<1>5. ASSUME NEW t \in Tasks, ReleaseWrite(t)
      PROVE  IndInv'
  <2>1. /\ Cardinality(At("reading")') = Cardinality(At("reading"))
        /\ Cardinality(At("waitWrite")') = Cardinality(At("waitWrite"))
        /\ pc' \in [Tasks -> Places]
    BY <1>5, MoveCounts DEF ReleaseWrite, TypeInv, Places
  <2>2. \A u \in Tasks : pc'[u] # "writing"
    BY <1>5 DEF ReleaseWrite, GoTo, TypeInv, ExclusiveWriter
  <2>3. QED
    BY <1>5, <2>1, <2>2
    DEF ReleaseWrite, GoTo, TypeInv, Roles, CountersExact, ExclusiveWriter, At
<1>6. ASSUME NEW t \in Tasks, CancelWait(t)
      PROVE  IndInv'
  <2>1. /\ Cardinality(At("reading")') = Cardinality(At("reading"))
        /\ Cardinality(At("waitWrite")') =
              IF pc[t] = "waitWrite" THEN Cardinality(At("waitWrite")) - 1
              ELSE Cardinality(At("waitWrite"))
        /\ pc' \in [Tasks -> Places]
    BY <1>6, MoveCounts DEF CancelWait, TypeInv, Places
  <2>2. QED
    BY <1>6, <2>1
    DEF CancelWait, StopsWaiting, GoTo, TypeInv, Roles, CountersExact,
        ExclusiveWriter, At
<1>7. QED
  BY <1>1, <1>2, <1>3, <1>4, <1>5, <1>6 DEF Next, Wake, Release

(***************************************************************************)
(* The inductive invariant holds throughout.                               *)
(***************************************************************************)
THEOREM LockInvariant == SafeSpec => []IndInv
<1>1. QED
  BY InitIndInv, NextIndInv, PTL DEF SafeSpec

(***************************************************************************)
(* Database maintenance never runs beside a scan or beside other           *)
(* maintenance, for any number of workers (locks.py).                      *)
(***************************************************************************)
THEOREM LockIsExclusive == SafeSpec => []ExclusiveWriter
<1>1. IndInv => ExclusiveWriter
  BY DEF IndInv
<1>2. QED
  BY <1>1, LockInvariant, PTL

(***************************************************************************)
(* The fields of the lock count the tasks that are in and that wait.       *)
(***************************************************************************)
THEOREM LockCountersExact == SafeSpec => []CountersExact
<1>1. IndInv => CountersExact
  BY DEF IndInv
<1>2. QED
  BY <1>1, LockInvariant, PTL

------------------------------------------------------------------------------
(* No lost wake-up. *)

NoTwice(s) == \A i, j \in DOMAIN s : s[i] = s[j] => i = j

Waiting == At("waitRead") \cup At("waitWrite")

\* The condition holds one future for each waiting task and no other.
QueueExact == /\ waiters \in Seq(Tasks)
              /\ NoTwice(waiters)
              /\ ToSet(waiters) = Waiting
              /\ notified \subseteq Waiting

Free == ~writer /\ readers = 0

\* Once nobody is in, every waiting writer has been called: a reader that then
\* goes back to sleep, because a writer waits, leaves a caller behind.
WritersCalled == Free => At("waitWrite") \subseteq notified

\* Once nobody is in, a sleeper always leaves somebody who has been called.
SomeoneCalled == Free /\ Waiting \ notified # {} => notified # {}

WakeInv == QueueExact /\ WritersCalled /\ SomeoneCalled

(***************************************************************************)
(* A sequence without one of its elements.                                 *)
(***************************************************************************)
LEMMA RemovedAt ==
    ASSUME NEW S, NEW s \in Seq(S), NEW i \in DOMAIN s
    PROVE  /\ RemoveAt(s, i) \in Seq(S)
           /\ Len(RemoveAt(s, i)) = Len(s) - 1
           /\ \A j \in 1..(Len(s) - 1) :
                 RemoveAt(s, i)[j] = IF j < i THEN s[j] ELSE s[j + 1]
<1>1. /\ Len(s) \in Nat
      /\ i \in 1..Len(s)
      /\ \A k \in 1..Len(s) : s[k] \in S
  BY LenProperties, ElementOfSeq
<1> DEFINE a == SubSeq(s, 1, i - 1)
           b == SubSeq(s, i + 1, Len(s))
<1>2. /\ a \in Seq(S)
      /\ Len(a) = i - 1
      /\ \A k \in 1..(i - 1) : a[k] = s[k]
  <2>1. \A k \in 1..(i - 1) : s[k] \in S
    BY <1>1
  <2>2. 1 \in Int /\ i - 1 \in Int
    BY <1>1
  <2>3. /\ a \in Seq(S)
        /\ Len(a) = IF 1 <= i - 1 THEN (i - 1) - 1 + 1 ELSE 0
        /\ \A k \in 1..((i - 1) - 1 + 1) : a[k] = s[1 + k - 1]
    BY <2>1, <2>2, SubSeqProperties
  <2>4. QED
    BY <1>1, <2>3
<1>3. /\ b \in Seq(S)
      /\ Len(b) = Len(s) - i
      /\ \A k \in 1..(Len(s) - i) : b[k] = s[k + i]
  <2>1. \A k \in (i + 1)..Len(s) : s[k] \in S
    BY <1>1
  <2>2. i + 1 \in Int /\ Len(s) \in Int
    BY <1>1
  <2>3. /\ b \in Seq(S)
        /\ Len(b) = IF i + 1 <= Len(s) THEN Len(s) - (i + 1) + 1 ELSE 0
        /\ \A k \in 1..(Len(s) - (i + 1) + 1) : b[k] = s[(i + 1) + k - 1]
    BY <2>1, <2>2, SubSeqProperties
  <2>4. QED
    BY <1>1, <2>3
<1> HIDE DEF a, b
<1>4. /\ a \o b \in Seq(S)
      /\ Len(a \o b) = Len(a) + Len(b)
      /\ \A k \in 1..(Len(a) + Len(b)) :
            (a \o b)[k] = IF k <= Len(a) THEN a[k] ELSE b[k - Len(a)]
  BY <1>2, <1>3, ConcatProperties
<1>5. RemoveAt(s, i) = a \o b
  BY DEF RemoveAt, a, b
<1>6. ASSUME NEW j \in 1..(Len(s) - 1)
      PROVE  (a \o b)[j] = IF j < i THEN s[j] ELSE s[j + 1]
  <2>1. CASE j < i
    <3>1. j \in 1..(Len(a) + Len(b)) /\ j <= Len(a) /\ j \in 1..(i - 1)
      BY <1>1, <1>2, <1>3, <2>1
    <3>2. (a \o b)[j] = a[j]
      BY <1>4, <3>1
    <3>3. QED
      BY <1>2, <2>1, <3>1, <3>2
  <2>2. CASE ~(j < i)
    <3>0. /\ Len(s) \in Int /\ i \in Int /\ i <= Len(s) /\ 1 <= i
          /\ Len(a) = i - 1 /\ Len(b) = Len(s) - i
      BY <1>1, <1>2, <1>3
    <3>1. j - (i - 1) \in 1..(Len(s) - i) /\ j \in 1..(Len(a) + Len(b))
      <4>1. j \in Int /\ 1 <= j /\ j <= Len(s) - 1 /\ i <= j
        BY <2>2, <3>0
      <4>2. j \in 1..(Len(a) + Len(b))
        BY <3>0, <4>1
      <4>3. j - (i - 1) \in 1..(Len(s) - i)
        BY <3>0, <4>1
      <4>4. QED
        BY <4>2, <4>3
    <3>2. (a \o b)[j] = b[j - (i - 1)]
      <4>1. ~(j <= Len(a)) /\ j - Len(a) = j - (i - 1)
        BY <2>2, <3>0
      <4>2. (a \o b)[j] = IF j <= Len(a) THEN a[j] ELSE b[j - Len(a)]
        BY <1>4, <3>1
      <4>3. QED
        BY <4>1, <4>2
    <3>3. b[j - (i - 1)] = s[j + 1]
      <4>1. \A k \in 1..(Len(s) - i) : b[k] = s[k + i]
        BY <1>3
      <4>2. b[j - (i - 1)] = s[(j - (i - 1)) + i]
        BY <3>1, <4>1
      <4>3. (j - (i - 1)) + i = j + 1
        BY <3>0
      <4>4. QED
        BY <4>2, <4>3
    <3>4. QED
      BY <2>2, <3>2, <3>3
  <2>3. QED
    BY <2>1, <2>2
<1>7. Len(a \o b) = Len(s) - 1
  BY <1>1, <1>2, <1>3, <1>4
<1>8. QED
  BY Zenon, <1>4, <1>5, <1>6, <1>7

(***************************************************************************)
(* A task that leaves the FIFO leaves every other one in it.               *)
(***************************************************************************)
LEMMA WithoutOne ==
    ASSUME waiters \in Seq(Tasks), NoTwice(waiters), NEW t \in ToSet(waiters)
    PROVE  /\ Without(t) \in Seq(Tasks)
           /\ NoTwice(Without(t))
           /\ ToSet(Without(t)) = ToSet(waiters) \ {t}
<1> DEFINE i == CHOOSE k \in DOMAIN waiters : waiters[k] = t
           s == Without(t)
           n == Len(waiters)
<1>1. i \in DOMAIN waiters /\ waiters[i] = t
  BY DEF ToSet
<1>2. s = RemoveAt(waiters, i)
  BY DEF Without
<1> HIDE DEF i, s
<1>3. /\ s \in Seq(Tasks)
      /\ Len(s) = n - 1
      /\ \A j \in 1..(n - 1) :
            s[j] = IF j < i THEN waiters[j] ELSE waiters[j + 1]
  BY <1>1, <1>2, RemovedAt
<1>4. /\ n \in Nat
      /\ DOMAIN waiters = 1..n
      /\ DOMAIN s = 1..(n - 1)
  BY <1>3, LenProperties
<1>5. NoTwice(s)
  <2> SUFFICES ASSUME NEW j \in 1..(n - 1), NEW k \in 1..(n - 1), s[j] = s[k]
               PROVE  j = k
    BY <1>4 DEF NoTwice
  <2>1. \A x, y \in 1..n : waiters[x] = waiters[y] => x = y
    BY <1>4 DEF NoTwice
  <2>2. /\ s[j] = waiters[j] \/ s[j] = waiters[j + 1]
        /\ s[k] = waiters[k] \/ s[k] = waiters[k + 1]
    BY <1>3
  <2>3. /\ j \in 1..n /\ j + 1 \in 1..n
        /\ k \in 1..n /\ k + 1 \in 1..n
    BY <1>4
  <2>4. CASE j < i /\ k < i
    BY <1>3, <2>1, <2>3, <2>4
  <2>5. CASE j < i /\ ~(k < i)
    <3>1. j = k + 1
      BY <1>3, <2>1, <2>3, <2>5
    <3>2. QED
      BY <1>1, <1>4, <2>5, <3>1
  <2>6. CASE ~(j < i) /\ k < i
    <3>1. j + 1 = k
      BY <1>3, <2>1, <2>3, <2>6
    <3>2. QED
      BY <1>1, <1>4, <2>6, <3>1
  <2>7. CASE ~(j < i) /\ ~(k < i)
    <3>1. j + 1 = k + 1
      BY <1>3, <2>1, <2>3, <2>7
    <3>2. QED
      BY <1>4, <3>1
  <2>8. QED
    BY <2>4, <2>5, <2>6, <2>7
<1>6. ASSUME NEW j \in 1..(n - 1)
      PROVE  s[j] \in ToSet(waiters) \ {t}
  <2>1. j \in 1..n /\ j + 1 \in 1..n /\ i \in 1..n
    BY <1>1, <1>4
  <2>2. CASE j < i
    <3>1. s[j] = waiters[j] /\ j # i
      BY <1>3, <1>4, <2>1, <2>2
    <3>2. QED
      BY <1>1, <1>4, <2>1, <3>1 DEF NoTwice, ToSet
  <2>3. CASE ~(j < i)
    <3>1. s[j] = waiters[j + 1] /\ j + 1 # i
      BY <1>3, <1>4, <2>1, <2>3
    <3>2. QED
      BY <1>1, <1>4, <2>1, <3>1 DEF NoTwice, ToSet
  <2>4. QED
    BY <2>2, <2>3
<1>7. ASSUME NEW u \in ToSet(waiters) \ {t}
      PROVE  \E j \in 1..(n - 1) : s[j] = u
  <2>1. PICK k \in 1..n : waiters[k] = u
    BY <1>4 DEF ToSet
  <2>2. k # i /\ i \in 1..n
    BY <1>1, <1>4, <2>1
  <2>3. CASE k < i
    <3>1. k \in 1..(n - 1) /\ s[k] = u
      BY <1>3, <1>4, <2>1, <2>2, <2>3
    <3>2. QED
      BY <3>1
  <2>4. CASE k > i
    <3>1. k - 1 \in 1..(n - 1) /\ ~(k - 1 < i) /\ (k - 1) + 1 = k
      BY <1>4, <2>2, <2>4
    <3>2. s[k - 1] = waiters[(k - 1) + 1]
      BY <1>3, <3>1
    <3>3. QED
      BY <2>1, <3>1, <3>2
  <2>5. QED
    BY <1>4, <2>2, <2>3, <2>4
<1>8. ToSet(s) = ToSet(waiters) \ {t}
  BY <1>4, <1>6, <1>7 DEF ToSet
<1>9. QED
  BY <1>3, <1>5, <1>8 DEF s

(***************************************************************************)
(* A task that goes to the end of the FIFO joins the others in it.         *)
(***************************************************************************)
LEMMA AppendOne ==
    ASSUME NEW s \in Seq(Tasks), NoTwice(s), NEW t \in Tasks, t \notin ToSet(s)
    PROVE  /\ Append(s, t) \in Seq(Tasks)
           /\ NoTwice(Append(s, t))
           /\ ToSet(Append(s, t)) = ToSet(s) \cup {t}
<1> DEFINE r == Append(s, t)
           n == Len(s)
<1>1. /\ r \in Seq(Tasks)
      /\ Len(r) = n + 1
      /\ \A i \in 1..n : r[i] = s[i]
      /\ r[n + 1] = t
  BY AppendProperties
<1>2. n \in Nat /\ DOMAIN s = 1..n /\ DOMAIN r = 1..(n + 1)
  BY <1>1, LenProperties
<1> HIDE DEF r, n
<1>3. \A i \in 1..(n + 1) : i \in 1..n \/ i = n + 1
  BY <1>2
<1>4. \A i \in 1..n : s[i] \in ToSet(s)
  BY <1>2 DEF ToSet
<1>5. NoTwice(r)
  BY <1>1, <1>2, <1>3, <1>4 DEF NoTwice
<1>6. ToSet(r) = ToSet(s) \cup {t}
  BY <1>1, <1>2, <1>3 DEF ToSet
<1>7. QED
  BY <1>1, <1>5, <1>6 DEF r

(***************************************************************************)
(* notify(1) picks one of the sleepers it looks at, as long as there is    *)
(* one that has not been notified.                                         *)
(***************************************************************************)
LEMMA FirstAsleepFound ==
    ASSUME NEW s \in Seq(Tasks)
    PROVE  /\ FirstAsleep(s) \subseteq ToSet(s)
           /\ ToSet(s) \ notified # {} => FirstAsleep(s) # {}
<1>1. FirstAsleep(s) \subseteq ToSet(s)
  BY DEF FirstAsleep, ToSet
<1>2. ASSUME ToSet(s) \ notified # {} PROVE FirstAsleep(s) # {}
  <2> DEFINE T == {j \in DOMAIN s : s[j] \notin notified}
  <2>1. Len(s) \in Nat /\ DOMAIN s = 1..Len(s)
    BY LenProperties
  <2>2. T \subseteq Nat /\ T # {}
    BY <1>2, <2>1 DEF ToSet
  <2>3. PICK x \in T : \A y \in T : ~(<<y, x>> \in OpToRel(<, Nat))
    <3> HIDE DEF T
    <3>1. QED
      BY <2>2, NatLessThanWellFounded, WFMin
  <2>4. \A y \in T : ~(y < x)
    BY <2>2, <2>3 DEF OpToRel
  <2>5. \A k \in 1..(x - 1) : s[k] \in notified
    BY <2>1, <2>4
  <2>6. s[x] \in FirstAsleep(s)
    BY <2>3, <2>5 DEF FirstAsleep
  <2>7. QED
    BY <2>6
<1>3. QED
  BY <1>1, <1>2

(***************************************************************************)
(* The queue stays exact when a task goes to sleep for the first time ...  *)
(***************************************************************************)
LEMMA JoinKeepsQueue ==
    ASSUME IndInv, QueueExact, NEW t \in Tasks,
           pc[t] = "idle", NEW place \in {"waitRead", "waitWrite"},
           Sleep(t), GoTo(t, place), UNCHANGED notified
    PROVE  QueueExact' /\ Waiting' = Waiting \cup {t}
<1>1. Waiting' = Waiting \cup {t} /\ t \notin Waiting
  BY DEF Waiting, At, GoTo, IndInv, TypeInv
<1>2. QED
  BY <1>1, AppendOne DEF QueueExact, Sleep

(***************************************************************************)
(* ... when it wakes up and has to go on waiting ...                       *)
(***************************************************************************)
LEMMA SleepAgainKeepsQueue ==
    ASSUME QueueExact, NEW t \in Waiting, SleepAgain(t), UNCHANGED pc
    PROVE  QueueExact' /\ Waiting' = Waiting
<1>1. Waiting' = Waiting /\ t \in Tasks
  BY DEF Waiting, At
<1>2. /\ Without(t) \in Seq(Tasks)
      /\ NoTwice(Without(t))
      /\ ToSet(Without(t)) = ToSet(waiters) \ {t}
  BY WithoutOne DEF QueueExact
<1>3. /\ waiters' \in Seq(Tasks)
      /\ NoTwice(waiters')
      /\ ToSet(waiters') = (ToSet(waiters) \ {t}) \cup {t}
  BY <1>1, <1>2, AppendOne DEF SleepAgain
<1>4. QED
  BY <1>1, <1>3 DEF QueueExact, SleepAgain

(***************************************************************************)
(* ... and when it stops waiting, with or without the lock.                *)
(***************************************************************************)
LEMMA LeaveKeepsQueue ==
    ASSUME IndInv, QueueExact, NEW t \in Waiting,
           NEW place \in Places \ {"waitRead", "waitWrite"},
           waiters' = Without(t), GoTo(t, place),
           notified' \subseteq (notified \ {t}) \cup ToSet(Without(t))
    PROVE  /\ QueueExact'
           /\ Waiting' = Waiting \ {t}
           /\ ToSet(Without(t)) = Waiting \ {t}
           /\ Without(t) \in Seq(Tasks)
<1>1. Waiting' = Waiting \ {t} /\ t \in Tasks
  BY DEF Waiting, At, GoTo, IndInv, TypeInv
<1>2. /\ Without(t) \in Seq(Tasks)
      /\ NoTwice(Without(t))
      /\ ToSet(Without(t)) = ToSet(waiters) \ {t}
  BY WithoutOne DEF QueueExact
<1>3. QED
  BY <1>1, <1>2 DEF QueueExact

(***************************************************************************)
(* Every call, wake-up and cancellation leaves somebody called whenever it *)
(* leaves somebody asleep beside a free lock.                              *)
(***************************************************************************)
LEMMA NextWakeInv == IndInv /\ IndInv' /\ WakeInv /\ [Next]_vars => WakeInv'
<1> SUFFICES ASSUME IndInv, IndInv', WakeInv, [Next]_vars PROVE WakeInv'
  OBVIOUS
<1> USE DEF WakeInv
<1>t. pc \in [Tasks -> Places]
  BY DEF IndInv, TypeInv
<1>n. readers \in Nat
  <2>1. IsFiniteSet(At("reading"))
    BY TasksAssumption, FS_Subset DEF At
  <2>2. QED
    BY <2>1, FS_CardinalityType DEF IndInv, CountersExact
\* A reader that may not read although the lock is free sees a waiting writer.
<1>w. Free /\ ~CanRead => At("waitWrite") # {}
  <2>1. Cardinality({}) = 0
    BY FS_EmptySet
  <2>2. QED
    BY <2>1 DEF Free, CanRead, IndInv, CountersExact
<1>1. CASE UNCHANGED vars
  BY <1>1
  DEF vars, QueueExact, NoTwice, WritersCalled, SomeoneCalled, Free, Waiting, At
<1>2. ASSUME NEW t \in Tasks, AcquireRead(t) PROVE WakeInv'
  <2>1. CASE CanRead
    <3>1. ~Free'
      BY <1>2, <1>n, <2>1 DEF AcquireRead, Free
    <3>2. Waiting' = Waiting
      BY <1>2, <1>t, <2>1 DEF AcquireRead, Waiting, At, GoTo
    <3>3. QueueExact'
      BY <1>2, <2>1, <3>2 DEF AcquireRead, QueueExact, NoTwice
    <3>4. QED
      BY <3>1, <3>3 DEF WritersCalled, SomeoneCalled
  <2>2. CASE ~CanRead
    <3>1. /\ pc[t] = "idle"
          /\ Sleep(t)
          /\ GoTo(t, "waitRead")
          /\ UNCHANGED <<readers, writer, notified>>
      BY <1>2, <2>2 DEF AcquireRead
    <3>2. QueueExact'
      BY <3>1, JoinKeepsQueue
    <3>3. At("waitWrite")' = At("waitWrite")
      BY <1>t, <3>1 DEF GoTo, At
    <3>4. Free' = Free
      BY <3>1 DEF Free
    <3>5. WritersCalled'
      BY <3>1, <3>3, <3>4 DEF WritersCalled
    <3>6. SomeoneCalled'
      BY <1>w, <2>2, <3>1, <3>4 DEF WritersCalled, SomeoneCalled
    <3>7. QED
      BY <3>2, <3>5, <3>6
  <2>3. QED
    BY <2>1, <2>2
<1>3. ASSUME NEW t \in Tasks, WakeReader(t) PROVE WakeInv'
  <2>0. t \in Waiting /\ t \notin At("waitWrite")
    BY <1>3 DEF WakeReader, Waiting, At
  <2>1. CASE CanRead
    <3>1. ~Free'
      BY <1>3, <1>n, <2>1 DEF WakeReader, Free
    <3>2. /\ waiters' = Without(t)
          /\ notified' = notified \ {t}
          /\ GoTo(t, "reading")
      BY <1>3, <2>1 DEF WakeReader, Resume
    <3>3. QueueExact'
      BY <2>0, <3>2, LeaveKeepsQueue DEF Places
    <3>4. QED
      BY <3>1, <3>3 DEF WritersCalled, SomeoneCalled
  <2>2. CASE ~CanRead
    <3>1. SleepAgain(t) /\ UNCHANGED <<readers, writer, pc>>
      BY <1>3, <2>2 DEF WakeReader
    <3>2. QueueExact'
      BY <2>0, <3>1, SleepAgainKeepsQueue
    <3>3. At("waitWrite")' = At("waitWrite") /\ Free' = Free
      BY <3>1 DEF At, Free
    <3>4. WritersCalled'
      BY <2>0, <3>1, <3>3 DEF WritersCalled, SleepAgain
    <3>5. SomeoneCalled'
      BY <1>w, <2>0, <2>2, <3>1, <3>3
      DEF WritersCalled, SomeoneCalled, SleepAgain
    <3>6. QED
      BY <3>2, <3>4, <3>5
  <2>3. QED
    BY <2>1, <2>2
<1>4. ASSUME NEW t \in Tasks, AcquireWrite(t) PROVE WakeInv'
  <2>1. CASE CanWrite
    <3>1. ~Free' /\ UNCHANGED <<waiters, notified>>
      BY <1>4, <2>1 DEF AcquireWrite, Free
    <3>2. Waiting' = Waiting
      BY <1>4, <1>t, <2>1 DEF AcquireWrite, Waiting, At, GoTo
    <3>3. QueueExact'
      BY <3>1, <3>2 DEF QueueExact, NoTwice
    <3>4. QED
      BY <3>1, <3>3 DEF WritersCalled, SomeoneCalled
  <2>2. CASE ~CanWrite
    <3>1. /\ pc[t] = "idle"
          /\ Sleep(t)
          /\ GoTo(t, "waitWrite")
          /\ UNCHANGED <<readers, writer, notified>>
      BY <1>4, <2>2 DEF AcquireWrite
    <3>2. QueueExact'
      BY <3>1, JoinKeepsQueue
    <3>3. ~Free'
      BY <2>2, <3>1 DEF Free, CanWrite
    <3>4. QED
      BY <3>2, <3>3 DEF WritersCalled, SomeoneCalled
  <2>3. QED
    BY <2>1, <2>2
<1>5. ASSUME NEW t \in Tasks, WakeWriter(t) PROVE WakeInv'
  <2>0. t \in Waiting
    BY <1>5 DEF WakeWriter, Waiting, At
  <2>1. CASE CanWrite
    <3>1. /\ ~Free'
          /\ waiters' = Without(t)
          /\ notified' = notified \ {t}
          /\ GoTo(t, "writing")
      BY <1>5, <2>1 DEF WakeWriter, Resume, Free
    <3>2. QueueExact'
      BY <2>0, <3>1, LeaveKeepsQueue DEF Places
    <3>3. QED
      BY <3>1, <3>2 DEF WritersCalled, SomeoneCalled
  <2>2. CASE ~CanWrite
    <3>1. SleepAgain(t) /\ UNCHANGED <<readers, writer, pc>>
      BY <1>5, <2>2 DEF WakeWriter
    <3>2. QueueExact'
      BY <2>0, <3>1, SleepAgainKeepsQueue
    <3>3. ~Free'
      BY <2>2, <3>1 DEF Free, CanWrite
    <3>4. QED
      BY <3>2, <3>3 DEF WritersCalled, SomeoneCalled
  <2>3. QED
    BY <2>1, <2>2
<1>6. ASSUME NEW t \in Tasks, ReleaseRead(t) \/ ReleaseWrite(t)
      PROVE  WakeInv'
  <2>1. Waiting' = Waiting /\ At("waitWrite")' \subseteq Waiting
    BY <1>6, <1>t DEF ReleaseRead, ReleaseWrite, Waiting, At, GoTo
  <2>2. UNCHANGED waiters
    BY <1>6 DEF ReleaseRead, ReleaseWrite
  <2>3. (notified' = notified /\ ~Free') \/ notified' = Waiting
    BY <1>6 DEF ReleaseRead, ReleaseWrite, NotifyAll, Free, QueueExact
  <2>4. QueueExact'
    BY <2>1, <2>2, <2>3 DEF QueueExact, NoTwice
  <2>5. QED
    BY <2>1, <2>3, <2>4 DEF WritersCalled, SomeoneCalled
<1>7. ASSUME NEW t \in Tasks, CancelWait(t) PROVE WakeInv'
  <2> DEFINE rest == Without(t)
  <2>1. /\ t \in Waiting
        /\ waiters' = rest
        /\ notified' = (notified \ {t}) \cup FirstAsleep(rest)
        /\ GoTo(t, "idle")
        /\ UNCHANGED <<readers, writer>>
    BY <1>7 DEF CancelWait, Waiting, At
  <2>2. rest \in Seq(Tasks) /\ ToSet(rest) = ToSet(waiters) \ {t}
    BY <2>1, WithoutOne DEF QueueExact
  <2>3. /\ FirstAsleep(rest) \subseteq ToSet(rest)
        /\ ToSet(rest) \ notified # {} => FirstAsleep(rest) # {}
    BY <2>2, FirstAsleepFound
  <2>4. QueueExact' /\ Waiting' = Waiting \ {t}
    BY <2>1, <2>3, LeaveKeepsQueue DEF Places
  <2>5. WritersCalled'
    BY <1>t, <2>1 DEF WritersCalled, Free, At, GoTo
  <2>6. SomeoneCalled'
    BY <2>1, <2>2, <2>3, <2>4 DEF SomeoneCalled, QueueExact
  <2>7. QED
    BY <2>4, <2>5, <2>6
<1>8. QED
  BY <1>1, <1>2, <1>3, <1>4, <1>5, <1>6, <1>7 DEF Next, Wake, Release

(***************************************************************************)
(* Nobody sleeps when the lock is made.                                    *)
(***************************************************************************)
LEMMA InitWakeInv == Init => WakeInv
<1> SUFFICES ASSUME Init PROVE WakeInv
  OBVIOUS
<1>1. Waiting = {} /\ notified = {} /\ waiters = <<>>
  BY DEF Init, Waiting, At
<1>2. waiters \in Seq(Tasks) /\ DOMAIN waiters = {}
  BY <1>1, EmptySeq, LenProperties
<1>3. QED
  BY <1>1, <1>2
  DEF WakeInv, QueueExact, NoTwice, ToSet, WritersCalled, SomeoneCalled, Waiting

(***************************************************************************)
(* No wake-up is lost, however calls, wake-ups and cancellations           *)
(* interleave: a task that sleeps beside the lock is either behind a       *)
(* holder or behind a task that has been called and will run.              *)
(***************************************************************************)
THEOREM LockLosesNoWakeup == SafeSpec => []SleeperHasWaker
<1>1. IndInv /\ WakeInv => SleeperHasWaker
  <2> SUFFICES ASSUME IndInv, WakeInv, NEW t \in ToSet(waiters) \ notified
               PROVE  \E u \in Tasks \ {t} :
                         \/ pc[u] \in {"reading", "writing"}
                         \/ u \in notified
    BY DEF SleeperHasWaker
  <2>1. t \in Waiting /\ pc[t] \notin {"reading", "writing"}
    BY DEF WakeInv, QueueExact, Waiting, At
  <2>2. CASE Free
    <3>1. PICK u \in notified : TRUE
      BY <2>1, <2>2 DEF WakeInv, SomeoneCalled
    <3>2. u \in Tasks \ {t}
      BY <3>1 DEF WakeInv, QueueExact, Waiting, At
    <3>3. QED
      BY <3>1, <3>2
  <2>3. CASE ~Free
    <3>1. Cardinality({}) = 0
      BY FS_EmptySet
    <3>2. At("reading") # {} \/ At("writing") # {}
      BY <2>3, <3>1 DEF Free, IndInv, CountersExact
    <3>3. QED
      BY <2>1, <3>2 DEF At
  <2>4. QED
    BY <2>2, <2>3
<1>2. QED
  BY <1>1, InitWakeInv, NextWakeInv, LockInvariant, PTL DEF SafeSpec

------------------------------------------------------------------------------
(* The lock implements the gate. *)

\* mode, as the INSTANCE Gate of ReadWriteLock defines it.
Mode == [t \in Tasks |->
            CASE pc[t] = "waitRead" -> "askRead"
              [] pc[t] = "waitWrite" -> "askWrite"
              [] pc[t] = "reading" -> "read"
              [] pc[t] = "writing" -> "write"
              [] OTHER -> "idle"]

\* The mode of a task at each place.
ModeAt(place) == CASE place = "waitRead" -> "askRead"
                   [] place = "waitWrite" -> "askWrite"
                   [] place = "reading" -> "read"
                   [] place = "writing" -> "write"
                   [] OTHER -> "idle"

(***************************************************************************)
(* A task that moves changes its mode and no other task's.                 *)
(***************************************************************************)
LEMMA MoveMode ==
    ASSUME pc \in [Tasks -> Places],
           NEW t \in Tasks, NEW place \in Places, GoTo(t, place)
    PROVE  Mode' = [Mode EXCEPT ![t] = ModeAt(place)]
BY DEF GoTo, Mode, ModeAt, Places

(***************************************************************************)
(* Every step of the lock is a step of the gate, or leaves it as it is.    *)
(***************************************************************************)
LEMMA StepImplementsGate == IndInv /\ [Next]_vars => [Gate!Next]_Mode
<1> SUFFICES ASSUME IndInv, [Next]_vars PROVE [Gate!Next]_Mode
  OBVIOUS
<1> USE DEF IndInv, TypeInv
<1>0. Gate!Tasks = Tasks
  BY DEF Gate!Tasks, Tasks
\* The counters, read as the gate's view of the tasks.
<1>r. CanRead => ~Gate!Writing /\ ~Gate!WriterAsks
  <2>1. waiting_writers = 0 => At("waitWrite") = {}
    <3>1. IsFiniteSet(At("waitWrite"))
      BY TasksAssumption, FS_Subset DEF At
    <3>2. QED
      BY <3>1, FS_EmptySet DEF CountersExact
  <2>2. QED
    BY <1>0, <2>1
    DEF CanRead, CountersExact, At, Gate!Writing, Gate!WriterAsks, Places
<1>w. CanWrite => ~Gate!Writing /\ ~Gate!Reading
  <2>1. readers = 0 => At("reading") = {}
    <3>1. IsFiniteSet(At("reading"))
      BY TasksAssumption, FS_Subset DEF At
    <3>2. QED
      BY <3>1, FS_EmptySet DEF CountersExact
  <2>2. QED
    BY <1>0, <2>1
    DEF CanWrite, CountersExact, At, Gate!Writing, Gate!Reading, Places
<1>1. CASE UNCHANGED pc
  BY <1>1 DEF Mode
<1>2. ASSUME NEW t \in Tasks, AcquireRead(t) \/ WakeReader(t), pc' # pc
      PROVE  Gate!Next
  <2>1. CASE GoTo(t, "reading")
    <3>1. CanRead /\ t \in Readers /\ pc[t] \in {"idle", "waitRead"}
      BY <1>2, <2>1
      DEF AcquireRead, WakeReader, SleepAgain, GoTo, Roles
    <3>2. Mode' = [Mode EXCEPT ![t] = "read"] /\ Mode[t] \in {"idle", "askRead"}
      BY <2>1, <3>1, MoveMode DEF Mode, ModeAt, Places
    <3>3. Gate!GrantRead(t)
      BY <1>r, <3>1, <3>2 DEF Gate!GrantRead, Gate!Becomes, Mode
    <3>4. QED
      BY <1>0, <3>3 DEF Gate!Next
  <2>2. CASE GoTo(t, "waitRead") /\ pc[t] = "idle" /\ t \in Readers
    <3>1. Mode' = [Mode EXCEPT ![t] = "askRead"] /\ Mode[t] = "idle"
      BY <2>2, MoveMode DEF Mode, ModeAt, Places
    <3>2. Gate!Ask(t)
      BY <2>2, <3>1 DEF Gate!Ask, Gate!Becomes, Mode
    <3>3. QED
      BY <1>0, <3>2 DEF Gate!Next
  <2>3. QED
    BY <1>2, <2>1, <2>2 DEF AcquireRead, WakeReader, SleepAgain
<1>3. ASSUME NEW t \in Tasks, AcquireWrite(t) \/ WakeWriter(t), pc' # pc
      PROVE  Gate!Next
  <2>1. CASE GoTo(t, "writing")
    <3>1. CanWrite /\ t \in Writers /\ pc[t] \in {"idle", "waitWrite"}
      BY <1>3, <2>1
      DEF AcquireWrite, WakeWriter, SleepAgain, GoTo, Roles
    <3>2. Mode' = [Mode EXCEPT ![t] = "write"] /\ Mode[t] \in {"idle", "askWrite"}
      BY <2>1, <3>1, MoveMode DEF Mode, ModeAt, Places
    <3>3. Gate!GrantWrite(t)
      BY <1>w, <3>1, <3>2 DEF Gate!GrantWrite, Gate!Becomes, Mode
    <3>4. QED
      BY <1>0, <3>3 DEF Gate!Next
  <2>2. CASE GoTo(t, "waitWrite") /\ pc[t] = "idle" /\ t \in Writers
    <3>1. Mode' = [Mode EXCEPT ![t] = "askWrite"] /\ Mode[t] = "idle"
      BY <2>2, MoveMode DEF Mode, ModeAt, Places
    <3>2. Gate!Ask(t)
      BY <2>2, <3>1 DEF Gate!Ask, Gate!Becomes, Mode
    <3>3. QED
      BY <1>0, <3>2 DEF Gate!Next
  <2>3. QED
    BY <1>3, <2>1, <2>2 DEF AcquireWrite, WakeWriter, SleepAgain
<1>4. ASSUME NEW t \in Tasks, ReleaseRead(t) \/ ReleaseWrite(t)
      PROVE  Gate!Next
  <2>1. Mode' = [Mode EXCEPT ![t] = "idle"] /\ Mode[t] \in {"read", "write"}
    BY <1>4, MoveMode DEF ReleaseRead, ReleaseWrite, Mode, ModeAt, Places
  <2>2. Gate!Leave(t)
    BY <2>1 DEF Gate!Leave, Gate!Becomes, Mode
  <2>3. QED
    BY <1>0, <2>2 DEF Gate!Next
<1>5. ASSUME NEW t \in Tasks, CancelWait(t)
      PROVE  Gate!Next
  <2>1. /\ Mode' = [Mode EXCEPT ![t] = "idle"]
        /\ Mode[t] \in {"askRead", "askWrite"}
    BY <1>5, MoveMode DEF CancelWait, Mode, ModeAt, Places
  <2>2. Gate!GiveUp(t)
    BY <2>1 DEF Gate!GiveUp, Gate!Becomes, Mode
  <2>3. QED
    BY <1>0, <2>2 DEF Gate!Next
<1>6. QED
  BY <1>1, <1>2, <1>3, <1>4, <1>5 DEF Next, Wake, Release, vars

(***************************************************************************)
(* The lock implements the safety part of DatabaseGate for every set of    *)
(* tasks: no interleaving of calls, wake-ups and cancellations lets a      *)
(* reader or a writer in against the promise.                              *)
(***************************************************************************)
THEOREM LockImplementsGate == SafeSpec => ImplementsSafeGate
<1>1. Init => Gate!Init
  BY DEF Init, Gate!Init, Gate!Tasks, Tasks
<1>2. IndInv /\ [Next]_vars => [Gate!Next]_Mode
  BY StepImplementsGate
<1>3. QED
  BY <1>1, <1>2, LockInvariant, PTL
  DEF SafeSpec, ImplementsSafeGate, Gate!SafeSpec, Mode

===============================================================================
