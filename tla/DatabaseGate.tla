----------------------------- MODULE DatabaseGate -----------------------------
(***************************************************************************)
(* What the read/write lock of app/locks.py promises to its users, with    *)
(* nothing of how it keeps the promise: scans share the Trivy database,    *)
(* maintenance (a component download, a backup export) has it alone, and   *)
(* a writer that has asked is not overtaken by readers that ask later.     *)
(* There is no condition variable, no counter and no wake-up here; those   *)
(* are ReadWriteLock's, which implements this specification.               *)
(***************************************************************************)

CONSTANTS Readers, Writers      \* the tasks that share, and that exclude

Tasks == Readers \cup Writers

VARIABLE mode                   \* what each task has of the database

Modes == {"idle", "askRead", "askWrite", "read", "write"}

\* Types.
TypeOK == mode \in [Tasks -> Modes]

Init == mode = [t \in Tasks |-> "idle"]

WriterAsks == \E t \in Tasks : mode[t] = "askWrite"
Reading == \E t \in Tasks : mode[t] = "read"
Writing == \E t \in Tasks : mode[t] = "write"

Becomes(t, m) == mode' = [mode EXCEPT ![t] = m]

Ask(t) == /\ mode[t] = "idle"
          /\ \/ t \in Readers /\ Becomes(t, "askRead")
             \/ t \in Writers /\ Becomes(t, "askWrite")

\* A reader enters when nobody writes and no writer has asked before it.
GrantRead(t) == /\ t \in Readers
                /\ mode[t] \in {"idle", "askRead"}
                /\ ~Writing
                /\ ~WriterAsks
                /\ Becomes(t, "read")

\* A writer enters an empty database.
GrantWrite(t) == /\ t \in Writers
                 /\ mode[t] \in {"idle", "askWrite"}
                 /\ ~Writing
                 /\ ~Reading
                 /\ Becomes(t, "write")

\* A task that waits is cancelled.
GiveUp(t) == mode[t] \in {"askRead", "askWrite"} /\ Becomes(t, "idle")

Leave(t) == mode[t] \in {"read", "write"} /\ Becomes(t, "idle")

Next == \E t \in Tasks : \/ Ask(t)
                         \/ GrantRead(t)
                         \/ GrantWrite(t)
                         \/ GiveUp(t)
                         \/ Leave(t)

\* The safety part of the promise.
SafeSpec == Init /\ [][Next]_mode

\* A task that has asked, and could be let in from some point on, is let in.
ServesWriters ==
    \A t \in Writers : WF_mode(mode[t] = "askWrite" /\ GrantWrite(t))
ServesReaders ==
    \A t \in Readers : WF_mode(mode[t] = "askRead" /\ GrantRead(t))

WritersServedSpec == SafeSpec /\ ServesWriters
Spec == SafeSpec /\ ServesWriters /\ ServesReaders

(***************************************************************************)
(* A writer is alone: no reader and no other writer is in with it.         *)
(***************************************************************************)
ExclusiveWriter ==
    \A t \in Tasks : mode[t] = "write" =>
        \A u \in Tasks \ {t} : mode[u] \notin {"read", "write"}
===============================================================================
